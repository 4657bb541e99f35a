---------------------------- MODULE RunLifecycle ----------------------------
(***************************************************************************)
(* What the run subsystem promises of a single run that it executes        *)
(* itself: a run is created queued, is started at most once, reaches       *)
(* exactly one terminal state, and only a terminal run is ever removed.    *)
(* `serving' tells whether the application is up; a stop may interrupt a   *)
(* run, and the application only serves again once no run is left active.  *)
(* The states are those of app/storage.py, ACTIVE_STATES, TERMINAL_STATES. *)
(***************************************************************************)
CONSTANT Runs      \* the run ids (uuid4, never reused)

VARIABLES state,   \* what run.json says of each run
          serving  \* is the application accepting requests

vars == <<state, serving>>

Active   == {"queued", "running"}
Terminal == {"completed", "failed"}
Absent   == {"absent", "removed"}   \* no run.json: never written, or deleted

Become(r, s) == state' = [state EXCEPT ![r] = s]

Init ==
  /\ state = [r \in Runs |-> "absent"]
  /\ serving = FALSE

Queue(r) ==
  /\ serving
  /\ state[r] = "absent"
  /\ Become(r, "queued")
  /\ UNCHANGED serving

Start(r) ==
  /\ state[r] = "queued"
  /\ Become(r, "running")
  /\ UNCHANGED serving

Settle(r) ==
  /\ state[r] = "running"
  /\ \E s \in Terminal : Become(r, s)
  /\ UNCHANGED serving

\* A stopped application turns whatever was under way into a failure, and a
\* run that completed while the application was stopping may be overturned.
Interrupt(r) ==
  /\ ~serving
  /\ state[r] \in Active \cup {"completed"}
  /\ Become(r, "failed")
  /\ UNCHANGED serving

Remove(r) ==
  /\ state[r] \in Terminal
  /\ Become(r, "removed")
  /\ UNCHANGED serving

Stop ==
  /\ serving
  /\ serving' = FALSE
  /\ UNCHANGED state

Resume ==
  /\ ~serving
  /\ \A r \in Runs : state[r] \notin Active
  /\ serving' = TRUE
  /\ UNCHANGED state

Next ==
  \/ \E r \in Runs : Queue(r) \/ Start(r) \/ Settle(r) \/ Interrupt(r) \/ Remove(r)
  \/ Stop
  \/ Resume

Spec == Init /\ [][Next]_vars
=============================================================================
