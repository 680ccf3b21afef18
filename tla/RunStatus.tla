------------------------------ MODULE RunStatus ------------------------------
(***************************************************************************)
(* The status machine of analysis runs, as backend/domain/                 *)
(* status_transitions.py tabulates it.  Pure definitions: the modules that *)
(* move runs consult CanTransition exactly where the code calls            *)
(* can_transition_analysis_run.                                            *)
(***************************************************************************)

AnalysisRunStatus ==
  {"pending", "queued", "running",
   "success", "partial_success", "no_data", "error", "cancelled"}

\* Finished runs.
Terminal == {"success", "partial_success", "no_data", "error", "cancelled"}

\* Finished runs that may be queued again, and those that may run again in
\* place: the code keeps two sets with the same members.
RetryToQueued    == Terminal \ {"success"}
RestartToRunning == Terminal \ {"success"}

\* What each live status may become, restarts of finished runs aside.
Allowed ==
  [pending |-> {"queued", "running", "cancelled"},
   queued  |-> {"running", "cancelled", "error"},
   running |-> Terminal]

CanTransition(current, target) ==
  \/ current = target
  \/ target = "running" /\ current \in RestartToRunning
  \/ target = "queued"  /\ current \in RetryToQueued
  \/ current \notin Terminal /\ target \in Allowed[current]

IsRetriable(status) == status \in RetryToQueued
IsTerminal(status)  == status \in Terminal

==============================================================================
