--------------------------- MODULE WorkflowStatus ---------------------------
(***************************************************************************)
(* The status machine every write of a workflow record goes through:       *)
(* plugins/workflow/constants/src/state-machine.ts.  A run, a job and a    *)
(* step each have a table of legal successors; `assertTransition` throws   *)
(* unless the move is in the table or changes nothing.                     *)
(***************************************************************************)

RunTransitions ==
    [queued    |-> {"running", "cancelled", "success", "failed"},
     running   |-> {"success", "failed", "cancelled", "dlq"},
     success   |-> {}, failed |-> {}, cancelled |-> {}, skipped |-> {}, dlq |-> {}]

JobTransitions ==
    [queued           |-> {"running", "cancelled", "skipped", "success", "failed"},
     running          |-> {"success", "failed", "cancelled", "interrupted",
                           "waiting_approval", "waiting_child", "queued"},
     waiting_approval |-> {"queued", "cancelled", "failed"},
     waiting_child    |-> {"queued", "cancelled", "failed"},
     interrupted      |-> {"queued", "cancelled"},
     failed           |-> {"queued"},
     success |-> {}, cancelled |-> {}, skipped |-> {}]

StepTransitions ==
    [queued           |-> {"running", "skipped", "cancelled", "success",
                           "waiting_approval", "waiting_child"},
     running          |-> {"success", "failed", "waiting_approval", "waiting_child"},
     waiting_approval |-> {"success", "failed"},
     waiting_child    |-> {"success", "failed", "running"},
     success |-> {}, failed |-> {}, cancelled |-> {}, skipped |-> {}, dlq |-> {}]

RunState  == {"queued", "running", "success", "failed", "cancelled", "skipped", "dlq"}
JobState  == {"queued", "running", "waiting_approval", "waiting_child",
              "interrupted", "failed", "success", "cancelled", "skipped"}
StepState == {"queued", "running", "waiting_approval", "waiting_child",
              "success", "failed", "cancelled", "skipped", "dlq"}

\* terminalStates(RUN_TRANSITIONS): a run is done when nothing may follow.
RunTerminal == {s \in RunState : RunTransitions[s] = {}}

\* A job's set is listed by hand in the source: 'failed' belongs to it although
\* a retry may still move the job back to 'queued'.
JobTerminal == {"success", "failed", "cancelled", "skipped"}

\* assertTransition without allowReset: writing the same status again is legal.
RunLegal(from, to)  == from = to \/ to \in RunTransitions[from]
JobLegal(from, to)  == from = to \/ to \in JobTransitions[from]
StepLegal(from, to) == from = to \/ to \in StepTransitions[from]
=============================================================================
