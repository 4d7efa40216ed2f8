----------------------------- MODULE RunContract -----------------------------
(***************************************************************************)
(* What a workflow engine promises about one run, with no queue, no worker *)
(* and no daemon in it: jobs start after the jobs they need, a result is   *)
(* final, and the run's verdict agrees with its jobs.                      *)
(***************************************************************************)
EXTENDS WorkflowStatus

CONSTANTS Jobs, Needs
VARIABLES run, status

Init == run = "queued" /\ status = [j \in Jobs |-> "queued"]

Ready(j) == \A k \in Needs[j] : status[k] = "success"

\* Jobs move along their table, several at once when a failure cascades; a job begins
\* to run, and one is reported successful, only after everything it needs.
MoveJobs ==
    /\ status' \in [Jobs -> JobState]
    /\ \A j \in Jobs : /\ JobLegal(status[j], status'[j])
                       /\ status'[j] # status[j] /\ status'[j] \in {"running", "success"}
                            => Ready(j)
    /\ UNCHANGED run

\* The run starts, is cancelled, or gets a verdict that its jobs justify.
MoveRun ==
    /\ run' \in RunTransitions[run]
    /\ run' = "success" => \A j \in Jobs : status[j] = "success"
    /\ run' # "dlq"
    /\ UNCHANGED status

Next == MoveJobs \/ MoveRun
Spec == Init /\ [][Next]_<<run, status>>
=============================================================================
