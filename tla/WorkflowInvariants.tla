------------------------- MODULE WorkflowInvariants -------------------------
(***************************************************************************)
(* The inductive invariants behind the safety properties of WorkflowEngine.*)
(* TLC checks them like any other invariant, WorkflowEngine_proofs proves  *)
(* them.                                                                   *)
(***************************************************************************)
EXTENDS WorkflowEngine

\* claimedJobs holds the job of every loop past the claim, and one loop for each.
ClaimsHeld ==
    /\ \A w \in Workers : Holding(w) => cur[w] \in claimed
    /\ OneExecutor

\* Everything j needs has succeeded.  No step takes that away again.
Cleared(j) == \A k \in Needs[j] : status[k] = "success"

\* A dependency is struck off only when it has succeeded.
PendingIsExact ==
    /\ \A j \in Jobs : \A k \in Needs[j] \ pending[j] : status[k] = "success"
    /\ \A w \in Workers : \A u \in local[w].resolve : status[u] = "success"

\* Whatever may still start, restart or settle a job, in the queue, in the record or in the
\* memory of any activity, does so for a cleared one.
QueueCleared == \A j \in Jobs : queue[j] > 0 => Cleared(j)
RecordCleared ==
    \A j \in Jobs : \/ status[j] = "interrupted"
                    \/ \E i \in DOMAIN step[j] : step[j][i] = "waiting_approval"
                    => Cleared(j)
LoopsCleared ==
    \A w \in Workers : /\ pc[w] # "idle" => Cleared(cur[w])
                       /\ \A j \in local[w].jobs \cup local[w].skip : Cleared(j)
OthersCleared ==
    /\ \A j \in Jobs : retry[j] # {} => Cleared(j)
    /\ \A j \in unscheduled \cup resumed : Cleared(j)
    /\ startup = "resume" => \A j \in sweep : Cleared(j)
    /\ \A c \in Clients : request[c].at # "idle" => Cleared(request[c].job)
HandedOutIsCleared == QueueCleared /\ RecordCleared /\ LoopsCleared /\ OthersCleared

\* A verdict of success once decided stays justified until it is written.
VerdictIsSound ==
    /\ \A w \in Workers : pc[w] = "to success" => AllSucceeded
    /\ startup = "to success" => AllSucceeded
    /\ SuccessIsComplete

\* A step that is settled when a loop takes its snapshot is settled for good, so the old
\* snapshot tells the truth about it; and a loop leaves no step behind it open.
SeenIsTrue ==
    \A w \in Workers : pc[w] \notin {"idle", "dequeued"} =>
        /\ Len(local[w].seen) = Len(step[cur[w]])
        /\ \A i \in 1..Len(step[cur[w]]) :
              local[w].seen[i] \in {"success", "failed"} => step[cur[w]][i] = local[w].seen[i]
SettledStep(j, i) ==
    \/ step[j][i] = "success"
    \/ step[j][i] = "failed" /\ Plan[j][i] \in {"lenient", "approval"}
NoneLeftOpen ==
    \A w \in Workers :
        /\ pc[w] \in {"idle", "dequeued"} => local[w].idx = 1
        /\ pc[w] \in {"start", "execute", "complete step", "fail step"} =>
              local[w].idx <= Len(local[w].seen)
        /\ pc[w] \notin {"idle", "dequeued"} => local[w].idx <= Len(local[w].seen) + 1
        /\ pc[w] # "idle" => \A i \in 1..(local[w].idx - 1) : SettledStep(cur[w], i)
ProgressIsTrue == SeenIsTrue /\ NoneLeftOpen

\* No step waits for a human, so no request is ever under way.
NoApprovals == \A j \in Jobs : \A i \in 1..Len(Plan[j]) : Plan[j][i] # "approval"
NobodyAsks ==
    /\ \A w \in Workers : pc[w] # "park"
    /\ \A j \in Jobs : \A i \in DOMAIN step[j] : step[j][i] # "waiting_approval"
    /\ \A c \in Clients : request[c].at = "idle"

\* A job has at most one carrier, and none while it is blocked or interrupted; one whose
\* retry timer runs has failed, and only the loop that is leaving it may still have it.
Idle(j) == Carriers(j) = {} /\ "armed" \notin retry[j]
Leaving(j) == {<<"loop", w>> : w \in {v \in Workers : cur[v] = j /\ pc[v] = "leave"}}
TimersAlone ==
    \A j \in Jobs : "armed" \in retry[j] => status[j] = "failed" /\ Carriers(j) \subseteq Leaving(j)
IdleAreIdle ==
    \A j \in Jobs : /\ blocked[j] \/ status[j] = "interrupted" => Idle(j)
                    /\ blocked[j] => status[j] # "interrupted"
ListsApart == \A w \in Workers : local[w].jobs \cap local[w].skip = {}
SweepIsExact == startup = "resume" => \A j \in sweep : status[j] = "interrupted"
HandedOnce == /\ NobodyAsks /\ NoDuplicateEntry
              /\ TimersAlone /\ IdleAreIdle /\ ListsApart /\ SweepIsExact

\* Nothing fails but workspaces, and nobody stops the daemon.
Gentle == NoApprovals /\ Faults \subseteq {"cancel", "workspace"}

\* What is not begun is queued, and what a loop has begun is not; a claim outlives its
\* loop, and a list is given up, only when the run is over.
NotBegun(w) == pc[w] \in {"dequeued", "read", "claimed"}
BegunOrQueued ==
    /\ \A j \in Jobs : queue[j] > 0 \/ "requeued" \in retry[j] \/ j \in unscheduled
                       => status[j] = "queued"
    /\ \A w \in Workers :
         /\ NotBegun(w) => status[cur[w]] = "queued"
         /\ pc[w] # "idle" /\ ~NotBegun(w) => status[cur[w]] # "queued"
         /\ \A j \in local[w].jobs \cup local[w].skip : status[j] = "queued"
         /\ \/ pc[w] \in {"promote", "provision"}
            \/ pc[w] = "fail" /\ local[w].outcome = "unprovisioned"
            => status[cur[w]] = "running"
ClaimsEnd ==
    \A j \in claimed : run \in RunTerminal \/ \E w \in Workers : Holding(w) /\ cur[w] = j
Settling == {"check", "to success", "to failed", "enqueue"}
ListsEnd ==
    \A w \in Workers :
        /\ pc[w] = "fail" => local[w].outcome \in {"failed", "unprovisioned"}
        /\ pc[w] = "resolve" => local[w].outcome = "completed"
        /\ pc[w] \in Settling /\ local[w].outcome = "completed" => local[w].skip = {}
        /\ \/ local[w].jobs \cup local[w].skip = {}
           \/ pc[w] \in Settling \cup {"resolve"} /\ local[w].outcome = "completed"
           \/ run \in RunTerminal
NoneForgotten == /\ daemon = "up" /\ startup = "off" /\ resumed = {}
                 /\ BegunOrQueued /\ ClaimsEnd /\ ListsEnd /\ QueuedIsCarried

\* The claims, the dependency records and everything derived from them agree in every
\* reachable state, whatever fails; without approvals no job is handed out twice, and none
\* is forgotten while the daemon runs.
IInv == /\ TypeOK /\ ClaimsHeld /\ PendingIsExact /\ HandedOutIsCleared
        /\ VerdictIsSound /\ ProgressIsTrue
        /\ (NoApprovals => HandedOnce) /\ (Gentle => NoneForgotten)
=============================================================================
