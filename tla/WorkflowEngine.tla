--------------------------- MODULE WorkflowEngine ---------------------------
(***************************************************************************)
(* One workflow run executed by one workflow daemon: the durable run       *)
(* record (engine/src/engine.ts, state-store.ts), the shared job queue     *)
(* (scheduler.ts, abstracted to a bag here, see JobQueue) and the worker   *)
(* loops of daemon/src/worker.ts with everything else the daemon does to   *)
(* the same record: the scheduling of a new run, retry timers, approval    *)
(* requests, cancellation, graceful shutdown, a crash, and the start-up    *)
(* sweep of bootstrap.ts.                                                  *)
(*                                                                         *)
(* Each write of the record is one action: StateStore.updateRun holds the  *)
(* per-run lock around its read-modify-write (module WithLock).  Between   *)
(* two awaits of one handler any other activity may act, so a handler is   *)
(* a sequence of actions, and what it read before an await may be stale    *)
(* when it writes.                                                         *)
(***************************************************************************)
EXTENDS WorkflowStatus, Naturals, Sequences, FiniteSets

CONSTANTS
    Jobs,         \* job names of the spec
    Needs,        \* Needs[j]: the jobs named in j's `needs:`
    Plan,         \* Plan[j]: the kinds of j's steps, in order
    Conditional,  \* jobs with an `if:`, which may evaluate to false
    Workers,      \* concurrent worker loops
    Clients,      \* concurrent approval requests being served
    MaxAttempts,  \* RetryPolicyConfig.maxAttempts
    MaxCrashes,   \* bound on deaths and needless launches of processes
    Faults,       \* environment events the instance admits
    None

\* regular: runs in the execution backend.  lenient: the same with
\* continueOnError.  optional: has a step-level `if:`.  approval: builtin:approval.
StepKind == {"regular", "lenient", "optional", "approval"}

ASSUME JobsFinite    == IsFiniteSet(Jobs)
ASSUME NeedsType     == Needs \in [Jobs -> SUBSET Jobs]
ASSUME PlanType      == Plan \in [Jobs -> Seq(StepKind)]
ASSUME BoundsType    == MaxAttempts \in Nat /\ MaxCrashes \in Nat
ASSUME FaultsType    == Faults \subseteq {"cancel", "stop", "crash", "secrets",
                                          "workspace", "cache", "hasty", "stray"}
ASSUME NoneIsNoJob   == None \notin Jobs

VARIABLES
    \* the durable run record
    run,       \* run.status
    status,    \* job.status
    step,      \* step[j][i]: status of the i-th step of j
    pending,   \* job.pendingDependencies
    blocked,   \* job.blocked
    attempt,   \* job.attempt
    \* the shared cache
    queue,     \* queue[j]: number of queue entries that name j
    \* memory of the daemon process
    pc, cur,   \* worker loop: where it is, the job it dequeued
    local,     \* worker loop: its other variables
    claimed,   \* claimedJobs
    retry,     \* retry[j]: progress of pending retry timers
    request,   \* request[c]: an approval being resolved
    unscheduled, \* jobs createRun has still to enqueue
    daemon,    \* phase of the process that runs the loops
    startup,   \* phase of a process that starts up against the same store
    sweep, torn, resumed, \* start-up: jobs to treat, running steps it has seen,
                          \* jobs re-queued but not enqueued
    crashes

recordVars == <<run, status, step, pending, blocked, attempt>>
workerVars == <<pc, cur, local, claimed>>
asyncVars  == <<retry, request, unscheduled>>
startVars  == <<startup, sweep, torn, resumed>>
daemonVars == <<daemon, startVars, crashes>>
vars == <<recordVars, queue, workerVars, asyncVars, daemonVars>>

(***************************************************************************)
(* Helpers                                                                 *)
(***************************************************************************)
\* A loop's local variables: `seen` is the snapshot of the steps taken when the
\* entry was dequeued, `outcome` which completion handler runs, the three sets the
\* work left of markJobCompleted: names to resolve, jobs to skip, jobs to enqueue.
NoLocal == [idx |-> 1, seen |-> <<>>, outcome |-> "none",
            resolve |-> {}, skip |-> {}, jobs |-> {}]
NoRequest == [at |-> "idle", job |-> None, idx |-> 1, action |-> "success"]

Move(w, label) == pc' = [pc EXCEPT ![w] = label]

\* The loop goes back to polling without touching the claim.
Drop(w) ==
    /\ Move(w, "idle")
    /\ cur' = [cur EXCEPT ![w] = None]
    /\ local' = [local EXCEPT ![w] = NoLocal]

\* The `finally` of the job promise: claimedJobs.delete(jobKey).
Release(w) == Drop(w) /\ claimed' = claimed \ {cur[w]}

Advance(w) == local' = [local EXCEPT ![w].idx = @ + 1]
Enqueue(j) == queue' = [queue EXCEPT ![j] = @ + 1]

\* What `checkRunCompletion` decides from the record it reads.
UndecidedAll == \E j \in Jobs : status[j] \notin JobTerminal  \* mutant: blocked jobs count
Undecided == \E j \in Jobs : status[j] \notin JobTerminal /\ ~blocked[j]
AllEnded == \A j \in Jobs : status[j] \in JobTerminal  \* mutant: any end is a success
AllSucceeded == \A j \in Jobs : status[j] = "success"
AnyFailed == \E j \in Jobs : status[j] = "failed"

\* resolveBlockedJobs, success: jobs that still wait for u.
WaitingFor(u) ==
    {j \in Jobs : status[j] = "queued" /\ blocked[j] /\ u \in Needs[j] /\ u \in pending[j]}

\* mutant: a job is released by each of its needs.
ReleasedByEach(u) == {j \in Jobs : status[j] = "queued" /\ u \in Needs[j]}
\* Those that wait for nothing else.
Released(u) == {j \in WaitingFor(u) : pending[j] = {u}}

\* resolveBlockedJobs, failure: the least set that contains every waiting job with
\* a need among u and the set itself (the source iterates to that fixpoint).
Doomed(u) ==
    LET waiting == {j \in Jobs : status[j] = "queued" /\ blocked[j]}
        Closed(S) == \A j \in waiting : Needs[j] \cap (S \cup {u}) # {} => j \in S
    IN  {j \in waiting : \A S \in SUBSET waiting : Closed(S) => j \in S}

ScheduledAll == Jobs  \* mutant: blocked jobs are enqueued too
\* The jobs scheduleRun enqueues.
Scheduled == {j \in Jobs : Needs[j] = {}}

Init ==
    /\ run = "queued"
    /\ status = [j \in Jobs |-> "queued"]
    /\ step = [j \in Jobs |-> [i \in 1..Len(Plan[j]) |-> "queued"]]
    /\ pending = Needs
    /\ blocked = [j \in Jobs |-> Needs[j] # {}]
    /\ attempt = [j \in Jobs |-> 0]
    /\ queue = [j \in Jobs |-> 0]
    /\ pc = [w \in Workers |-> "idle"]
    /\ cur = [w \in Workers |-> None]
    /\ local = [w \in Workers |-> NoLocal]
    /\ claimed = {}
    /\ retry = [j \in Jobs |-> {}]
    /\ request = [c \in Clients |-> NoRequest]
    /\ unscheduled = Scheduled
    /\ daemon = "up" /\ crashes = 0
    /\ startup = "off" /\ sweep = {} /\ torn = {} /\ resumed = {}

\* Scheduler.scheduleRun, called by createRun once the run is saved.
ScheduleJob(j) ==
    /\ j \in unscheduled
    /\ unscheduled' = unscheduled \ {j}
    /\ Enqueue(j)
    /\ UNCHANGED <<recordVars, workerVars, retry, request, daemonVars>>

(***************************************************************************)
(* The worker loop: from the queue to the first step                       *)
(***************************************************************************)
Dequeue(w) ==
    /\ daemon = "up" /\ pc[w] = "idle"
    /\ \E j \in Jobs :
          /\ queue[j] > 0
          /\ queue' = [queue EXCEPT ![j] = @ - 1]
          /\ cur' = [cur EXCEPT ![w] = j]
    /\ Move(w, "dequeued")
    /\ UNCHANGED <<recordVars, local, claimed, asyncVars, daemonVars>>

\* engine.getRun: the loop keeps this copy of the job's steps to the end.
ReadRun(w) ==
    /\ pc[w] = "dequeued"
    /\ local' = [local EXCEPT ![w].seen = step[cur[w]]]
    /\ Move(w, "read")
    /\ UNCHANGED <<recordVars, queue, cur, claimed, asyncVars, daemonVars>>

\* mutant: no look at claimedJobs.
ClaimUnchecked(w) ==
    /\ pc[w] = "read"
    /\ claimed' = claimed \cup {cur[w]} /\ Move(w, "claimed")
    /\ UNCHANGED <<cur, local, recordVars, queue, asyncVars, daemonVars>>

Claim(w) ==
    /\ pc[w] = "read"
    /\ IF cur[w] \in claimed
       THEN Drop(w) /\ UNCHANGED claimed
       ELSE /\ claimed' = claimed \cup {cur[w]}
            /\ Move(w, "claimed")
            /\ UNCHANGED <<cur, local>>
    /\ UNCHANGED <<recordVars, queue, asyncVars, daemonVars>>

\* markJobStarted, first write.  A throw leaves processJob before its `finally`
\* exists: the claim stays in claimedJobs.
MarkJobRunning(w) ==
    /\ pc[w] = "claimed"
    /\ IF JobLegal(status[cur[w]], "running")
       THEN /\ status' = [status EXCEPT ![cur[w]] = "running"]
            /\ Move(w, "promote")
            /\ UNCHANGED <<cur, local>>
       ELSE Drop(w) /\ UNCHANGED status
    /\ UNCHANGED <<run, step, pending, blocked, attempt, queue, claimed, asyncVars, daemonVars>>

\* secretProvider.resolve rejects for the job-level names: the same early throw.
JobSecretsFail(w) ==
    /\ "secrets" \in Faults
    /\ pc[w] = "claimed"
    /\ Drop(w)
    /\ UNCHANGED <<recordVars, queue, claimed, asyncVars, daemonVars>>

\* markJobStarted, second write: promote the run if it is still queued.
PromoteRun(w) ==
    /\ pc[w] = "promote"
    /\ run' = IF run = "queued" THEN "running" ELSE run
    /\ Move(w, "provision")
    /\ UNCHANGED <<status, step, pending, blocked, attempt, queue, cur, local, claimed,
                   asyncVars, daemonVars>>

Provision(w) ==
    /\ pc[w] = "provision"
    /\ Move(w, "loop")
    /\ UNCHANGED <<recordVars, queue, cur, local, claimed, asyncVars, daemonVars>>

\* wsProvider.materialize rejects: markJobFailed outside the job promise.
ProvisionFails(w) ==
    /\ "workspace" \in Faults
    /\ pc[w] = "provision"
    /\ Move(w, "fail")
    /\ local' = [local EXCEPT ![w].outcome = "unprovisioned"]
    /\ UNCHANGED <<recordVars, queue, cur, claimed, asyncVars, daemonVars>>

(***************************************************************************)
(* The worker loop: the steps, one after the other                         *)
(***************************************************************************)
AtStep(w) == pc[w] = "loop" /\ local[w].idx <= Len(local[w].seen)
Kind(w) == Plan[cur[w]][local[w].idx]
Seen(w) == local[w].seen[local[w].idx]
Stored(w) == step[cur[w]][local[w].idx]

\* `continue` on a step the snapshot shows finished; a rejected approval is left to
\* the steps behind it.
SkipSettled(w) ==
    /\ AtStep(w)
    /\ \/ Seen(w) = "success"
       \/ /\ Kind(w) = "approval" /\ Seen(w) = "failed"
          /\ run # "cancelled" /\ status[cur[w]] \notin JobTerminal
    /\ Advance(w)
    /\ UNCHANGED <<recordVars, queue, pc, cur, claimed, asyncVars, daemonVars>>

\* mutant: the loop leaves without telling the record.
StopSilently(w) ==
    /\ AtStep(w) /\ Seen(w) # "success" /\ run = "cancelled"
    /\ Release(w)
    /\ UNCHANGED <<recordVars, queue, asyncVars, daemonVars>>

\* The fresh read before a step finds the run cancelled ...
StopOnCancel(w) ==
    /\ AtStep(w) /\ Seen(w) # "success"
    /\ run = "cancelled"
    /\ Move(w, "interrupt")
    /\ UNCHANGED <<recordVars, queue, cur, local, claimed, asyncVars, daemonVars>>

\* ... or the job already settled by somebody else.
AbortOnTerminal(w) ==
    /\ AtStep(w) /\ Seen(w) # "success"
    /\ run # "cancelled" /\ status[cur[w]] \in JobTerminal
    /\ Release(w)
    /\ UNCHANGED <<recordVars, queue, asyncVars, daemonVars>>

\* Neither: the step is executed, skipped by its `if:`, or parked.
Proceed(w) ==
    /\ AtStep(w) /\ Seen(w) # "success"
    /\ run # "cancelled" /\ status[cur[w]] \notin JobTerminal
    /\ \/ /\ Kind(w) \in {"regular", "lenient", "optional"}
          /\ Move(w, "start") /\ UNCHANGED <<cur, local, claimed>>
       \/ /\ Kind(w) = "optional"
          /\ Move(w, "complete step") /\ UNCHANGED <<cur, local, claimed>>
       \/ /\ Kind(w) = "approval" /\ Seen(w) \notin {"failed", "waiting_approval"}
          /\ Move(w, "park") /\ UNCHANGED <<cur, local, claimed>>
       \/ /\ Kind(w) = "approval" /\ Seen(w) = "waiting_approval"
          /\ Release(w)
    /\ UNCHANGED <<recordVars, queue, asyncVars, daemonVars>>

\* A secret of the step does not resolve: a throw inside the promise.
StepSecretsFail(w) ==
    /\ "secrets" \in Faults
    /\ AtStep(w) /\ Seen(w) # "success"
    /\ run # "cancelled" /\ status[cur[w]] \notin JobTerminal
    /\ Move(w, "fail")
    /\ local' = [local EXCEPT ![w].outcome = "failed"]
    /\ UNCHANGED <<recordVars, queue, cur, claimed, asyncVars, daemonVars>>

\* A throw inside the job promise reaches its `catch`, which calls markJobFailed.
Throw(w) == /\ Move(w, "fail")
            /\ local' = [local EXCEPT ![w].outcome = "failed"]

SetStep(w, s) == step' = [step EXCEPT ![cur[w]][local[w].idx] = s]

MarkStepStarted(w) ==
    /\ pc[w] = "start"
    /\ IF StepLegal(Stored(w), "running")
       THEN SetStep(w, "running") /\ Move(w, "execute") /\ UNCHANGED local
       ELSE Throw(w) /\ UNCHANGED step
    /\ UNCHANGED <<run, status, pending, blocked, attempt, queue, cur, claimed,
                   asyncVars, daemonVars>>

\* runner.execute answers with a result; it reports a failed step, it does not throw.
ExecuteStep(w) ==
    /\ pc[w] = "execute"
    /\ \E result \in {"complete step", "fail step"} : Move(w, result)
    /\ UNCHANGED <<recordVars, queue, cur, local, claimed, asyncVars, daemonVars>>

MarkStepCompleted(w) ==
    /\ pc[w] = "complete step"
    /\ IF StepLegal(Stored(w), "success")
       THEN SetStep(w, "success") /\ Move(w, "loop") /\ Advance(w)
       ELSE Throw(w) /\ UNCHANGED step
    /\ UNCHANGED <<run, status, pending, blocked, attempt, queue, cur, claimed,
                   asyncVars, daemonVars>>

MarkStepFailed(w) ==
    /\ pc[w] = "fail step"
    /\ IF StepLegal(Stored(w), "failed")
       THEN /\ SetStep(w, "failed")
            /\ IF Kind(w) = "lenient" THEN Move(w, "loop") /\ Advance(w) ELSE Throw(w)
       ELSE Throw(w) /\ UNCHANGED step
    /\ UNCHANGED <<run, status, pending, blocked, attempt, queue, cur, claimed,
                   asyncVars, daemonVars>>

\* markStepWaitingApproval: job and step park in one write; the loop then publishes
\* the event before it gives its claim back.
ParkForApproval(w) ==
    /\ pc[w] = "park"
    /\ IF /\ JobLegal(status[cur[w]], "waiting_approval")
          /\ StepLegal(Stored(w), "waiting_approval")
       THEN /\ status' = [status EXCEPT ![cur[w]] = "waiting_approval"]
            /\ SetStep(w, "waiting_approval")
            /\ Move(w, "leave") /\ UNCHANGED local
       ELSE Throw(w) /\ UNCHANGED <<status, step>>
    /\ UNCHANGED <<run, pending, blocked, attempt, queue, cur, claimed, asyncVars, daemonVars>>

\* mutant: the `return` behind a parked step is missing.
LeaveForgotten(w) ==
    /\ pc[w] = "leave"
    /\ Move(w, "loop") /\ Advance(w)
    /\ UNCHANGED <<recordVars, queue, cur, claimed, asyncVars, daemonVars>>

\* The loop returns, after markStepWaitingApproval or a scheduled retry.
Leave(w) ==
    /\ pc[w] = "leave"
    /\ Release(w)
    /\ UNCHANGED <<recordVars, queue, asyncVars, daemonVars>>

MarkJobInterrupted(w) ==
    /\ pc[w] = "interrupt"
    /\ IF JobLegal(status[cur[w]], "interrupted")
       THEN status' = [status EXCEPT ![cur[w]] = "interrupted"] /\ Release(w)
       ELSE Throw(w) /\ UNCHANGED <<status, cur, claimed>>
    /\ UNCHANGED <<run, step, pending, blocked, attempt, queue, asyncVars, daemonVars>>

(***************************************************************************)
(* markJobCompleted                                                        *)
(***************************************************************************)
MarkJobSucceeded(w) ==
    /\ pc[w] = "loop" /\ local[w].idx > Len(local[w].seen)
    /\ IF JobLegal(status[cur[w]], "success")
       THEN /\ status' = [status EXCEPT ![cur[w]] = "success"]
            /\ Move(w, "resolve")
            /\ local' = [local EXCEPT ![w].resolve = {cur[w]}, ![w].outcome = "completed"]
       ELSE Throw(w) /\ UNCHANGED status
    /\ UNCHANGED <<run, step, pending, blocked, attempt, queue, cur, claimed,
                   asyncVars, daemonVars>>

\* persistSuccessfulDependents, one call of resolveBlockedJobs: u leaves the pending
\* dependencies; a job with none left is released, and then either kept for the
\* enqueue or, when its `if:` is false, left to SkipJob.
ResolveDependents(w) ==
    /\ pc[w] = "resolve"
    /\ \E u \in local[w].resolve :
         LET waiting  == WaitingFor(u)
             released == Released(u)
         IN  /\ pending' = [j \in Jobs |-> IF j \in waiting THEN pending[j] \ {u} ELSE pending[j]]
             /\ blocked' = [j \in Jobs |-> blocked[j] /\ j \notin released]
             /\ \E skipped \in SUBSET (released \cap Conditional) :
                  local' = [local EXCEPT ![w].resolve = @ \ {u},
                                         ![w].skip = @ \cup skipped,
                                         ![w].jobs = @ \cup (released \ skipped)]
    /\ UNCHANGED <<run, status, step, attempt, queue, pc, cur, claimed, asyncVars, daemonVars>>

\* A skipped job counts as a success and releases its own dependents in turn.
SkipJob(w) ==
    /\ pc[w] = "resolve"
    /\ \E j \in local[w].skip :
         IF JobLegal(status[j], "success")
         THEN /\ status' = [status EXCEPT ![j] = "success"]
              /\ local' = [local EXCEPT ![w].skip = @ \ {j}, ![w].resolve = @ \cup {j}]
              /\ UNCHANGED pc
         ELSE Throw(w) /\ UNCHANGED status
    /\ UNCHANGED <<run, step, pending, blocked, attempt, queue, cur, claimed,
                   asyncVars, daemonVars>>

DependentsResolved(w) ==
    /\ pc[w] = "resolve"
    /\ local[w].resolve = {} /\ local[w].skip = {}
    /\ Move(w, "check")
    /\ UNCHANGED <<recordVars, queue, cur, local, claimed, asyncVars, daemonVars>>

\* What follows checkRunCompletion in markJobCompleted and in markJobFailed.
AfterCheck(w) == IF local[w].outcome = "completed" THEN "enqueue" ELSE "cascade"

\* checkRunCompletion: decide from a plain read ...
CheckRun(w) ==
    /\ pc[w] = "check"
    /\ Move(w, IF Undecided THEN AfterCheck(w)
               ELSE IF AllSucceeded THEN "to success"
               ELSE IF AnyFailed THEN "to failed"
               ELSE AfterCheck(w))
    /\ UNCHANGED <<recordVars, queue, cur, local, claimed, asyncVars, daemonVars>>

\* ... and write the verdict later.  An illegal move throws: out of markJobCompleted
\* into the catch of the job promise, out of markJobFailed into its finally, out of a
\* failed provisioning past the line that would delete the claim.
FinalizeRun(w, verdict) ==
    /\ IF RunLegal(run, verdict)
       THEN run' = verdict /\ Move(w, AfterCheck(w)) /\ UNCHANGED <<cur, local, claimed>>
       ELSE /\ UNCHANGED run
            /\ CASE local[w].outcome = "completed" -> Throw(w) /\ UNCHANGED <<cur, claimed>>
                 [] local[w].outcome = "failed" -> Release(w)
                 [] OTHER -> Drop(w) /\ UNCHANGED claimed
    /\ UNCHANGED <<status, step, pending, blocked, attempt, queue, asyncVars, daemonVars>>

RunSucceeds(w) == pc[w] = "to success" /\ FinalizeRun(w, "success")
RunFails(w)    == pc[w] = "to failed"  /\ FinalizeRun(w, "failed")

EnqueueReleased(w) ==
    /\ pc[w] = "enqueue"
    /\ \E j \in local[w].jobs :
         /\ Enqueue(j)
         /\ local' = [local EXCEPT ![w].jobs = @ \ {j}]
    /\ UNCHANGED <<recordVars, pc, cur, claimed, asyncVars, daemonVars>>

\* The cache rejects the zadd: runAncillaryOperation records a diagnostic and goes on.
EnqueueReleasedFails(w) ==
    /\ "cache" \in Faults
    /\ pc[w] = "enqueue"
    /\ \E j \in local[w].jobs : local' = [local EXCEPT ![w].jobs = @ \ {j}]
    /\ UNCHANGED <<recordVars, queue, pc, cur, claimed, asyncVars, daemonVars>>

JobDone(w) ==
    /\ pc[w] = "enqueue" /\ local[w].jobs = {}
    /\ Release(w)
    /\ UNCHANGED <<recordVars, queue, asyncVars, daemonVars>>

(***************************************************************************)
(* markJobFailed                                                           *)
(***************************************************************************)
\* The transition and the retry decision.  Whether the failure's kind is one the
\* policy retries is left open; the attempt limit is not (decideRetry).
MarkJobFailed(w) ==
    LET j == cur[w] IN
    /\ pc[w] = "fail"
    /\ \/ /\ JobLegal(status[j], "failed")
          /\ status' = [status EXCEPT ![j] = "failed"]
          /\ attempt' = [attempt EXCEPT ![j] = @ + 1]
          /\ \/ /\ attempt[j] + 1 < MaxAttempts
                /\ retry' = [retry EXCEPT ![j] = @ \cup {"armed"}]
                /\ Move(w, "leave")
             \/ Move(w, "check") /\ UNCHANGED retry
          /\ UNCHANGED <<cur, local, claimed>>
       \/ /\ ~JobLegal(status[j], "failed")
          /\ IF local[w].outcome = "failed" THEN Release(w) ELSE Drop(w) /\ UNCHANGED claimed
          /\ UNCHANGED <<status, attempt, retry>>
    /\ UNCHANGED <<run, step, pending, blocked, queue, request, unscheduled, daemonVars>>

\* cancelDownstreamJobs, then the dead-letter entry.
CancelDownstream(w) ==
    /\ pc[w] = "cascade"
    /\ LET doomed == Doomed(cur[w]) IN
         /\ status' = [j \in Jobs |-> IF j \in doomed THEN "cancelled" ELSE status[j]]
         /\ blocked' = [j \in Jobs |-> blocked[j] /\ j \notin doomed]
    /\ Release(w)
    /\ UNCHANGED <<run, step, pending, attempt, queue, asyncVars, daemonVars>>

\* The retry timer fires.  The backoff (initialDelayMs and up) is taken to outlast the
\* one event the failing loop publishes before it gives up its claim.
RetryRequeue(j) ==
    /\ "armed" \in retry[j]
    /\ \A w \in Workers : ~(pc[w] = "leave" /\ cur[w] = j)
    /\ IF JobLegal(status[j], "queued")
       THEN /\ status' = [status EXCEPT ![j] = "queued"]
            /\ retry' = [retry EXCEPT ![j] = (@ \ {"armed"}) \cup {"requeued"}]
       ELSE /\ retry' = [retry EXCEPT ![j] = @ \ {"armed"}]
            /\ UNCHANGED status
    /\ UNCHANGED <<run, step, pending, blocked, attempt, queue, workerVars, request,
                   unscheduled, daemonVars>>

\* mutant: the job goes back to queued but into no queue.
RetryForgotten(j) ==
    /\ "requeued" \in retry[j]
    /\ retry' = [retry EXCEPT ![j] = @ \ {"requeued"}]
    /\ UNCHANGED <<recordVars, queue, workerVars, request, unscheduled, daemonVars>>

RetryEnqueue(j) ==
    /\ "requeued" \in retry[j]
    /\ retry' = [retry EXCEPT ![j] = @ \ {"requeued"}]
    /\ IF blocked[j] THEN UNCHANGED queue ELSE Enqueue(j)
    /\ UNCHANGED <<recordVars, workerVars, request, unscheduled, daemonVars>>

(***************************************************************************)
(* Requests to the daemon: approval, cancellation                          *)
(***************************************************************************)
Serving == daemon \in {"up", "stopping"}

\* The endpoint and resolveApproval check the run, the job and the step first.
CheckApproval(c) ==
    /\ Serving /\ request[c].at = "idle"
    /\ run \notin RunTerminal
    /\ \E j \in Jobs : \E i \in DOMAIN step[j] : \E action \in {"success", "failed"} :
         /\ step[j][i] = "waiting_approval" /\ status[j] \notin JobTerminal
         /\ request' = [request EXCEPT ![c] =
                            [at |-> "checked", job |-> j, idx |-> i, action |-> action]]
    /\ UNCHANGED <<recordVars, queue, workerVars, retry, unscheduled, daemonVars>>

\* Then one write settles the step and un-parks the job, or throws to the client.
ResolveApproval(c) ==
    LET r == request[c] IN
    /\ r.at = "checked"
    /\ IF JobLegal(status[r.job], "queued") /\ StepLegal(step[r.job][r.idx], r.action)
       THEN /\ status' = [status EXCEPT ![r.job] = "queued"]
            /\ step' = [step EXCEPT ![r.job][r.idx] = r.action]
            /\ request' = [request EXCEPT ![c].at = "resolved"]
       ELSE request' = [request EXCEPT ![c] = NoRequest] /\ UNCHANGED <<status, step>>
    /\ UNCHANGED <<run, pending, blocked, attempt, queue, workerVars, retry, unscheduled,
                   daemonVars>>

EnqueueApproved(c) ==
    /\ request[c].at = "resolved"
    /\ IF blocked[request[c].job] THEN UNCHANGED queue ELSE Enqueue(request[c].job)
    /\ request' = [request EXCEPT ![c] = NoRequest]
    /\ UNCHANGED <<recordVars, workerVars, retry, unscheduled, daemonVars>>

\* mutant: a finished run can still be cancelled.
CancelRunLate ==
    /\ "cancel" \in Faults /\ Serving
    /\ run' = "cancelled"
    /\ UNCHANGED <<status, step, pending, blocked, attempt, queue, workerVars, asyncVars,
                   daemonVars>>

\* cancelRun touches the run only; its jobs find out at their next step.
CancelRun ==
    /\ "cancel" \in Faults /\ Serving
    /\ run \notin RunTerminal
    /\ run' = "cancelled"
    /\ UNCHANGED <<status, step, pending, blocked, attempt, queue, workerVars, asyncVars,
                   daemonVars>>

(***************************************************************************)
(* The life of the daemon process                                          *)
(***************************************************************************)
\* The record and the queue outlive the process, nothing else does.
ProcessDies ==
    /\ daemon' = "down"
    /\ pc' = [w \in Workers |-> "idle"]
    /\ cur' = [w \in Workers |-> None]
    /\ local' = [w \in Workers |-> NoLocal]
    /\ claimed' = {}
    /\ retry' = [j \in Jobs |-> {}]
    /\ request' = [c \in Clients |-> NoRequest]
    /\ unscheduled' = {}

Crash ==
    /\ "crash" \in Faults /\ crashes < MaxCrashes
    /\ daemon # "down"
    /\ ProcessDies
    /\ crashes' = crashes + 1
    /\ UNCHANGED <<recordVars, queue, startVars>>

\* worker.stop: no loop takes another entry.
Stop ==
    /\ "stop" \in Faults /\ crashes < MaxCrashes
    /\ daemon = "up"
    /\ daemon' = "stopping"
    /\ UNCHANGED <<recordVars, queue, workerVars, asyncVars, startVars, crashes>>

\* Jobs in the runningJobs map: from the creation of the job promise on.
RunningJobs ==
    {cur[w] : w \in {v \in Workers :
        pc[v] \notin {"idle", "dequeued", "read", "claimed", "promote", "provision"}
        /\ local[v].outcome # "unprovisioned"}}

\* The job id that worker.stop recovers from a key of that map.  The key is
\* `${runId}:${jobId}` and a job id is itself `${runId}:${jobName}`, so the second
\* field of key.split(":") is the run's id again: it names no job.
KeyToJobId(j) == None

\* The wait is over, because all promises settled or at WORKFLOW_SHUTDOWN_TIMEOUT_MS:
\* the jobs still running are marked interrupted (updateJob ignores an unknown id)
\* and the process ends.
Exit ==
    LET interrupted == {KeyToJobId(j) : j \in RunningJobs} IN
    /\ daemon = "stopping"
    /\ status' = [j \in Jobs |-> IF j \in interrupted /\ JobLegal(status[j], "interrupted")
                                 THEN "interrupted" ELSE status[j]]
    /\ ProcessDies
    /\ crashes' = crashes + 1
    /\ UNCHANGED <<run, step, pending, blocked, attempt, queue, startVars>>

(***************************************************************************)
(* Start-up.  Besides the restart of a dead daemon it may be a needless    *)
(* second launch: it sweeps the same record while the loops run, and ends  *)
(* when it finds the port taken.                                           *)
(***************************************************************************)
Interrupted == {j \in Jobs : status[j] = "interrupted"}

\* What cleanupStaleRuns takes for abandoned.
Abandoned ==
    IF run \in {"queued", "running"}
    THEN {j \in Jobs : status[j] \in {"running", "queued"}}
    ELSE {}

\* The sweep needs the lease of the last daemon to have lapsed.
BeginCleanup ==
    /\ Abandoned # {}
    /\ startup' = "cleanup" /\ sweep' = Abandoned
    /\ torn' = UNION {{<<j, i>> : i \in {k \in DOMAIN step[j] : step[j][k] = "running"}} :
                      j \in Abandoned}
BeginResume == startup' = "resume" /\ sweep' = Interrupted /\ torn' = {}

\* A restart within DAEMON_LEASE_TTL_MS ("hasty") finds the lease and skips the sweep.
Restart ==
    /\ daemon = "down" /\ startup = "off"
    /\ \/ BeginCleanup
       \/ ("hasty" \in Faults \/ Abandoned = {}) /\ BeginResume
    /\ UNCHANGED <<recordVars, queue, workerVars, asyncVars, daemon, resumed, crashes>>

\* A second launch finds the lease fresh, unless its renewals fail for want of a cache.
StrayLaunch ==
    /\ "stray" \in Faults /\ crashes < MaxCrashes
    /\ daemon # "down" /\ startup = "off"
    /\ \/ BeginResume
       \/ "cache" \in Faults /\ BeginCleanup
    /\ crashes' = crashes + 1
    /\ UNCHANGED <<recordVars, queue, workerVars, asyncVars, daemon, resumed>>

\* A throw anywhere in bootstrap ends the process that starts up.
AbortStartUp == startup' = "off" /\ sweep' = {} /\ torn' = {} /\ resumed' = {}

StartUpDies ==
    /\ "crash" \in Faults /\ crashes < MaxCrashes
    /\ startup # "off"
    /\ AbortStartUp
    /\ crashes' = crashes + 1
    /\ UNCHANGED <<recordVars, queue, workerVars, asyncVars, daemon>>

\* failAbandonedJobs: the steps it saw running, then their job; each move may have become
\* illegal since it looked.
FailAbandonedStep(j) ==
    /\ startup = "cleanup"
    /\ \E i \in DOMAIN step[j] :
         /\ <<j, i>> \in torn
         /\ IF StepLegal(step[j][i], "failed")
            THEN /\ step' = [step EXCEPT ![j][i] = "failed"]
                 /\ torn' = torn \ {<<j, i>>}
                 /\ UNCHANGED <<startup, sweep, resumed>>
            ELSE AbortStartUp /\ UNCHANGED step
    /\ UNCHANGED <<run, status, pending, blocked, attempt, queue, workerVars, asyncVars,
                   daemon, crashes>>

FailAbandonedJob(j) ==
    /\ startup = "cleanup" /\ j \in sweep
    /\ \A i \in DOMAIN step[j] : <<j, i>> \notin torn
    /\ IF JobLegal(status[j], "failed")
       THEN /\ status' = [status EXCEPT ![j] = "failed"]
            /\ sweep' = sweep \ {j}
            /\ UNCHANGED <<startup, torn, resumed>>
       ELSE AbortStartUp /\ UNCHANGED status
    /\ UNCHANGED <<run, step, pending, blocked, attempt, queue, workerVars, asyncVars,
                   daemon, crashes>>

\* checkRunCompletion at the end of the sweep: the read ...
CheckSwept ==
    /\ startup = "cleanup" /\ sweep = {}
    /\ IF Undecided \/ (~AllSucceeded /\ ~AnyFailed)
       THEN BeginResume
       ELSE /\ startup' = IF AllSucceeded THEN "to success" ELSE "to failed"
            /\ UNCHANGED <<sweep, torn>>
    /\ UNCHANGED <<recordVars, queue, workerVars, asyncVars, daemon, resumed, crashes>>

\* ... and the write.
FinalizeSwept ==
    /\ startup \in {"to success", "to failed"}
    /\ LET verdict == IF startup = "to success" THEN "success" ELSE "failed" IN
         IF RunLegal(run, verdict)
         THEN run' = verdict /\ BeginResume /\ UNCHANGED resumed
         ELSE AbortStartUp /\ UNCHANGED run
    /\ UNCHANGED <<status, step, pending, blocked, attempt, queue, workerVars, asyncVars,
                   daemon, crashes>>

\* resumeInterruptedJobs looks at jobs, whatever the status of their run.
ResumeInterrupted(j) ==
    /\ startup = "resume" /\ j \in sweep
    /\ IF JobLegal(status[j], "queued")
       THEN /\ status' = [status EXCEPT ![j] = "queued"]
            /\ sweep' = sweep \ {j}
            /\ resumed' = resumed \cup {j}
            /\ UNCHANGED <<startup, torn>>
       ELSE AbortStartUp /\ UNCHANGED status
    /\ UNCHANGED <<run, step, pending, blocked, attempt, queue, workerVars, asyncVars,
                   daemon, crashes>>

EnqueueResumed(j) ==
    /\ startup = "resume" /\ j \in resumed
    /\ resumed' = resumed \ {j}
    /\ IF blocked[j] THEN UNCHANGED queue ELSE Enqueue(j)
    /\ UNCHANGED <<recordVars, workerVars, asyncVars, daemon, startup, sweep, torn, crashes>>

\* The server listens and the loops start, or the port is taken and the process ends.
Ready ==
    /\ startup = "resume" /\ sweep = {} /\ resumed = {}
    /\ startup' = "off"
    /\ daemon' = IF daemon = "down" THEN "up" ELSE daemon
    /\ UNCHANGED <<recordVars, queue, workerVars, asyncVars, sweep, torn, resumed, crashes>>

(***************************************************************************)
(* The system                                                              *)
(***************************************************************************)
PickUp(w)   == Dequeue(w) \/ ReadRun(w) \/ Claim(w) \/ MarkJobRunning(w) \/ JobSecretsFail(w)
               \/ PromoteRun(w) \/ Provision(w) \/ ProvisionFails(w)
RunStep(w)  == SkipSettled(w) \/ StopOnCancel(w) \/ AbortOnTerminal(w) \/ Proceed(w)
               \/ StepSecretsFail(w) \/ MarkStepStarted(w) \/ ExecuteStep(w)
               \/ MarkStepCompleted(w) \/ MarkStepFailed(w) \/ ParkForApproval(w)
               \/ Leave(w) \/ MarkJobInterrupted(w)
SettleJob(w) == MarkJobSucceeded(w) \/ ResolveDependents(w) \/ SkipJob(w)
               \/ DependentsResolved(w) \/ CheckRun(w) \/ RunSucceeds(w) \/ RunFails(w)
               \/ EnqueueReleased(w) \/ EnqueueReleasedFails(w) \/ JobDone(w)
               \/ MarkJobFailed(w) \/ CancelDownstream(w)
WorkerStep(w) == PickUp(w) \/ RunStep(w) \/ SettleJob(w)

RetryStep(j)   == RetryRequeue(j) \/ RetryEnqueue(j)
FinishRequest(c) == ResolveApproval(c) \/ EnqueueApproved(c)
StartUp == Restart \/ CheckSwept \/ FinalizeSwept \/ Ready
           \/ \E j \in Jobs : \/ FailAbandonedStep(j) \/ FailAbandonedJob(j)
                             \/ ResumeInterrupted(j) \/ EnqueueResumed(j)

Next ==
    \/ \E w \in Workers : WorkerStep(w)
    \/ \E j \in Jobs : ScheduleJob(j) \/ RetryStep(j)
    \/ \E c \in Clients : CheckApproval(c) \/ FinishRequest(c)
    \/ CancelRun \/ Crash \/ Stop \/ Exit
    \/ StartUp \/ StrayLaunch \/ StartUpDies

Spec == Init /\ [][Next]_vars

\* Node's event loop serves every pending activity, the backend answers within its
\* timeout, and a supervisor restarts a dead daemon.  Nothing makes a human decide,
\* a run be cancelled, a process die.
Fairness ==
    /\ \A w \in Workers : WF_vars(WorkerStep(w))
    /\ \A j \in Jobs : WF_vars(ScheduleJob(j)) /\ WF_vars(RetryStep(j))
    /\ \A c \in Clients : WF_vars(FinishRequest(c))
    /\ WF_vars(Exit) /\ WF_vars(StartUp)

FairSpec == Spec /\ Fairness
(***************************************************************************)
(* Properties                                                              *)
(***************************************************************************)
Labels == {"idle", "dequeued", "read", "claimed", "promote", "provision", "loop",
           "interrupt", "start", "execute", "complete step", "fail step", "park", "leave",
           "resolve", "check", "to success", "to failed", "enqueue", "fail", "cascade"}
Outcomes == {"none", "completed", "failed", "unprovisioned"}
Phases == {"up", "stopping", "down"}
StartPhases == {"off", "cleanup", "to success", "to failed", "resume"}

Locals == [idx : Nat \ {0}, seen : Seq(StepState), outcome : Outcomes,
           resolve : SUBSET Jobs, skip : SUBSET Jobs, jobs : SUBSET Jobs]
Requests == [at : {"idle", "checked", "resolved"}, job : Jobs \cup {None},
             idx : Nat \ {0}, action : {"success", "failed"}]

StatusOK   == run \in RunState /\ status \in [Jobs -> JobState]
StepOK     == step \in [Jobs -> Seq(StepState)] /\ \A j \in Jobs : Len(step[j]) = Len(Plan[j])
NeedsOK    == pending \in [Jobs -> SUBSET Jobs] /\ blocked \in [Jobs -> BOOLEAN]
CountsOK   == attempt \in [Jobs -> Nat] /\ queue \in [Jobs -> Nat]
PcOK       == pc \in [Workers -> Labels]
CurOK      == /\ cur \in [Workers -> Jobs \cup {None}]
              /\ \A w \in Workers : /\ pc[w] # "idle" => cur[w] \in Jobs
                                    /\ pc[w] = "idle" => cur[w] = None
LocalOK    == local \in [Workers -> Locals]
RetryOK    == retry \in [Jobs -> SUBSET {"armed", "requeued"}]
RequestOK  == /\ request \in [Clients -> Requests]
              /\ \A c \in Clients : request[c].at # "idle" => request[c].job \in Jobs
SetsOK     == /\ claimed \subseteq Jobs /\ unscheduled \subseteq Jobs
              /\ sweep \subseteq Jobs /\ resumed \subseteq Jobs
              /\ torn \subseteq Jobs \X (Nat \ {0})
DaemonOK   == daemon \in Phases /\ startup \in StartPhases /\ crashes \in Nat

\* Every variable of the record, of the loops and of the rest of the daemon stays in its
\* range, and whoever is at work has a job.
TypeOK == /\ StatusOK /\ StepOK /\ NeedsOK /\ CountsOK
          /\ PcOK /\ CurOK /\ LocalOK
          /\ RetryOK /\ RequestOK /\ SetsOK /\ DaemonOK

Holding(w) == pc[w] \notin {"idle", "dequeued", "read"}

\* Two loops of the daemon never process the same job at once, whatever duplicate
\* entries the queue holds (claimedJobs, worker.ts).
OneExecutor ==
    \A v, w \in Workers : Holding(v) /\ Holding(w) /\ cur[v] = cur[w] => v = w

\* A loop works on a job only when every job it needs has succeeded: the pending
\* dependencies, the blocked flag and the queue never disagree (resolveBlockedJobs).
NeedsFirst ==
    \A w \in Workers : cur[w] # None =>
        \A k \in Needs[cur[w]] : status[k] = "success"

\* A step executes only when each step before it is settled: succeeded, tolerated by
\* continueOnError, or an approval a human has answered.
StepsInOrder ==
    \A w \in Workers : pc[w] = "execute" =>
        \A i \in 1..(local[w].idx - 1) :
            \/ step[cur[w]][i] = "success"
            \/ step[cur[w]][i] = "failed" /\ Plan[cur[w]][i] \in {"lenient", "approval"}

\* Who will start a queued job: the entries that name it, and the activities that are
\* about to write or to act on one.
Carriers(j) ==
    {<<"entry", n>> : n \in 1..queue[j]}
    \cup {<<"loop", w>> : w \in {v \in Workers : cur[v] = j}}
    \cup {<<"list", w>> : w \in {v \in Workers : j \in local[v].jobs \cup local[v].skip}}
    \cup {<<"request", c>> : c \in {d \in Clients : request[d].at = "resolved"
                                                   /\ request[d].job = j}}
    \cup {<<"retry", k>> : k \in {i \in {j} : "requeued" \in retry[i]}}
    \cup {<<"createRun", k>> : k \in {j} \cap unscheduled}
    \cup {<<"resume", k>> : k \in {j} \cap resumed}

\* While the daemon runs, a released job of an open run that waits to start is never
\* forgotten: exactly what the scattered transition-then-enqueue pairs must ensure.
QueuedIsCarried ==
    daemon \in {"up", "stopping"} /\ run \notin RunTerminal =>
        \A j \in Jobs : status[j] = "queued" /\ ~blocked[j] => Carriers(j) # {}

\* Nor is it handed out twice: two needs of a job that finish together release it once.
NoDuplicateEntry == \A j \in Jobs : \A x, y \in Carriers(j) : x = y

\* A run is reported successful only if all its jobs are.
SuccessIsComplete == run = "success" => AllSucceeded

\* Every run comes to an end and all its jobs with it, those of a cancelled run apart:
\* cancelRun leaves the jobs that nobody executes as they are.
RunSettles ==
    /\ <>(run \in RunTerminal)
    /\ <>[](run = "cancelled" \/ \A j \in Jobs : status[j] \in JobTerminal)

\* After a cancellation no job is left running for ever, although cancelRun tells none:
\* each loop finds out at its next step and records what became of its job.
CancelQuiesces == run = "cancelled" ~> [](\A j \in Jobs : status[j] # "running")

\* The engine keeps the contract of RunContract, whatever fails.
Contract == INSTANCE RunContract
KeepsContract == Contract!Spec

\* Which comes to this: a job that has been begun, whether it runs, waits, was interrupted
\* or succeeded, had and has everything it needs; and results stand, the run's whichever it
\* is and a job's if it is a success, whatever is retried, swept or cancelled later.
BegunAreReady ==
    \A j \in Jobs : status[j] \notin {"queued", "failed", "cancelled", "skipped"}
                    => \A k \in Needs[j] : status[k] = "success"
ResultsStand ==
    [][/\ run \in RunTerminal => run' = run
       /\ \A j \in Jobs : status[j] = "success" => status'[j] = "success"]_vars

(***************************************************************************)
(* What the documentation says and the code does not do                    *)
(***************************************************************************)
\* An approved job resumes: resolveApproval's re-enqueue gets it executed.
ApprovedJobResumes ==
    \A j \in Jobs : (status[j] = "queued" /\ ~blocked[j]) ~> status[j] # "queued"
=============================================================================
