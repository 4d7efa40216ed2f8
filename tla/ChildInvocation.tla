--------------------------- MODULE ChildInvocation ---------------------------
(***************************************************************************)
(* Steps of the form uses: workflow:<id>: the worker loop that runs the    *)
(* parent's job starts a child run, parks the job and goes away; whoever   *)
(* notices that the child has ended settles the step and queues the job    *)
(* again. That may be the child's own end, the loop itself, a cancellation *)
(* or the start-up of a new process, and they race.                        *)
(*                                                                         *)
(* One parent run of one job, all steps of which invoke, and no other run  *)
(* that waits for a child; writes of the record are atomic. The children   *)
(* are executed by the same engine, of which only their ends matter here.  *)
(* A failed invocation is not retried: its error is of kind unknown, which *)
(* no default policy retries.                                              *)
(***************************************************************************)
EXTENDS Naturals, WorkflowStatus

CONSTANTS
    N,          \* steps of the job
    Workers,    \* loops of the daemon
    Children,   \* runs that may be created
    MaxDeaths,
    Faults,     \* "cancel" of the parent, "invalid" references, "fail" of a child
    None

Steps == 1..N
ASSUME ChildAssumption ==
    N \in Nat \ {0} /\ MaxDeaths \in Nat /\ None \notin Children \cup Workers

VARIABLES
    run, status, step,  \* the parent's record
    link,      \* metadata.childRunId of each step
    child,     \* status of each child run: "none" before it is created, "open"
    of,        \* the step that created it (trigger.parentStepId)
    queue,     \* entries that name the parent's job
    claimed,   \* is the job in claimedJobs?
    pc, local, \* worker loops; local: the steps as read, the index, the child
    act,       \* cancellations and reconciliations under way
    asked,     \* cancelRun of the parent: "no", "list", "done"
    daemon, deaths

record == <<run, status, step, link>>
children == <<child, of>>
loops == <<claimed, pc, local>>
process == <<asked, daemon, deaths>>
vars == <<record, children, queue, loops, act, process>>

\* Who reconciles: a loop, the end of a child, the cancellation of one, start-up.
Loop(w) == <<"loop", w>>
End(c) == <<"end", c>>
Canceller(c) == <<"cancel", c>>
Boot == <<"boot", None>>
Acts == {Loop(w) : w \in Workers} \cup {End(c) : c \in Children}
        \cup {Canceller(c) : c \in Children} \cup {Boot}

Rest == [at |-> "idle", step |-> 0, child |-> None]
ChildEnd == {"success", "failed", "cancelled"}
Fresh == [snap |-> [i \in Steps |-> "queued"], i |-> 1, child |-> None]

Init ==
    /\ run = "queued" /\ status = "queued"
    /\ step = [i \in Steps |-> "queued"] /\ link = [i \in Steps |-> None]
    /\ child = [c \in Children |-> "none"] /\ of = [c \in Children |-> 0]
    /\ queue = 1
    /\ claimed = FALSE /\ pc = [w \in Workers |-> "idle"]
    /\ local = [w \in Workers |-> Fresh]
    /\ act = [a \in Acts |-> Rest]
    /\ asked = "no" /\ daemon = "up" /\ deaths = 0

Forgets(w) == local' = [local EXCEPT ![w] = Fresh]
Goes(w, from, to) == pc[w] = from /\ pc' = [pc EXCEPT ![w] = to]

-----------------------------------------------------------------------------
(* The worker loop: from the queue to the invocation                       *)

Dequeue(w) ==
    /\ daemon = "up" /\ queue > 0
    /\ Goes(w, "idle", "dequeued")
    /\ queue' = queue - 1
    /\ UNCHANGED <<record, children, claimed, local, act, process>>

\* getRun: the copy of the steps that the loop goes through.
ReadRun(w) ==
    /\ Goes(w, "dequeued", "read")
    /\ local' = [local EXCEPT ![w] = [Fresh EXCEPT !.snap = step]]
    /\ UNCHANGED <<record, children, queue, claimed, act, process>>

Claim(w) ==
    /\ IF claimed THEN Goes(w, "read", "idle") /\ Forgets(w) /\ UNCHANGED claimed
                  ELSE Goes(w, "read", "start") /\ claimed' = TRUE /\ UNCHANGED local
    /\ UNCHANGED <<record, children, queue, act, process>>

\* markJobStarted is called outside the try of the loop: when it throws, the loop goes on
\* to the next entry and the claim stays.
Start(w) ==
    /\ IF JobLegal(status, "running")
         THEN /\ Goes(w, "start", "walk")
              /\ status' = "running"
              /\ run' = IF run = "queued" THEN "running" ELSE run
              /\ UNCHANGED local
         ELSE Goes(w, "start", "idle") /\ Forgets(w) /\ UNCHANGED <<status, run>>
    /\ UNCHANGED <<step, link, children, queue, claimed, act, process>>

\* The steps that had succeeded when the record was read are skipped; one that waits for
\* its child ends the loop's work; before any other the run and the job are read again.
Skips(w) == local[w].i <= N /\ local[w].snap[local[w].i] = "success"
Waits(w) == local[w].i <= N /\ local[w].snap[local[w].i] = "waiting_child"

SkipStep(w) ==
    /\ pc[w] = "walk" /\ Skips(w)
    /\ local' = [local EXCEPT ![w].i = @ + 1]
    /\ UNCHANGED <<record, children, queue, claimed, pc, act, process>>

LeaveWaiting(w) ==
    /\ Waits(w)
    /\ Goes(w, "walk", "release")
    /\ UNCHANGED <<record, children, queue, claimed, local, act, process>>

Check(w) ==
    /\ ~Skips(w) /\ ~Waits(w)
    /\ Goes(w, "walk", CASE local[w].i > N -> "complete"
                         [] local[w].i <= N /\ run = "cancelled" -> "interrupt"
                         [] local[w].i <= N /\ run # "cancelled" /\ status \in JobTerminal
                              -> "release"
                         [] OTHER -> "invoke")
    /\ UNCHANGED <<record, children, queue, claimed, local, act, process>>

\* The reference is checked, and a run of the child is saved and scheduled.
Invoke(w) ==
    /\ Goes(w, "invoke", "park")
    /\ \E c \in Children : child[c] = "none"
    /\ LET c == CHOOSE c \in Children : child[c] = "none" IN
       /\ child' = [child EXCEPT ![c] = "open"]
       /\ of' = [of EXCEPT ![c] = local[w].i]
       /\ local' = [local EXCEPT ![w].child = c]
    /\ UNCHANGED <<record, queue, claimed, act, process>>

InvokeFails(w) ==
    /\ "invalid" \in Faults
    /\ Goes(w, "invoke", "throw")
    /\ UNCHANGED <<record, children, queue, claimed, local, act, process>>

\* markStepWaitingChild: job and step together, or nothing.
Park(w) ==
    LET i == local[w].i  c == local[w].child IN
    /\ pc[w] = "park"
    /\ IF JobLegal(status, "waiting_child") /\ StepLegal(step[i], "waiting_child")
         THEN /\ Goes(w, "park", "settle")
              /\ status' = "waiting_child"
              /\ step' = [step EXCEPT ![i] = "waiting_child"]
              /\ link' = [link EXCEPT ![i] = c]
              /\ act' = [act EXCEPT ![Loop(w)] = [Rest EXCEPT !.at = "notice", !.child = c]]
         ELSE Goes(w, "park", "throw") /\ UNCHANGED <<status, step, link, act>>
    /\ UNCHANGED <<run, children, queue, claimed, local, process>>

\* mutant: the loop goes on to the next step, as after any other.
LeaveParkedOn(w) ==
    /\ act[Loop(w)].at = "idle"
    /\ Goes(w, "settle", "walk")
    /\ local' = [local EXCEPT ![w].i = @ + 1]
    /\ UNCHANGED <<record, children, queue, claimed, act, process>>

\* invokeChildWorkflow has returned.
LeaveParked(w) ==
    /\ act[Loop(w)].at = "idle"
    /\ Goes(w, "settle", "release")
    /\ UNCHANGED <<record, children, queue, claimed, local, act, process>>

Release(w) ==
    /\ Goes(w, "release", "idle")
    /\ claimed' = FALSE
    /\ Forgets(w)
    /\ UNCHANGED <<record, children, queue, act, process>>

-----------------------------------------------------------------------------
(* The worker loop: the end of the job                                     *)

\* A write of the job by loop w, and where the loop goes if it is legal or throws.
Writes(w, from, to, next, otherwise) ==
    IF JobLegal(status, to) THEN Goes(w, from, next) /\ status' = to
                            ELSE Goes(w, from, otherwise) /\ UNCHANGED status

MarkJobCompleted(w) ==
    /\ Writes(w, "complete", "success", "verdict", "throw")
    /\ UNCHANGED <<run, step, link, children, queue, claimed, local, act, process>>

MarkJobInterrupted(w) ==
    /\ Writes(w, "interrupt", "interrupted", "release", "throw")
    /\ UNCHANGED <<run, step, link, children, queue, claimed, local, act, process>>

\* The catch of the loop; the finally gives the claim back even if markJobFailed throws.
MarkJobFailed(w) ==
    /\ Writes(w, "throw", "failed", "verdict", "release")
    /\ UNCHANGED <<run, step, link, children, queue, claimed, local, act, process>>

\* checkRunCompletion of a run with one job.
Verdict ==
    run' = IF status \in {"success", "failed"} /\ RunLegal(run, status) THEN status ELSE run

CheckRunCompletion(w) ==
    /\ Goes(w, "verdict", "release")
    /\ Verdict
    /\ UNCHANGED <<status, step, link, children, queue, claimed, local, act, process>>

-----------------------------------------------------------------------------
(* Reconciliation                                                          *)

\* Activity a goes on, or ends: it is done, or it throws, which its caller logs, except
\* that a throw in a loop is caught by the loop. At start-up nothing throws, for nothing
\* else runs.
Turns(a, to) == act' = [act EXCEPT ![a].at = to] /\ UNCHANGED pc
Ends(a) == act' = [act EXCEPT ![a] = Rest] /\ UNCHANGED pc
Throws(a) ==
    /\ act' = [act EXCEPT ![a] = Rest]
    /\ pc' = [w \in Workers |-> IF a = Loop(w) THEN "throw" ELSE pc[w]]

AwaitedBy(c) == {i \in Steps : step[i] = "waiting_child" /\ link[i] = c}
Waiting == {i \in Steps : step[i] = "waiting_child"}

\* reconcileChildInvocation: only if somebody waits for the child.
Notice(a) ==
    /\ act[a].at = "notice"
    /\ IF AwaitedBy(act[a].child) = {} THEN Ends(a) ELSE Turns(a, "scan")
    /\ UNCHANGED <<record, children, queue, claimed, local, process>>

\* mutant: the parent's cancellation is not looked at.
ScanCancelled(a) ==
    /\ act[a].at = "scan"
    /\ IF Waiting = {} THEN Ends(a)
       ELSE \E i \in Waiting :
              /\ act' = [act EXCEPT ![a] = [at |-> "look", step |-> i, child |-> link[i]]]
              /\ UNCHANGED pc
    /\ UNCHANGED <<record, children, queue, claimed, local, process>>

\* reconcileChildInvocations reads the runs anew; of a cancelled parent it cancels the child.
Scan(a) ==
    /\ act[a].at = "scan"
    /\ IF Waiting = {} THEN Ends(a)
       ELSE \E i \in Waiting :
              /\ act' = [act EXCEPT ![a] =
                   [at |-> IF run = "cancelled" THEN "cancel" ELSE "look",
                    step |-> i, child |-> link[i]]]
              /\ UNCHANGED pc
    /\ UNCHANGED <<record, children, queue, claimed, local, process>>

\* mutant: every end of the child is taken for its success.
LookAtAnyEnd(a) ==
    /\ act[a].at = "look"
    /\ IF child[act[a].child] \in ChildEnd THEN Turns(a, "complete") ELSE Ends(a)
    /\ UNCHANGED <<record, children, queue, claimed, local, process>>

LookAtChild(a) ==
    /\ act[a].at = "look"
    /\ CASE child[act[a].child] \notin ChildEnd -> Ends(a)
         [] child[act[a].child] = "success"     -> Turns(a, "complete")
         [] OTHER                               -> Turns(a, "fail")
    /\ UNCHANGED <<record, children, queue, claimed, local, process>>

\* A write of a step, or of the job, and what follows it if it is legal.
StepWrite(a, from, to, next) ==
    LET i == act[a].step IN
    /\ act[a].at = from
    /\ IF StepLegal(step[i], to)
         THEN Turns(a, next) /\ step' = [step EXCEPT ![i] = to]
         ELSE Throws(a) /\ UNCHANGED step
    /\ UNCHANGED <<run, status, link, children, queue, claimed, local, process>>

JobWrite(a, from, to, next) ==
    /\ act[a].at = from
    /\ IF JobLegal(status, to) THEN Turns(a, next) /\ status' = to
                               ELSE Throws(a) /\ UNCHANGED status
    /\ UNCHANGED <<run, step, link, children, queue, claimed, local, process>>

MarkStepCompleted(a) == StepWrite(a, "complete", "success", "resume")
ResumeJob(a) == JobWrite(a, "resume", "queued", "enqueue")
EnqueueParent(a) ==
    /\ act[a].at = "enqueue"
    /\ Ends(a)
    /\ queue' = queue + 1
    /\ UNCHANGED <<record, children, claimed, local, process>>

\* failChildInvocation; its error is not retried.
MarkStepFailed(a) == StepWrite(a, "fail", "failed", "failJob")
FailJob(a) == JobWrite(a, "failJob", "failed", "verdict")
FailRun(a) ==
    /\ act[a].at = "verdict"
    /\ Verdict
    /\ IF status = "failed" /\ ~RunLegal(run, "failed") THEN Throws(a)
                                                        ELSE Ends(a)
    /\ UNCHANGED <<status, step, link, children, queue, claimed, local, process>>

\* cancelRun of a child: writing "cancelled" over itself is legal.
CancelChild(a) ==
    LET c == act[a].child IN
    /\ act[a].at = "cancel"
    /\ IF child[c] \in {"success", "failed"} THEN Ends(a)
                                             ELSE Turns(a, "notice")
    /\ child' = [child EXCEPT ![c] = IF @ = "open" THEN "cancelled" ELSE @]
    /\ UNCHANGED <<record, of, queue, claimed, local, process>>

-----------------------------------------------------------------------------
(* Cancellation, the ends of children, deaths                              *)

CancelParent ==
    /\ "cancel" \in Faults /\ daemon = "up" /\ asked = "no"
    /\ run # "cancelled" /\ RunLegal(run, "cancelled")
    /\ run' = "cancelled" /\ asked' = "list"
    /\ UNCHANGED <<status, step, link, children, queue, loops, act, daemon, deaths>>

ListChildren ==
    /\ asked = "list" /\ asked' = "done"
    /\ act' = [a \in Acts |->
                 IF \E c \in Children : a = Canceller(c) /\ child[c] # "none"
                 THEN [Rest EXCEPT !.at = "cancel", !.child = a[2]] ELSE act[a]]
    /\ UNCHANGED <<record, children, queue, loops, daemon, deaths>>

\* A child reaches its verdict, or is cancelled by itself; either reconciles.
ChildEnds(c) ==
    /\ daemon = "up" /\ child[c] = "open"
    /\ \E s \in ChildEnd : /\ s # "success" => "fail" \in Faults
                           /\ child' = [child EXCEPT ![c] = s]
    /\ act' = [act EXCEPT ![End(c)] = [Rest EXCEPT !.at = "notice", !.child = c]]
    /\ UNCHANGED <<record, of, queue, loops, process>>

Crash ==
    /\ daemon # "down" /\ deaths < MaxDeaths
    /\ daemon' = "down" /\ deaths' = deaths + 1
    /\ claimed' = FALSE /\ pc' = [w \in Workers |-> "idle"]
    /\ local' = [w \in Workers |-> Fresh]
    /\ act' = [a \in Acts |-> Rest]
    /\ asked' = IF asked = "list" THEN "done" ELSE asked
    /\ UNCHANGED <<record, children, queue>>

\* mutant: start-up leaves the links to the ends of the children.
StartWithoutReconciling == UNCHANGED act

StartReconciling == act' = [act EXCEPT ![Boot] = [Rest EXCEPT !.at = "scan"]]

\* The lease of the dead process has expired: cleanupStaleRuns fails what was at work, children that nobody waits for among it;
\* resumeInterruptedJobs queues interrupted jobs; then all links are reconciled.
Restart ==
    /\ daemon = "down" /\ daemon' = "starting"
    /\ LET abandoned == run \in {"queued", "running"} /\ status \in {"queued", "running"} IN
       /\ run' = IF abandoned THEN "failed" ELSE run
       /\ status' = CASE abandoned -> "failed"
                      [] status = "interrupted" -> "queued"
                      [] OTHER -> status
    /\ queue' = IF status = "interrupted" THEN queue + 1 ELSE queue
    /\ child' = [c \in Children |->
                   IF child[c] = "open" /\ AwaitedBy(c) = {} THEN "failed" ELSE child[c]]
    /\ StartReconciling
    /\ UNCHANGED <<step, link, of, loops, asked, deaths>>

Ready ==
    /\ daemon = "starting" /\ act[Boot].at = "idle"
    /\ daemon' = "up"
    /\ UNCHANGED <<record, children, queue, loops, act, asked, deaths>>

-----------------------------------------------------------------------------
Work(w) ==
    \/ Dequeue(w) \/ ReadRun(w) \/ Claim(w) \/ Start(w)
    \/ SkipStep(w) \/ LeaveWaiting(w) \/ Check(w)
    \/ Invoke(w) \/ InvokeFails(w) \/ Park(w) \/ LeaveParked(w) \/ Release(w)
    \/ MarkJobCompleted(w) \/ MarkJobInterrupted(w) \/ MarkJobFailed(w)
    \/ CheckRunCompletion(w)

Reconcile(a) ==
    \/ Notice(a) \/ Scan(a) \/ LookAtChild(a)
    \/ MarkStepCompleted(a) \/ ResumeJob(a) \/ EnqueueParent(a)
    \/ MarkStepFailed(a) \/ FailJob(a) \/ FailRun(a)
    \/ CancelChild(a)

Next ==
    \/ \E w \in Workers : Work(w)
    \/ \E a \in Acts : Reconcile(a)
    \/ \E c \in Children : ChildEnds(c)
    \/ CancelParent \/ ListChildren \/ Crash \/ Restart \/ Ready

Spec == Init /\ [][Next]_vars

\* The event loop serves every activity, and a dead daemon is restarted. No child need end
\* and no run be cancelled.
Fairness ==
    /\ \A w \in Workers : WF_vars(Work(w))
    /\ \A a \in Acts : WF_vars(Reconcile(a))
    /\ WF_vars(ListChildren) /\ WF_vars(Restart) /\ WF_vars(Ready)
FairSpec == Spec /\ Fairness

-----------------------------------------------------------------------------
Places == {"idle", "dequeued", "read", "start", "walk", "invoke", "park", "settle", "throw",
           "complete", "interrupt", "verdict", "release"}
Data == [snap : [Steps -> StepState], i : 1..(N + 1), child : Children \cup {None}]
Activity == [at : {"idle", "notice", "scan", "look", "complete", "resume", "enqueue",
                   "fail", "failJob", "verdict", "cancel"},
             step : Steps \cup {0}, child : Children \cup {None}]

TypeOK ==
    /\ run \in RunState /\ status \in JobState
    /\ step \in [Steps -> StepState] /\ link \in [Steps -> Children \cup {None}]
    /\ child \in [Children -> ChildEnd \cup {"none", "open"}]
    /\ of \in [Children -> Steps \cup {0}]
    /\ queue \in Nat /\ claimed \in BOOLEAN
    /\ pc \in [Workers -> Places] /\ local \in [Workers -> Data]
    /\ act \in [Acts -> Activity]
    /\ asked \in {"no", "list", "done"} /\ daemon \in {"up", "down", "starting"}
    /\ deaths \in Nat

\* A step succeeds only with a child of its own that succeeded, and fails only with one that
\* failed or was cancelled, whoever settles it and however often.
ResultIsChilds ==
    \A i \in Steps :
      /\ step[i] = "success" => \E c \in Children : of[c] = i /\ child[c] = "success"
      /\ step[i] = "failed" =>
           \E c \in Children : of[c] = i /\ child[c] \in {"failed", "cancelled"}

\* A child is created only after the children of all earlier steps have succeeded, and the
\* run succeeds only with all of them.
ChildrenInOrder ==
    /\ \A c \in Children : \A i \in 1..(of[c] - 1) : step[i] = "success"
    /\ run = "success" => \A i \in Steps : step[i] = "success"

\* The links name the steps' own children.
LinksAreOwn ==
    /\ \A c \in Children : child[c] = "none" => of[c] = 0
    /\ \A i \in Steps : /\ link[i] # None => of[link[i]] = i
                        /\ step[i] = "waiting_child" => link[i] # None

\* What a loop has read or gone past has succeeded for good.
LoopsKnow ==
    \A w \in Workers :
      /\ \A i \in Steps : local[w].snap[i] = "success" => step[i] = "success"
      /\ \A i \in Steps : i < local[w].i => step[i] = "success"
      /\ pc[w] \in {"invoke", "park"} => local[w].i \in Steps
      /\ pc[w] = "park" => local[w].child # None /\ of[local[w].child] = local[w].i
      /\ pc[w] = "complete" => local[w].i = N + 1

\* A reconciliation acts on the child it looked at, and on the step that child is of.
ReconcilersKnow ==
    \A a \in Acts :
      LET c == act[a].child IN
      /\ act[a].at \in {"notice", "look", "complete", "fail", "cancel"} => c # None
      /\ act[a].at \in {"look", "complete", "fail"} =>
           act[a].step \in Steps /\ of[c] = act[a].step
      /\ act[a].at = "complete" => child[c] = "success"
      /\ act[a].at = "fail" => child[c] \in {"failed", "cancelled"}

\* The job succeeds when its steps have.
JobIsDone == status = "success" => \A i \in Steps : step[i] = "success"

ChildInv ==
    /\ TypeOK /\ LinksAreOwn /\ LoopsKnow /\ ReconcilersKnow /\ JobIsDone
    /\ ResultIsChilds /\ ChildrenInOrder

\* Once the child of a waiting step has ended, the step is settled, although the process
\* that should have noticed may die.
Overdue == {i \in Waiting : child[link[i]] \in ChildEnd}
StepIsSettled == Overdue # {} ~> Overdue = {} \/ run = "cancelled"

\* When the parent is cancelled, so is the child it waits for, even one that was started
\* while it was being cancelled.
CancelReachesChild == Waiting # {} /\ run = "cancelled" ~> Waiting = Overdue

\* cancelRun returns: "Already terminal ... a no-op".
CancelReturns ==
    \A c \in Children : act[Canceller(c)].at # "idle" ~> act[Canceller(c)].at = "idle"
=============================================================================
