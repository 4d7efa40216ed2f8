----------------------- MODULE WorkflowEngine_proofs -----------------------
(***************************************************************************)
(* TLAPS proofs about WorkflowEngine, for every workflow, number of loops  *)
(* and requests, retry limit and combination of faults: every variable     *)
(* stays in its range; two loops never process one job at once; the needs  *)
(* of jobs are respected, and the engine implements RunContract.           *)
(***************************************************************************)
EXTENDS WorkflowInvariants, TLAPS, SequenceTheorems

USE DEF recordVars, workerVars, asyncVars, startVars, daemonVars

(***************************************************************************)
(* Typing of the updates the actions are made of                           *)
(***************************************************************************)
LEMMA NoLocalTyped == NoLocal \in Locals
  BY EmptySeq DEF NoLocal, Locals, Outcomes

LEMMA ExceptSeqAnywhere ==
  ASSUME NEW S, NEW q \in Seq(S), NEW i \in Nat, NEW e \in S
  PROVE  [q EXCEPT ![i] = e] \in Seq(S) /\ Len([q EXCEPT ![i] = e]) = Len(q)
<1>1. CASE i \in 1..Len(q)
  BY <1>1, ExceptSeq
<1>2. CASE i \notin 1..Len(q)
  BY <1>2, LenProperties
<1> QED BY <1>1, <1>2

LEMMA StepUpdateTyped ==
  ASSUME StepOK, NEW j \in Jobs, NEW i \in Nat, NEW s \in StepState,
         step' = [step EXCEPT ![j][i] = s]
  PROVE  StepOK'
<1> DEFINE new == [step[j] EXCEPT ![i] = s]
<1>1. step[j] \in Seq(StepState)
  BY DEF StepOK
<1>2. new \in Seq(StepState) /\ Len(new) = Len(step[j])
  BY <1>1, ExceptSeqAnywhere
<1>3. step' = [step EXCEPT ![j] = new]
  BY DEF StepOK
<1> QED BY <1>2, <1>3 DEF StepOK

LEMMA SetStepTyped ==
  ASSUME StepOK, CurOK, LocalOK, NEW w \in Workers, pc[w] # "idle",
         NEW s \in StepState, SetStep(w, s)
  PROVE  StepOK'
<1>1. cur[w] \in Jobs /\ local[w].idx \in Nat
  BY DEF CurOK, LocalOK, Locals
<1> QED BY <1>1, StepUpdateTyped DEF SetStep

LEMMA AdvanceTyped == ASSUME LocalOK, NEW w \in Workers, Advance(w) PROVE LocalOK'
<1>1. local[w] \in Locals /\ local[w].idx + 1 \in Nat \ {0}
  BY DEF LocalOK, Locals
<1>2. PICK i \in Nat \ {0} : i = local[w].idx + 1
  BY <1>1
<1>3. [local[w] EXCEPT !.idx = i] \in Locals
  BY <1>1 DEF Locals
<1>4. local' = [local EXCEPT ![w] = [local[w] EXCEPT !.idx = i]]
  BY <1>2 DEF Advance
<1> QED BY <1>3, <1>4 DEF LocalOK

LEMMA ThrowTyped == ASSUME LocalOK, NEW w \in Workers, Throw(w) PROVE LocalOK'
  BY DEF LocalOK, Throw, Locals, Outcomes

LEMMA DropTyped == ASSUME LocalOK, NEW w \in Workers, Drop(w) PROVE LocalOK'
  BY NoLocalTyped DEF LocalOK, Drop

(***************************************************************************)
(* Every step of a loop keeps the types                                    *)
(***************************************************************************)
LEMMA PickUpTyped == ASSUME TypeOK, NEW w \in Workers, PickUp(w) PROVE TypeOK'
<1>1. CASE Dequeue(w)
  <2>1. CountsOK'
    BY <1>1 DEF TypeOK, Dequeue, CountsOK, LocalOK, Locals
  <2>2. PcOK'
    BY <1>1 DEF TypeOK, Dequeue, Move, PcOK, Labels
  <2>3. CurOK'
    BY <1>1 DEF TypeOK, Dequeue, Move, CurOK, PcOK
  <2>4. StatusOK' /\ StepOK' /\ NeedsOK' /\ LocalOK' /\ RetryOK' /\ RequestOK' /\ SetsOK'
        /\ DaemonOK'
    BY <1>1 DEF TypeOK, Dequeue, StatusOK, StepOK, NeedsOK, LocalOK, RetryOK, RequestOK,
                SetsOK,
           DaemonOK
  <2> QED BY <2>1, <2>2, <2>3, <2>4 DEF TypeOK
<1>2. CASE ReadRun(w)
  <2>1. PcOK'
    BY <1>2 DEF TypeOK, ReadRun, Move, PcOK, Labels
  <2>2. CurOK'
    BY <1>2 DEF TypeOK, ReadRun, Move, CurOK, PcOK
  <2>3. LocalOK'
    BY <1>2 DEF TypeOK, ReadRun, LocalOK, Locals, CurOK, StepOK
  <2>4. StatusOK' /\ StepOK' /\ NeedsOK' /\ CountsOK' /\ RetryOK' /\ RequestOK' /\ SetsOK'
        /\ DaemonOK'
    BY <1>2 DEF TypeOK, ReadRun, StatusOK, StepOK, NeedsOK, CountsOK, RetryOK, RequestOK,
           SetsOK, DaemonOK
  <2> QED BY <2>1, <2>2, <2>3, <2>4 DEF TypeOK
<1>3. CASE Claim(w)
  <2>1. PcOK'
    BY <1>3 DEF TypeOK, Claim, Drop, Move, PcOK, Labels
  <2>2. CurOK'
    BY <1>3 DEF TypeOK, Claim, Drop, Move, CurOK, PcOK
  <2>3. LocalOK'
    BY <1>3, DropTyped DEF TypeOK, Claim, LocalOK, CurOK, PcOK
  <2>4. SetsOK'
    BY <1>3 DEF TypeOK, Claim, SetsOK, CurOK
  <2>5. StatusOK' /\ StepOK' /\ NeedsOK' /\ CountsOK' /\ RetryOK' /\ RequestOK' /\ DaemonOK'
    BY <1>3 DEF TypeOK, Claim, Drop, StatusOK, StepOK, NeedsOK, CountsOK, RetryOK,
                RequestOK,
           DaemonOK
  <2> QED BY <2>1, <2>2, <2>3, <2>4, <2>5 DEF TypeOK
<1>4. CASE MarkJobRunning(w)
  <2>1. StatusOK'
    BY <1>4 DEF TypeOK, MarkJobRunning, StatusOK, RunState, JobState
  <2>2. PcOK'
    BY <1>4 DEF TypeOK, MarkJobRunning, Drop, Move, PcOK, Labels
  <2>3. CurOK'
    BY <1>4 DEF TypeOK, MarkJobRunning, Drop, Move, CurOK, PcOK
  <2>4. LocalOK'
    BY <1>4, DropTyped DEF TypeOK, MarkJobRunning, LocalOK, CurOK, PcOK
  <2>5. StepOK' /\ NeedsOK' /\ CountsOK' /\ RetryOK' /\ RequestOK' /\ SetsOK' /\ DaemonOK'
    BY <1>4 DEF TypeOK, MarkJobRunning, Drop, StepOK, NeedsOK, CountsOK, RetryOK,
                RequestOK,
           SetsOK, DaemonOK
  <2> QED BY <2>1, <2>2, <2>3, <2>4, <2>5 DEF TypeOK
<1>5. CASE JobSecretsFail(w)
  <2>1. PcOK'
    BY <1>5 DEF TypeOK, JobSecretsFail, Drop, Move, PcOK, Labels
  <2>2. CurOK'
    BY <1>5 DEF TypeOK, JobSecretsFail, Drop, Move, CurOK, PcOK
  <2>3. LocalOK'
    BY <1>5, DropTyped DEF TypeOK, JobSecretsFail, LocalOK, CurOK, PcOK
  <2>4. StatusOK' /\ StepOK' /\ NeedsOK' /\ CountsOK' /\ RetryOK' /\ RequestOK' /\ SetsOK'
        /\ DaemonOK'
    BY <1>5 DEF TypeOK, JobSecretsFail, Drop, StatusOK, StepOK, NeedsOK, CountsOK,
                RetryOK,
           RequestOK, SetsOK, DaemonOK
  <2> QED BY <2>1, <2>2, <2>3, <2>4 DEF TypeOK
<1>6. CASE PromoteRun(w)
  <2>1. StatusOK'
    BY <1>6 DEF TypeOK, PromoteRun, StatusOK, RunState, JobState
  <2>2. PcOK'
    BY <1>6 DEF TypeOK, PromoteRun, Move, PcOK, Labels
  <2>3. CurOK'
    BY <1>6 DEF TypeOK, PromoteRun, Move, CurOK, PcOK
  <2>4. StepOK' /\ NeedsOK' /\ CountsOK' /\ LocalOK' /\ RetryOK' /\ RequestOK' /\ SetsOK'
        /\ DaemonOK'
    BY <1>6 DEF TypeOK, PromoteRun, StepOK, NeedsOK, CountsOK, LocalOK, RetryOK,
                RequestOK,
           SetsOK, DaemonOK
  <2> QED BY <2>1, <2>2, <2>3, <2>4 DEF TypeOK
<1>7. CASE Provision(w)
  <2>1. PcOK'
    BY <1>7 DEF TypeOK, Provision, Move, PcOK, Labels
  <2>2. CurOK'
    BY <1>7 DEF TypeOK, Provision, Move, CurOK, PcOK
  <2>3. StatusOK' /\ StepOK' /\ NeedsOK' /\ CountsOK' /\ LocalOK' /\ RetryOK' /\ RequestOK'
        /\ SetsOK' /\ DaemonOK'
    BY <1>7 DEF TypeOK, Provision, StatusOK, StepOK, NeedsOK, CountsOK, LocalOK, RetryOK,
           RequestOK, SetsOK, DaemonOK
  <2> QED BY <2>1, <2>2, <2>3 DEF TypeOK
<1>8. CASE ProvisionFails(w)
  <2>1. PcOK'
    BY <1>8 DEF TypeOK, ProvisionFails, Move, PcOK, Labels
  <2>2. CurOK'
    BY <1>8 DEF TypeOK, ProvisionFails, Move, CurOK, PcOK
  <2>3. LocalOK'
    BY <1>8 DEF TypeOK, ProvisionFails, LocalOK, Locals, Outcomes
  <2>4. StatusOK' /\ StepOK' /\ NeedsOK' /\ CountsOK' /\ RetryOK' /\ RequestOK' /\ SetsOK'
        /\ DaemonOK'
    BY <1>8 DEF TypeOK, ProvisionFails, StatusOK, StepOK, NeedsOK, CountsOK, RetryOK,
                RequestOK,
           SetsOK, DaemonOK
  <2> QED BY <2>1, <2>2, <2>3, <2>4 DEF TypeOK
<1> QED BY <1>1, <1>2, <1>3, <1>4, <1>5, <1>6, <1>7, <1>8 DEF PickUp

LEMMA RunStepTyped == ASSUME TypeOK, NEW w \in Workers, RunStep(w) PROVE TypeOK'
<1>1. CASE SkipSettled(w)
  <2>1. LocalOK'
    BY <1>1, AdvanceTyped DEF TypeOK, SkipSettled, LocalOK
  <2>2. StatusOK' /\ StepOK' /\ NeedsOK' /\ CountsOK' /\ PcOK' /\ CurOK' /\ RetryOK'
        /\ RequestOK' /\ SetsOK' /\ DaemonOK'
    BY <1>1 DEF TypeOK, SkipSettled, StatusOK, StepOK, NeedsOK, CountsOK, PcOK, CurOK,
                RetryOK,
           RequestOK, SetsOK, DaemonOK
  <2> QED BY <2>1, <2>2 DEF TypeOK
<1>2. CASE StopOnCancel(w)
  <2>1. PcOK'
    BY <1>2 DEF TypeOK, StopOnCancel, Move, PcOK, Labels
  <2>2. CurOK'
    BY <1>2 DEF TypeOK, StopOnCancel, AtStep, Move, CurOK, PcOK
  <2>3. StatusOK' /\ StepOK' /\ NeedsOK' /\ CountsOK' /\ LocalOK' /\ RetryOK' /\ RequestOK'
        /\ SetsOK' /\ DaemonOK'
    BY <1>2 DEF TypeOK, StopOnCancel, StatusOK, StepOK, NeedsOK, CountsOK, LocalOK,
                RetryOK,
           RequestOK, SetsOK, DaemonOK
  <2> QED BY <2>1, <2>2, <2>3 DEF TypeOK
<1>3. CASE AbortOnTerminal(w)
  <2>1. PcOK'
    BY <1>3 DEF TypeOK, AbortOnTerminal, Release, Drop, Move, PcOK, Labels
  <2>2. CurOK'
    BY <1>3 DEF TypeOK, AbortOnTerminal, Release, Drop, Move, CurOK, PcOK
  <2>3. LocalOK'
    BY <1>3, DropTyped DEF TypeOK, AbortOnTerminal, Release, LocalOK, CurOK, PcOK
  <2>4. SetsOK'
    BY <1>3 DEF TypeOK, AbortOnTerminal, Release, SetsOK, CurOK
  <2>5. StatusOK' /\ StepOK' /\ NeedsOK' /\ CountsOK' /\ RetryOK' /\ RequestOK' /\ DaemonOK'
    BY <1>3 DEF TypeOK, AbortOnTerminal, Release, Drop, StatusOK, StepOK, NeedsOK,
                CountsOK,
           RetryOK, RequestOK, DaemonOK
  <2> QED BY <2>1, <2>2, <2>3, <2>4, <2>5 DEF TypeOK
<1>4. CASE Proceed(w)
  <2>1. PcOK'
    BY <1>4 DEF TypeOK, Proceed, Release, Drop, Move, PcOK, Labels
  <2>2. CurOK'
    BY <1>4 DEF TypeOK, Proceed, AtStep, Release, Drop, Move, CurOK, PcOK
  <2>3. LocalOK'
    BY <1>4, DropTyped DEF TypeOK, Proceed, Release, LocalOK, CurOK, PcOK
  <2>4. SetsOK'
    BY <1>4 DEF TypeOK, Proceed, Release, SetsOK, CurOK
  <2>5. StatusOK' /\ StepOK' /\ NeedsOK' /\ CountsOK' /\ RetryOK' /\ RequestOK' /\ DaemonOK'
    BY <1>4 DEF TypeOK, Proceed, Release, Drop, StatusOK, StepOK, NeedsOK, CountsOK,
                RetryOK,
           RequestOK, DaemonOK
  <2> QED BY <2>1, <2>2, <2>3, <2>4, <2>5 DEF TypeOK
<1>5. CASE StepSecretsFail(w)
  <2>1. PcOK'
    BY <1>5 DEF TypeOK, StepSecretsFail, Move, PcOK, Labels
  <2>2. CurOK'
    BY <1>5 DEF TypeOK, StepSecretsFail, AtStep, Move, CurOK, PcOK
  <2>3. LocalOK'
    BY <1>5 DEF TypeOK, StepSecretsFail, LocalOK, Locals, Outcomes
  <2>4. StatusOK' /\ StepOK' /\ NeedsOK' /\ CountsOK' /\ RetryOK' /\ RequestOK' /\ SetsOK'
        /\ DaemonOK'
    BY <1>5 DEF TypeOK, StepSecretsFail, StatusOK, StepOK, NeedsOK, CountsOK, RetryOK,
           RequestOK, SetsOK, DaemonOK
  <2> QED BY <2>1, <2>2, <2>3, <2>4 DEF TypeOK
<1>6. CASE MarkStepStarted(w)
  <2>1. StepOK'
    BY <1>6, SetStepTyped DEF TypeOK, MarkStepStarted, StepOK, StepState
  <2>2. PcOK'
    BY <1>6 DEF TypeOK, MarkStepStarted, Move, Throw, PcOK, Labels
  <2>3. CurOK'
    BY <1>6 DEF TypeOK, MarkStepStarted, Move, Throw, CurOK, PcOK
  <2>4. LocalOK'
    BY <1>6, ThrowTyped DEF TypeOK, MarkStepStarted, LocalOK
  <2>5. StatusOK' /\ NeedsOK' /\ CountsOK' /\ RetryOK' /\ RequestOK' /\ SetsOK' /\ DaemonOK'
    BY <1>6 DEF TypeOK, MarkStepStarted, StatusOK, NeedsOK, CountsOK, RetryOK, RequestOK,
           SetsOK, DaemonOK
  <2> QED BY <2>1, <2>2, <2>3, <2>4, <2>5 DEF TypeOK
<1>7. CASE ExecuteStep(w)
  <2>1. PcOK'
    BY <1>7 DEF TypeOK, ExecuteStep, Move, PcOK, Labels
  <2>2. CurOK'
    BY <1>7 DEF TypeOK, ExecuteStep, Move, CurOK, PcOK
  <2>3. StatusOK' /\ StepOK' /\ NeedsOK' /\ CountsOK' /\ LocalOK' /\ RetryOK' /\ RequestOK'
        /\ SetsOK' /\ DaemonOK'
    BY <1>7 DEF TypeOK, ExecuteStep, StatusOK, StepOK, NeedsOK, CountsOK, LocalOK,
                RetryOK,
           RequestOK, SetsOK, DaemonOK
  <2> QED BY <2>1, <2>2, <2>3 DEF TypeOK
<1>8. CASE MarkStepCompleted(w)
  <2>1. StepOK'
    BY <1>8, SetStepTyped DEF TypeOK, MarkStepCompleted, StepOK, StepState
  <2>2. PcOK'
    BY <1>8 DEF TypeOK, MarkStepCompleted, Move, Throw, PcOK, Labels
  <2>3. CurOK'
    BY <1>8 DEF TypeOK, MarkStepCompleted, Move, Throw, CurOK, PcOK
  <2>4. LocalOK'
    BY <1>8, AdvanceTyped, ThrowTyped DEF TypeOK, MarkStepCompleted, LocalOK
  <2>5. StatusOK' /\ NeedsOK' /\ CountsOK' /\ RetryOK' /\ RequestOK' /\ SetsOK' /\ DaemonOK'
    BY <1>8 DEF TypeOK, MarkStepCompleted, StatusOK, NeedsOK, CountsOK, RetryOK,
                RequestOK,
           SetsOK, DaemonOK
  <2> QED BY <2>1, <2>2, <2>3, <2>4, <2>5 DEF TypeOK
<1>9. CASE MarkStepFailed(w)
  <2>1. StepOK'
    BY <1>9, SetStepTyped DEF TypeOK, MarkStepFailed, StepOK, StepState
  <2>2. PcOK'
    BY <1>9 DEF TypeOK, MarkStepFailed, Move, Throw, PcOK, Labels
  <2>3. CurOK'
    BY <1>9 DEF TypeOK, MarkStepFailed, Move, Throw, CurOK, PcOK
  <2>4. LocalOK'
    BY <1>9, AdvanceTyped, ThrowTyped DEF TypeOK, MarkStepFailed, LocalOK
  <2>5. StatusOK' /\ NeedsOK' /\ CountsOK' /\ RetryOK' /\ RequestOK' /\ SetsOK' /\ DaemonOK'
    BY <1>9 DEF TypeOK, MarkStepFailed, StatusOK, NeedsOK, CountsOK, RetryOK, RequestOK,
                SetsOK,
           DaemonOK
  <2> QED BY <2>1, <2>2, <2>3, <2>4, <2>5 DEF TypeOK
<1>10. CASE ParkForApproval(w)
  <2>1. StatusOK'
    BY <1>10 DEF TypeOK, ParkForApproval, StatusOK, RunState, JobState
  <2>2. StepOK'
    BY <1>10, SetStepTyped DEF TypeOK, ParkForApproval, StepOK, StepState
  <2>3. PcOK'
    BY <1>10 DEF TypeOK, ParkForApproval, Move, Throw, PcOK, Labels
  <2>4. CurOK'
    BY <1>10 DEF TypeOK, ParkForApproval, Move, Throw, CurOK, PcOK
  <2>5. LocalOK'
    BY <1>10, ThrowTyped DEF TypeOK, ParkForApproval, LocalOK
  <2>6. NeedsOK' /\ CountsOK' /\ RetryOK' /\ RequestOK' /\ SetsOK' /\ DaemonOK'
    BY <1>10 DEF TypeOK, ParkForApproval, NeedsOK, CountsOK, RetryOK, RequestOK, SetsOK,
           DaemonOK
  <2> QED BY <2>1, <2>2, <2>3, <2>4, <2>5, <2>6 DEF TypeOK
<1>11. CASE Leave(w)
  <2>1. PcOK'
    BY <1>11 DEF TypeOK, Leave, Release, Drop, Move, PcOK, Labels
  <2>2. CurOK'
    BY <1>11 DEF TypeOK, Leave, Release, Drop, Move, CurOK, PcOK
  <2>3. LocalOK'
    BY <1>11, DropTyped DEF TypeOK, Leave, Release, LocalOK, CurOK, PcOK
  <2>4. SetsOK'
    BY <1>11 DEF TypeOK, Leave, Release, SetsOK, CurOK
  <2>5. StatusOK' /\ StepOK' /\ NeedsOK' /\ CountsOK' /\ RetryOK' /\ RequestOK' /\ DaemonOK'
    BY <1>11 DEF TypeOK, Leave, Release, Drop, StatusOK, StepOK, NeedsOK, CountsOK,
                 RetryOK,
           RequestOK, DaemonOK
  <2> QED BY <2>1, <2>2, <2>3, <2>4, <2>5 DEF TypeOK
<1>12. CASE MarkJobInterrupted(w)
  <2>1. StatusOK'
    BY <1>12 DEF TypeOK, MarkJobInterrupted, StatusOK, RunState, JobState
  <2>2. PcOK'
    BY <1>12 DEF TypeOK, MarkJobInterrupted, Release, Drop, Move, Throw, PcOK, Labels
  <2>3. CurOK'
    BY <1>12 DEF TypeOK, MarkJobInterrupted, Release, Drop, Move, Throw, CurOK, PcOK
  <2>4. LocalOK'
    BY <1>12, DropTyped, ThrowTyped DEF TypeOK, MarkJobInterrupted, Release, LocalOK,
                                        CurOK,
           PcOK
  <2>5. SetsOK'
    BY <1>12 DEF TypeOK, MarkJobInterrupted, Release, SetsOK, CurOK
  <2>6. StepOK' /\ NeedsOK' /\ CountsOK' /\ RetryOK' /\ RequestOK' /\ DaemonOK'
    BY <1>12 DEF TypeOK, MarkJobInterrupted, Release, Drop, StepOK, NeedsOK, CountsOK,
                 RetryOK,
           RequestOK, DaemonOK
  <2> QED BY <2>1, <2>2, <2>3, <2>4, <2>5, <2>6 DEF TypeOK
<1> QED BY <1>1, <1>2, <1>3, <1>4, <1>5, <1>6, <1>7, <1>8, <1>9, <1>10, <1>11, <1>12
           DEF RunStep

LEMMA SettleJobTyped == ASSUME TypeOK, NEW w \in Workers, SettleJob(w) PROVE TypeOK'
<1>1. CASE MarkJobSucceeded(w)
  <2>1. StatusOK'
    BY <1>1 DEF TypeOK, MarkJobSucceeded, StatusOK, RunState, JobState
  <2>2. PcOK'
    BY <1>1 DEF TypeOK, MarkJobSucceeded, Move, Throw, PcOK, Labels
  <2>3. CurOK'
    BY <1>1 DEF TypeOK, MarkJobSucceeded, Move, Throw, CurOK, PcOK
  <2>4. LocalOK'
    <3>1. local[w] \in Locals /\ {cur[w]} \in SUBSET Jobs
      BY <1>1 DEF TypeOK, MarkJobSucceeded, LocalOK, CurOK
    <3>2. [local[w] EXCEPT !.resolve = {cur[w]}, !.outcome = "completed"] \in Locals
      BY <3>1 DEF Locals, Outcomes
    <3>3. \/ local' = [local EXCEPT ![w].resolve = {cur[w]}, ![w].outcome = "completed"]
          \/ Throw(w)
      BY <1>1 DEF MarkJobSucceeded
    <3> QED BY <3>2, <3>3, ThrowTyped DEF TypeOK, LocalOK
  <2>5. StepOK' /\ NeedsOK' /\ CountsOK' /\ RetryOK' /\ RequestOK' /\ SetsOK' /\ DaemonOK'
    BY <1>1 DEF TypeOK, MarkJobSucceeded, StepOK, NeedsOK, CountsOK, RetryOK, RequestOK,
                SetsOK,
           DaemonOK
  <2> QED BY <2>1, <2>2, <2>3, <2>4, <2>5 DEF TypeOK
<1>2. CASE ResolveDependents(w)
  <2>1. NeedsOK'
    BY <1>2 DEF TypeOK, ResolveDependents, NeedsOK
  <2>2. LocalOK'
    <3>1. PICK u \in local[w].resolve, skipped \in SUBSET Jobs :
            local' = [local EXCEPT ![w].resolve = @ \ {u}, ![w].skip = @ \cup skipped,
                                   ![w].jobs = @ \cup (Released(u) \ skipped)]
      BY <1>2 DEF ResolveDependents, Released, WaitingFor
    <3>2. Released(u) \subseteq Jobs
      BY DEF Released, WaitingFor
    <3>3. /\ local[w] \in Locals
          /\ local[w].resolve \ {u} \in SUBSET Jobs
          /\ local[w].skip \cup skipped \in SUBSET Jobs
          /\ local[w].jobs \cup (Released(u) \ skipped) \in SUBSET Jobs
      BY <3>2 DEF TypeOK, LocalOK, Locals
    <3> QED BY <3>1, <3>3 DEF TypeOK, LocalOK, Locals
  <2>3. StatusOK' /\ StepOK' /\ CountsOK' /\ PcOK' /\ CurOK' /\ RetryOK' /\ RequestOK'
        /\ SetsOK' /\ DaemonOK'
    BY <1>2 DEF TypeOK, ResolveDependents, StatusOK, StepOK, CountsOK, PcOK, CurOK,
                RetryOK,
           RequestOK, SetsOK, DaemonOK
  <2> QED BY <2>1, <2>2, <2>3 DEF TypeOK
<1>3. CASE SkipJob(w)
  <2>1. StatusOK'
    BY <1>3 DEF TypeOK, SkipJob, StatusOK, RunState, JobState
  <2>2. PcOK'
    BY <1>3 DEF TypeOK, SkipJob, Throw, Move, PcOK, Labels
  <2>3. CurOK'
    BY <1>3 DEF TypeOK, SkipJob, Throw, Move, CurOK, PcOK
  <2>4. LocalOK'
    <3>1. PICK j \in local[w].skip :
            \/ local' = [local EXCEPT ![w].skip = @ \ {j}, ![w].resolve = @ \cup {j}]
            \/ Throw(w)
      BY <1>3 DEF SkipJob
    <3>2. local[w] \in Locals /\ local[w].skip \ {j} \in SUBSET Jobs
          /\ local[w].resolve \cup {j} \in SUBSET Jobs
      BY DEF TypeOK, LocalOK, Locals
    <3>3. [local[w] EXCEPT !.skip = @ \ {j}, !.resolve = @ \cup {j}] \in Locals
      BY <3>2 DEF Locals
    <3> QED BY <3>1, <3>3, ThrowTyped DEF TypeOK, LocalOK
  <2>5. StepOK' /\ NeedsOK' /\ CountsOK' /\ RetryOK' /\ RequestOK' /\ SetsOK' /\ DaemonOK'
    BY <1>3 DEF TypeOK, SkipJob, StepOK, NeedsOK, CountsOK, RetryOK, RequestOK, SetsOK,
                DaemonOK
  <2> QED BY <2>1, <2>2, <2>3, <2>4, <2>5 DEF TypeOK
<1>4. CASE DependentsResolved(w)
  <2>1. PcOK'
    BY <1>4 DEF TypeOK, DependentsResolved, Move, PcOK, Labels
  <2>2. CurOK'
    BY <1>4 DEF TypeOK, DependentsResolved, Move, CurOK, PcOK
  <2>3. StatusOK' /\ StepOK' /\ NeedsOK' /\ CountsOK' /\ LocalOK' /\ RetryOK' /\ RequestOK'
        /\ SetsOK' /\ DaemonOK'
    BY <1>4 DEF TypeOK, DependentsResolved, StatusOK, StepOK, NeedsOK, CountsOK, LocalOK,
           RetryOK, RequestOK, SetsOK, DaemonOK
  <2> QED BY <2>1, <2>2, <2>3 DEF TypeOK
<1>5. CASE CheckRun(w)
  <2>1. PcOK'
    BY <1>5 DEF TypeOK, CheckRun, Move, AfterCheck, PcOK, Labels
  <2>2. CurOK'
    BY <1>5 DEF TypeOK, CheckRun, Move, AfterCheck, CurOK, PcOK
  <2>3. StatusOK' /\ StepOK' /\ NeedsOK' /\ CountsOK' /\ LocalOK' /\ RetryOK' /\ RequestOK'
        /\ SetsOK' /\ DaemonOK'
    BY <1>5 DEF TypeOK, CheckRun, StatusOK, StepOK, NeedsOK, CountsOK, LocalOK, RetryOK,
           RequestOK, SetsOK, DaemonOK
  <2> QED BY <2>1, <2>2, <2>3 DEF TypeOK
<1>6. CASE RunSucceeds(w)
  <2>1. StatusOK'
    BY <1>6 DEF TypeOK, RunSucceeds, FinalizeRun, StatusOK, RunState, JobState
  <2>2. PcOK'
    BY <1>6 DEF TypeOK, RunSucceeds, FinalizeRun, Drop, Move, Release, Throw, AfterCheck,
                PcOK,
           Labels
  <2>3. CurOK'
    BY <1>6 DEF TypeOK, RunSucceeds, FinalizeRun, Drop, Move, Release, Throw, AfterCheck,
                CurOK,
           PcOK
  <2>4. LocalOK'
    BY <1>6, DropTyped, ThrowTyped DEF TypeOK, RunSucceeds, FinalizeRun, Release, LocalOK,
           CurOK, PcOK
  <2>5. SetsOK'
    BY <1>6 DEF TypeOK, RunSucceeds, FinalizeRun, Release, SetsOK, CurOK
  <2>6. StepOK' /\ NeedsOK' /\ CountsOK' /\ RetryOK' /\ RequestOK' /\ DaemonOK'
    BY <1>6 DEF TypeOK, RunSucceeds, FinalizeRun, Drop, Release, StepOK, NeedsOK,
                CountsOK,
           RetryOK, RequestOK, DaemonOK
  <2> QED BY <2>1, <2>2, <2>3, <2>4, <2>5, <2>6 DEF TypeOK
<1>7. CASE RunFails(w)
  <2>1. StatusOK'
    BY <1>7 DEF TypeOK, RunFails, FinalizeRun, StatusOK, RunState, JobState
  <2>2. PcOK'
    BY <1>7 DEF TypeOK, RunFails, FinalizeRun, Drop, Move, Release, Throw, AfterCheck,
                PcOK,
           Labels
  <2>3. CurOK'
    BY <1>7 DEF TypeOK, RunFails, FinalizeRun, Drop, Move, Release, Throw, AfterCheck,
                CurOK,
           PcOK
  <2>4. LocalOK'
    BY <1>7, DropTyped, ThrowTyped DEF TypeOK, RunFails, FinalizeRun, Release, LocalOK,
                                       CurOK,
           PcOK
  <2>5. SetsOK'
    BY <1>7 DEF TypeOK, RunFails, FinalizeRun, Release, SetsOK, CurOK
  <2>6. StepOK' /\ NeedsOK' /\ CountsOK' /\ RetryOK' /\ RequestOK' /\ DaemonOK'
    BY <1>7 DEF TypeOK, RunFails, FinalizeRun, Drop, Release, StepOK, NeedsOK, CountsOK,
           RetryOK, RequestOK, DaemonOK
  <2> QED BY <2>1, <2>2, <2>3, <2>4, <2>5, <2>6 DEF TypeOK
<1>8. CASE EnqueueReleased(w)
  <2>1. CountsOK'
    BY <1>8 DEF TypeOK, EnqueueReleased, Enqueue, CountsOK, LocalOK, Locals
  <2>2. LocalOK'
    <3>1. PICK j \in local[w].jobs : local' = [local EXCEPT ![w].jobs = @ \ {j}]
      BY <1>8 DEF EnqueueReleased
    <3>2. local[w] \in Locals /\ local[w].jobs \ {j} \in SUBSET Jobs
      BY DEF TypeOK, LocalOK, Locals
    <3> QED BY <3>1, <3>2 DEF TypeOK, LocalOK, Locals
  <2>3. StatusOK' /\ StepOK' /\ NeedsOK' /\ PcOK' /\ CurOK' /\ RetryOK' /\ RequestOK'
        /\ SetsOK' /\ DaemonOK'
    BY <1>8 DEF TypeOK, EnqueueReleased, StatusOK, StepOK, NeedsOK, PcOK, CurOK, RetryOK,
           RequestOK, SetsOK, DaemonOK
  <2> QED BY <2>1, <2>2, <2>3 DEF TypeOK
<1>9. CASE EnqueueReleasedFails(w)
  <2>1. LocalOK'
    <3>1. PICK j \in local[w].jobs : local' = [local EXCEPT ![w].jobs = @ \ {j}]
      BY <1>9 DEF EnqueueReleasedFails
    <3>2. local[w] \in Locals /\ local[w].jobs \ {j} \in SUBSET Jobs
      BY DEF TypeOK, LocalOK, Locals
    <3> QED BY <3>1, <3>2 DEF TypeOK, LocalOK, Locals
  <2>2. StatusOK' /\ StepOK' /\ NeedsOK' /\ CountsOK' /\ PcOK' /\ CurOK' /\ RetryOK'
        /\ RequestOK' /\ SetsOK' /\ DaemonOK'
    BY <1>9 DEF TypeOK, EnqueueReleasedFails, StatusOK, StepOK, NeedsOK, CountsOK, PcOK,
                CurOK,
           RetryOK, RequestOK, SetsOK, DaemonOK
  <2> QED BY <2>1, <2>2 DEF TypeOK
<1>10. CASE JobDone(w)
  <2>1. PcOK'
    BY <1>10 DEF TypeOK, JobDone, Release, Drop, Move, PcOK, Labels
  <2>2. CurOK'
    BY <1>10 DEF TypeOK, JobDone, Release, Drop, Move, CurOK, PcOK
  <2>3. LocalOK'
    BY <1>10, DropTyped DEF TypeOK, JobDone, Release, LocalOK, CurOK, PcOK
  <2>4. SetsOK'
    BY <1>10 DEF TypeOK, JobDone, Release, SetsOK, CurOK
  <2>5. StatusOK' /\ StepOK' /\ NeedsOK' /\ CountsOK' /\ RetryOK' /\ RequestOK' /\ DaemonOK'
    BY <1>10 DEF TypeOK, JobDone, Release, Drop, StatusOK, StepOK, NeedsOK, CountsOK,
                 RetryOK,
           RequestOK, DaemonOK
  <2> QED BY <2>1, <2>2, <2>3, <2>4, <2>5 DEF TypeOK
<1>11. CASE MarkJobFailed(w)
  <2>1. StatusOK'
    BY <1>11 DEF TypeOK, MarkJobFailed, StatusOK, RunState, JobState
  <2>2. CountsOK'
    BY <1>11 DEF TypeOK, MarkJobFailed, CountsOK, LocalOK, Locals
  <2>3. PcOK'
    BY <1>11 DEF TypeOK, MarkJobFailed, Drop, Move, Release, PcOK, Labels
  <2>4. CurOK'
    BY <1>11 DEF TypeOK, MarkJobFailed, Drop, Move, Release, CurOK, PcOK
  <2>5. LocalOK'
    BY <1>11, DropTyped DEF TypeOK, MarkJobFailed, Release, LocalOK, CurOK, PcOK
  <2>6. RetryOK'
    BY <1>11 DEF TypeOK, MarkJobFailed, RetryOK
  <2>7. SetsOK'
    BY <1>11 DEF TypeOK, MarkJobFailed, Release, SetsOK, CurOK
  <2>8. StepOK' /\ NeedsOK' /\ RequestOK' /\ DaemonOK'
    BY <1>11 DEF TypeOK, MarkJobFailed, Drop, Release, StepOK, NeedsOK, RequestOK,
                 DaemonOK
  <2> QED BY <2>1, <2>2, <2>3, <2>4, <2>5, <2>6, <2>7, <2>8 DEF TypeOK
<1>12. CASE CancelDownstream(w)
  <2>1. StatusOK'
    BY <1>12 DEF TypeOK, CancelDownstream, StatusOK, RunState, JobState
  <2>2. NeedsOK'
    BY <1>12 DEF TypeOK, CancelDownstream, Release, Drop, Move, NeedsOK
  <2>3. PcOK'
    BY <1>12 DEF TypeOK, CancelDownstream, Release, Drop, Move, PcOK, Labels
  <2>4. CurOK'
    BY <1>12 DEF TypeOK, CancelDownstream, Release, Drop, Move, CurOK, PcOK
  <2>5. LocalOK'
    BY <1>12, DropTyped DEF TypeOK, CancelDownstream, Release, LocalOK, CurOK, PcOK
  <2>6. SetsOK'
    BY <1>12 DEF TypeOK, CancelDownstream, Release, SetsOK, CurOK
  <2>7. StepOK' /\ CountsOK' /\ RetryOK' /\ RequestOK' /\ DaemonOK'
    BY <1>12 DEF TypeOK, CancelDownstream, Release, Drop, StepOK, CountsOK, RetryOK,
                 RequestOK,
           DaemonOK
  <2> QED BY <2>1, <2>2, <2>3, <2>4, <2>5, <2>6, <2>7 DEF TypeOK
<1> QED BY <1>1, <1>2, <1>3, <1>4, <1>5, <1>6, <1>7, <1>8, <1>9, <1>10, <1>11, <1>12 DEF
       SettleJob

(***************************************************************************)
(* So does everything else the daemon does                                 *)
(***************************************************************************)
LEMMA RetryStepTyped == ASSUME TypeOK, NEW j \in Jobs, RetryStep(j) PROVE TypeOK'
<1>1. CASE RetryRequeue(j)
  <2>1. StatusOK'
    BY <1>1 DEF TypeOK, RetryRequeue, StatusOK, RunState, JobState
  <2>2. RetryOK'
    BY <1>1 DEF TypeOK, RetryRequeue, RetryOK
  <2>3. StepOK' /\ NeedsOK' /\ CountsOK' /\ PcOK' /\ CurOK' /\ LocalOK' /\ RequestOK'
        /\ SetsOK' /\ DaemonOK'
    BY <1>1 DEF TypeOK, RetryRequeue, StepOK, NeedsOK, CountsOK, PcOK, CurOK, LocalOK,
           RequestOK, SetsOK, DaemonOK
  <2> QED BY <2>1, <2>2, <2>3 DEF TypeOK
<1>2. CASE RetryEnqueue(j)
  <2>1. CountsOK'
    BY <1>2 DEF TypeOK, RetryEnqueue, Enqueue, CountsOK
  <2>2. RetryOK'
    BY <1>2 DEF TypeOK, RetryEnqueue, RetryOK
  <2>3. StatusOK' /\ StepOK' /\ NeedsOK' /\ PcOK' /\ CurOK' /\ LocalOK' /\ RequestOK'
        /\ SetsOK' /\ DaemonOK'
    BY <1>2 DEF TypeOK, RetryEnqueue, StatusOK, StepOK, NeedsOK, PcOK, CurOK, LocalOK,
           RequestOK, SetsOK, DaemonOK
  <2> QED BY <2>1, <2>2, <2>3 DEF TypeOK
<1> QED BY <1>1, <1>2 DEF RetryStep

LEMMA RequestTyped ==
  ASSUME TypeOK, NEW c \in Clients, CheckApproval(c) \/ FinishRequest(c)
  PROVE  TypeOK'
<1>1. NoRequest \in Requests
  BY DEF NoRequest, Requests
<1>2. CASE CheckApproval(c)
  <2>1. PICK j \in Jobs, i \in Nat \ {0}, action \in {"success", "failed"} :
          request' = [request EXCEPT ![c] =
                        [at |-> "checked", job |-> j, idx |-> i, action |-> action]]
    <3>1. \A j \in Jobs : DOMAIN step[j] = 1..Len(step[j]) /\ Len(step[j]) \in Nat
      BY LenProperties DEF TypeOK, StepOK
    <3>2. PICK j \in Jobs : \E i \in DOMAIN step[j], action \in {"success", "failed"} :
            request' = [request EXCEPT ![c] =
                          [at |-> "checked", job |-> j, idx |-> i, action |-> action]]
      BY <1>2 DEF CheckApproval
    <3>3. DOMAIN step[j] \subseteq Nat \ {0}
      BY <3>1
    <3> QED BY <3>2, <3>3
  <2>3. RequestOK'
    BY <2>1 DEF TypeOK, RequestOK, Requests
  <2>4. StatusOK' /\ StepOK' /\ NeedsOK' /\ CountsOK' /\ PcOK' /\ CurOK' /\ LocalOK'
        /\ RetryOK' /\ SetsOK' /\ DaemonOK'
    BY <1>2 DEF TypeOK, CheckApproval, StatusOK, StepOK, NeedsOK, CountsOK, PcOK, CurOK,
                LocalOK, RetryOK, SetsOK, DaemonOK
  <2> QED BY <2>3, <2>4 DEF TypeOK
<1>3. CASE ResolveApproval(c)
  <2>1. /\ request[c] \in Requests /\ request[c].job \in Jobs
        /\ request[c].idx \in Nat /\ request[c].action \in StepState
    BY <1>3 DEF ResolveApproval, TypeOK, RequestOK, Requests, StepState
  <2>2. StatusOK'
    BY <1>3 DEF TypeOK, ResolveApproval, StatusOK, JobState
  <2>3. StepOK'
    BY <1>3, <2>1, StepUpdateTyped DEF TypeOK, ResolveApproval, StepOK
  <2>4. RequestOK'
    BY <1>1, <1>3, <2>1 DEF TypeOK, ResolveApproval, RequestOK, NoRequest, Requests
  <2>5. NeedsOK' /\ CountsOK' /\ PcOK' /\ CurOK' /\ LocalOK' /\ RetryOK' /\ SetsOK'
        /\ DaemonOK'
    BY <1>3 DEF TypeOK, ResolveApproval, NeedsOK, CountsOK, PcOK, CurOK, LocalOK, RetryOK,
                SetsOK, DaemonOK
  <2> QED BY <2>2, <2>3, <2>4, <2>5 DEF TypeOK
<1>4. CASE EnqueueApproved(c)
  <2>1. CountsOK'
    BY <1>4 DEF TypeOK, EnqueueApproved, Enqueue, CountsOK
  <2>2. RequestOK'
    BY <1>1, <1>4 DEF TypeOK, EnqueueApproved, RequestOK, NoRequest
  <2>3. StatusOK' /\ StepOK' /\ NeedsOK' /\ PcOK' /\ CurOK' /\ LocalOK' /\ RetryOK' /\ SetsOK'
        /\ DaemonOK'
    BY <1>4 DEF TypeOK, EnqueueApproved, StatusOK, StepOK, NeedsOK, PcOK, CurOK, LocalOK,
                RetryOK, SetsOK, DaemonOK
  <2> QED BY <2>1, <2>2, <2>3 DEF TypeOK
<1> QED BY <1>2, <1>3, <1>4 DEF FinishRequest

LEMMA ProcessTyped ==
  ASSUME TypeOK, ProcessDies, UNCHANGED <<run, step, pending, blocked, attempt, queue, startVars>>,
         crashes' = crashes + 1, status' \in [Jobs -> JobState]
  PROVE  TypeOK'
<1>1. PcOK' /\ CurOK' /\ LocalOK'
  BY NoLocalTyped DEF ProcessDies, PcOK, CurOK, LocalOK, Labels
<1>2. RetryOK' /\ RequestOK' /\ SetsOK' /\ DaemonOK'
  BY DEF ProcessDies, TypeOK, RetryOK, RequestOK, SetsOK, DaemonOK, NoRequest, Requests,
         Phases,
         startVars
<1>3. StatusOK' /\ StepOK' /\ NeedsOK' /\ CountsOK'
  BY DEF TypeOK, StatusOK, StepOK, NeedsOK, CountsOK
<1> QED BY <1>1, <1>2, <1>3 DEF TypeOK

\* A start-up touches neither the loops nor the requests nor the timers.
LEMMA StartUpFrame ==
  ASSUME StartUp \/ StrayLaunch \/ StartUpDies
  PROVE  UNCHANGED <<pending, blocked, attempt, pc, cur, local, claimed, retry, request,
                     unscheduled>>
  BY DEF StartUp, StrayLaunch, StartUpDies, Restart, CheckSwept, FinalizeSwept, Ready,
         FailAbandonedStep, FailAbandonedJob, ResumeInterrupted, EnqueueResumed,
         recordVars, workerVars, asyncVars

\* What its own variables become at the beginning, at the end, and when it resumes.
LEMMA StartSetsTyped ==
  ASSUME TypeOK
  PROVE  /\ AbortStartUp => SetsOK' \/ unscheduled' # unscheduled \/ claimed' # claimed
         /\ Interrupted \subseteq Jobs /\ Abandoned \subseteq Jobs
         /\ BeginCleanup => torn' \subseteq Jobs \X (Nat \ {0})
<1>1. AbortStartUp => SetsOK' \/ unscheduled' # unscheduled \/ claimed' # claimed
  BY DEF AbortStartUp, TypeOK, SetsOK
<1>2. Interrupted \subseteq Jobs /\ Abandoned \subseteq Jobs
  BY DEF Interrupted, Abandoned
<1>3. \A j \in Jobs : DOMAIN step[j] \subseteq Nat \ {0}
  BY LenProperties DEF TypeOK, StepOK
<1>4. BeginCleanup => torn' \subseteq Jobs \X (Nat \ {0})
  BY <1>2, <1>3 DEF BeginCleanup
<1> QED BY <1>1, <1>2, <1>4

LEMMA StartUpTyped ==
  ASSUME TypeOK, StartUp \/ StrayLaunch \/ StartUpDies
  PROVE  TypeOK'
<1>1. NeedsOK' /\ PcOK' /\ CurOK' /\ LocalOK' /\ RetryOK' /\ RequestOK' /\ attempt' = attempt
  BY StartUpFrame DEF TypeOK, NeedsOK, PcOK, CurOK, LocalOK, RetryOK, RequestOK
<1>2. UNCHANGED <<claimed, unscheduled>>
  BY StartUpFrame
<1>a. StrayLaunch \/ StartUpDies => crashes' \in Nat
  BY DEF TypeOK, DaemonOK, StrayLaunch, StartUpDies
<1>b. ASSUME NEW j \in Jobs, EnqueueResumed(j) PROVE queue' \in [Jobs -> Nat]
  BY <1>b DEF EnqueueResumed, Enqueue, TypeOK, CountsOK
<1>c. ASSUME NEW j \in Jobs PROVE DOMAIN step[j] \subseteq Nat
  <2>1. step[j] \in Seq(StepState)
    BY DEF TypeOK, StepOK
  <2> QED BY <2>1, LenProperties
<1> USE DEF TypeOK, SetsOK, DaemonOK, Phases, StartPhases, StatusOK, CountsOK
<1>3. CASE Restart
  BY <1>1, <1>2, <1>3, StartSetsTyped DEF Restart, BeginCleanup, BeginResume, recordVars,
                                          StepOK
<1>4. CASE StrayLaunch
  BY <1>1, <1>2, <1>a, <1>4, StartSetsTyped DEF StrayLaunch, BeginCleanup, BeginResume,
                                                recordVars, StepOK
<1>5. CASE StartUpDies
  BY <1>1, <1>2, <1>a, <1>5 DEF StartUpDies, AbortStartUp, recordVars, StepOK
<1>6. CASE CheckSwept
  BY <1>1, <1>2, <1>6, StartSetsTyped DEF CheckSwept, BeginResume, recordVars, StepOK
<1>7. CASE FinalizeSwept
  BY <1>1, <1>2, <1>7, StartSetsTyped
     DEF FinalizeSwept, BeginResume, AbortStartUp, RunState, StepOK
<1>8. CASE Ready
  BY <1>1, <1>2, <1>8 DEF Ready, recordVars, StepOK
<1>9. ASSUME NEW j \in Jobs, FailAbandonedStep(j) PROVE TypeOK'
  <2>1. StepOK'
    <3>1. CASE UNCHANGED step
      BY <3>1 DEF StepOK
    <3>2. ASSUME NEW i \in DOMAIN step[j], step' = [step EXCEPT ![j][i] = "failed"]
          PROVE  StepOK'
      <4>1. i \in Nat
        BY <1>c
      <4> QED BY <3>2, <4>1, StepUpdateTyped DEF StepState
    <3> QED BY <1>9, <3>1, <3>2 DEF FailAbandonedStep
  <2> QED BY <1>1, <1>2, <1>9, <2>1 DEF FailAbandonedStep, AbortStartUp
<1>10. ASSUME NEW j \in Jobs, FailAbandonedJob(j) PROVE TypeOK'
  BY <1>1, <1>2, <1>10 DEF FailAbandonedJob, AbortStartUp, JobState, StepOK
<1>11. ASSUME NEW j \in Jobs, ResumeInterrupted(j) PROVE TypeOK'
  BY <1>1, <1>2, <1>11 DEF ResumeInterrupted, AbortStartUp, JobState, StepOK
<1>12. ASSUME NEW j \in Jobs, EnqueueResumed(j) PROVE TypeOK'
  BY <1>1, <1>2, <1>b, <1>12 DEF EnqueueResumed, recordVars, StepOK
<1> QED BY <1>3, <1>4, <1>5, <1>6, <1>7, <1>8, <1>9, <1>10, <1>11, <1>12 DEF StartUp

LEMMA InitTyped == Init => TypeOK
<1> SUFFICES ASSUME Init PROVE TypeOK
  OBVIOUS
<1>1. StepOK
  <2>1. ASSUME NEW j \in Jobs
        PROVE  step[j] \in Seq(StepState) /\ Len(step[j]) = Len(Plan[j])
    <3>1. Len(Plan[j]) \in Nat
      BY PlanType, LenProperties
    <3>2. step[j] = [i \in 1..Len(Plan[j]) |-> "queued"]
      BY DEF Init
    <3> QED BY <3>1, <3>2 DEF StepState
  <2> QED BY <2>1 DEF Init, StepOK
<1>2. StatusOK /\ NeedsOK /\ CountsOK
  BY NeedsType DEF Init, StatusOK, RunState, JobState, NeedsOK, CountsOK
<1>3. PcOK /\ CurOK /\ LocalOK
  BY NoLocalTyped DEF Init, PcOK, CurOK, LocalOK, Labels
<1>4. RetryOK /\ RequestOK /\ SetsOK /\ DaemonOK
  BY DEF Init, Scheduled, RetryOK, RequestOK, NoRequest, Requests, SetsOK, DaemonOK,
         Phases,
         StartPhases
<1> QED BY <1>1, <1>2, <1>3, <1>4 DEF TypeOK

LEMMA NextTyped == TypeOK /\ [Next]_vars => TypeOK'
<1> SUFFICES ASSUME TypeOK, [Next]_vars PROVE TypeOK'
  OBVIOUS
<1>1. ASSUME NEW w \in Workers, WorkerStep(w) PROVE TypeOK'
  BY <1>1, PickUpTyped, RunStepTyped, SettleJobTyped DEF WorkerStep
<1>2. ASSUME NEW j \in Jobs, ScheduleJob(j) PROVE TypeOK'
  BY <1>2 DEF TypeOK, ScheduleJob, Enqueue, StatusOK, StepOK, NeedsOK, CountsOK, PcOK,
              CurOK, LocalOK, RetryOK, RequestOK, SetsOK, DaemonOK
<1>3. CASE CancelRun
  BY <1>3 DEF TypeOK, CancelRun, StatusOK, RunState, StepOK, NeedsOK, CountsOK, PcOK,
              CurOK, LocalOK, RetryOK, RequestOK, SetsOK, DaemonOK
<1>4. CASE Crash
  BY <1>4, ProcessTyped DEF Crash, TypeOK, StatusOK
<1>5. CASE Stop
  BY <1>5 DEF TypeOK, Stop, DaemonOK, Phases, StatusOK, StepOK, NeedsOK, CountsOK, PcOK,
              CurOK, LocalOK, RetryOK, RequestOK, SetsOK
<1>6. CASE Exit
  <2>1. status' \in [Jobs -> JobState]
    BY <1>6 DEF Exit, TypeOK, StatusOK, JobState
  <2> QED BY <1>6, <2>1, ProcessTyped DEF Exit
<1>7. CASE UNCHANGED vars
  BY <1>7 DEF vars, TypeOK, StatusOK, StepOK, NeedsOK, CountsOK, PcOK,
              CurOK, LocalOK, RetryOK, RequestOK, SetsOK, DaemonOK
<1> QED BY <1>1, <1>2, <1>3, <1>4, <1>5, <1>6, <1>7, RetryStepTyped, RequestTyped,
           StartUpTyped DEF Next

\* Whatever the workflow, the loops and the faults, every variable stays in its range.
THEOREM TypeCorrect == Spec => []TypeOK
  BY InitTyped, NextTyped, PTL DEF Spec

(***************************************************************************)
(* Claims.  A step of loop w leaves the other loops alone, and as far as   *)
(* claims go it is one of three: w stays on its job, w is no longer on a   *)
(* job, or w claims a free one.                                            *)
(***************************************************************************)
Others(w) == \A v \in Workers \ {w} : pc'[v] = pc[v] /\ cur'[v] = cur[v]

Keeps(w)  == /\ Holding(w)' => Holding(w) /\ cur'[w] = cur[w] /\ UNCHANGED claimed
             /\ claimed \ (IF Holding(w) THEN {cur[w]} ELSE {}) \subseteq claimed'
Claims(w) == /\ ~Holding(w) /\ cur[w] \notin claimed
             /\ cur'[w] = cur[w] /\ claimed' = claimed \cup {cur[w]}

LEMMA PickUpClaims ==
  ASSUME TypeOK, NEW w \in Workers, PickUp(w)
  PROVE  Others(w) /\ (Keeps(w) \/ Claims(w))
<1> USE DEF TypeOK, PcOK, CurOK, Others, Keeps, Claims, Holding
<1>1. CASE Dequeue(w)
  BY <1>1 DEF Dequeue, Move
<1>2. CASE ReadRun(w)
  BY <1>2 DEF ReadRun, Move
<1>3. CASE Claim(w)
  BY <1>3 DEF Claim, Drop, Move
<1>4. CASE MarkJobRunning(w)
  BY <1>4 DEF MarkJobRunning, Drop, Move
<1>5. CASE JobSecretsFail(w)
  BY <1>5 DEF JobSecretsFail, Drop, Move
<1>6. CASE PromoteRun(w)
  BY <1>6 DEF PromoteRun, Move
<1>7. CASE Provision(w)
  BY <1>7 DEF Provision, Move
<1>8. CASE ProvisionFails(w)
  BY <1>8 DEF ProvisionFails, Move
<1> QED BY <1>1, <1>2, <1>3, <1>4, <1>5, <1>6, <1>7, <1>8 DEF PickUp

LEMMA RunStepClaims ==
  ASSUME TypeOK, NEW w \in Workers, RunStep(w)
  PROVE  Others(w) /\ Keeps(w)
<1> USE DEF TypeOK, PcOK, CurOK, Others, Keeps, Holding, AtStep
<1>1. CASE SkipSettled(w)
  BY <1>1 DEF SkipSettled
<1>2. CASE StopOnCancel(w)
  BY <1>2 DEF StopOnCancel, Move
<1>3. CASE AbortOnTerminal(w)
  BY <1>3 DEF AbortOnTerminal, Release, Drop, Move
<1>4. CASE Proceed(w)
  BY <1>4 DEF Proceed, Release, Drop, Move
<1>5. CASE StepSecretsFail(w)
  BY <1>5 DEF StepSecretsFail, Move
<1>6. CASE MarkStepStarted(w)
  BY <1>6 DEF MarkStepStarted, Throw, Move
<1>7. CASE ExecuteStep(w)
  BY <1>7 DEF ExecuteStep, Move
<1>8. CASE MarkStepCompleted(w)
  BY <1>8 DEF MarkStepCompleted, Throw, Move
<1>9. CASE MarkStepFailed(w)
  BY <1>9 DEF MarkStepFailed, Throw, Move
<1>10. CASE ParkForApproval(w)
  BY <1>10 DEF ParkForApproval, Throw, Move
<1>11. CASE Leave(w)
  BY <1>11 DEF Leave, Release, Drop, Move
<1>12. CASE MarkJobInterrupted(w)
  BY <1>12 DEF MarkJobInterrupted, Release, Drop, Throw, Move
<1> QED BY <1>1, <1>2, <1>3, <1>4, <1>5, <1>6, <1>7, <1>8, <1>9, <1>10, <1>11, <1>12
           DEF RunStep

LEMMA SettleJobClaims ==
  ASSUME TypeOK, NEW w \in Workers, SettleJob(w)
  PROVE  Others(w) /\ Keeps(w)
<1> USE DEF TypeOK, PcOK, CurOK, Others, Keeps, Holding
<1>1. CASE MarkJobSucceeded(w)
  BY <1>1 DEF MarkJobSucceeded, Throw, Move
<1>2. CASE ResolveDependents(w)
  BY <1>2 DEF ResolveDependents
<1>3. CASE SkipJob(w)
  BY <1>3 DEF SkipJob, Throw, Move
<1>4. CASE DependentsResolved(w)
  BY <1>4 DEF DependentsResolved, Move
<1>5. CASE CheckRun(w)
  BY <1>5 DEF CheckRun, Move
<1>6. ASSUME NEW verdict, FinalizeRun(w, verdict), pc[w] \in {"to success", "to failed"}
      PROVE  Others(w) /\ Keeps(w)
  BY <1>6 DEF FinalizeRun, Release, Drop, Throw, Move
<1>7. CASE EnqueueReleased(w)
  BY <1>7 DEF EnqueueReleased
<1>8. CASE EnqueueReleasedFails(w)
  BY <1>8 DEF EnqueueReleasedFails
<1>9. CASE JobDone(w)
  BY <1>9 DEF JobDone, Release, Drop, Move
<1>10. CASE MarkJobFailed(w)
  BY <1>10 DEF MarkJobFailed, Release, Drop, Move
<1>11. CASE CancelDownstream(w)
  BY <1>11 DEF CancelDownstream, Release, Drop, Move
<1> QED BY <1>1, <1>2, <1>3, <1>4, <1>5, <1>6, <1>7, <1>8, <1>9, <1>10, <1>11
        DEF SettleJob, RunSucceeds, RunFails

\* Everything else leaves the loops alone or ends them all.
LEMMA OthersClaims ==
  ASSUME TypeOK, [Next]_vars, \A w \in Workers : ~WorkerStep(w)
  PROVE  \/ UNCHANGED <<pc, cur, claimed>>
         \/ \A w \in Workers : ~Holding(w)'
  BY StartUpFrame DEF Next, vars, ScheduleJob, RetryStep, RetryRequeue, RetryEnqueue,
                      CheckApproval,
         FinishRequest, ResolveApproval, EnqueueApproved, CancelRun, Crash, Stop, Exit,
         ProcessDies, Holding

LEMMA ClaimsHeldInit == Init => ClaimsHeld
  BY DEF Init, ClaimsHeld, OneExecutor, Holding

LEMMA ClaimsHeldNext == TypeOK /\ ClaimsHeld /\ [Next]_vars => ClaimsHeld'
<1> SUFFICES ASSUME TypeOK, ClaimsHeld, [Next]_vars PROVE ClaimsHeld'
  OBVIOUS
<1>1. ASSUME NEW w \in Workers, Others(w), Keeps(w) PROVE ClaimsHeld'
  BY <1>1 DEF ClaimsHeld, OneExecutor, Others, Keeps, Holding
<1>2. ASSUME NEW w \in Workers, Others(w), Claims(w) PROVE ClaimsHeld'
  BY <1>2 DEF ClaimsHeld, OneExecutor, Others, Claims, Holding
<1>3. CASE UNCHANGED <<pc, cur, claimed>>
  BY <1>3 DEF ClaimsHeld, OneExecutor, Holding
<1>4. CASE \A w \in Workers : ~Holding(w)'
  BY <1>4 DEF ClaimsHeld, OneExecutor
<1> QED BY <1>1, <1>2, <1>3, <1>4, PickUpClaims, RunStepClaims, SettleJobClaims,
           OthersClaims
        DEF WorkerStep

\* Two loops never process the same job at once: claimedJobs suffices, however often the
\* queue names the job.
THEOREM Exclusive == Spec => []OneExecutor
<1>1. Init => TypeOK /\ ClaimsHeld
  BY InitTyped, ClaimsHeldInit
<1>2. TypeOK /\ ClaimsHeld /\ [Next]_vars => (TypeOK /\ ClaimsHeld)'
  BY NextTyped, ClaimsHeldNext
<1>3. ClaimsHeld => OneExecutor
  BY DEF ClaimsHeld
<1> QED BY <1>1, <1>2, <1>3, PTL DEF Spec

(***************************************************************************)
(* The needs of jobs, and RunContract.  Success is never taken back, so    *)
(* what a job needs once it is cleared stays true, and nobody ever holds a *)
(* job in hand that is not cleared (HandedOutIsCleared).                   *)
(***************************************************************************)

(***************************************************************************)
(* What the steps of a loop may touch                                      *)
(***************************************************************************)
\* A loop moves the status of the job it holds or of a job it skips, and legally.
LoopMoves(w) ==
    \A j \in Jobs :
        /\ JobLegal(status[j], status'[j])
        /\ status'[j] # status[j] /\ status'[j] \in {"running", "success", "interrupted"}
              => j \in local[w].skip \/ (j = cur[w] /\ pc[w] # "idle")

\* What it remembers to do does not grow, it settles names only once they succeeded.
LoopMemory(w) ==
    /\ \A v \in Workers \ {w} : local'[v] = local[v]
    /\ local'[w].jobs \subseteq local[w].jobs
    /\ local'[w].skip \subseteq local[w].skip
    /\ \A u \in local'[w].resolve : u \in local[w].resolve \/ (u \in Jobs /\ status'[u] = "success")

\* It stays on its job, whose steps and retry are all it writes besides.
LoopFrame(w) ==
    /\ pc'[w] # "idle" => pc[w] # "idle" /\ cur'[w] = cur[w]
    /\ pc'[w] = "to success" => AllSucceeded
    /\ run' = "success" => run = "success" \/ pc[w] = "to success"
    /\ run' # run => UNCHANGED status /\ RunLegal(run, run')
    /\ \A j \in Jobs : step'[j] # step[j] => j = cur[w] /\ pc[w] # "idle"
    /\ \A j \in Jobs : retry'[j] # retry[j] => j = cur[w] /\ pc[w] # "idle"
    /\ UNCHANGED <<pending, queue, request, unscheduled, daemonVars>>

LEMMA PickUpStatus ==
  ASSUME TypeOK, NEW w \in Workers, PickUp(w)
  PROVE  LoopMoves(w)
<1> USE DEF TypeOK, StatusOK, LoopMoves, JobLegal
<1>1. CASE MarkJobRunning(w)
  BY <1>1 DEF MarkJobRunning
<1>2. CASE ~MarkJobRunning(w)
  BY <1>2 DEF PickUp, Dequeue, ReadRun, Claim, JobSecretsFail, PromoteRun, Provision,
              ProvisionFails
<1> QED BY <1>1, <1>2

LEMMA RunStepStatus ==
  ASSUME TypeOK, NEW w \in Workers, RunStep(w)
  PROVE  LoopMoves(w)
<1> USE DEF TypeOK, StatusOK, LoopMoves, JobLegal
<1>1. CASE ParkForApproval(w)
  BY <1>1 DEF ParkForApproval
<1>2. CASE MarkJobInterrupted(w)
  BY <1>2 DEF MarkJobInterrupted
<1>3. CASE ~ParkForApproval(w) /\ ~MarkJobInterrupted(w)
  BY <1>3 DEF RunStep, SkipSettled, StopOnCancel, AbortOnTerminal, Proceed,
              StepSecretsFail,
              MarkStepStarted, ExecuteStep, MarkStepCompleted, MarkStepFailed, Leave
<1> QED BY <1>1, <1>2, <1>3

LEMMA SettleJobStatus ==
  ASSUME TypeOK, NEW w \in Workers, SettleJob(w)
  PROVE  LoopMoves(w)
<1> USE DEF TypeOK, StatusOK, LoopMoves, JobLegal
<1>1. CASE MarkJobSucceeded(w)
  BY <1>1 DEF MarkJobSucceeded
<1>2. CASE SkipJob(w)
  BY <1>2 DEF SkipJob
<1>3. CASE MarkJobFailed(w)
  BY <1>3 DEF MarkJobFailed
<1>4. CASE CancelDownstream(w)
  BY <1>4 DEF CancelDownstream, Doomed, JobTransitions
<1>5. CASE /\ ~MarkJobSucceeded(w) /\ ~SkipJob(w) /\ ~MarkJobFailed(w)
           /\ ~CancelDownstream(w)
  BY <1>5 DEF SettleJob, ResolveDependents, DependentsResolved, CheckRun, RunSucceeds,
              RunFails,
              FinalizeRun, EnqueueReleased, EnqueueReleasedFails, JobDone
<1> QED BY <1>1, <1>2, <1>3, <1>4, <1>5

LEMMA ThrowMemory == ASSUME LocalOK, NEW w \in Workers, Throw(w) PROVE LoopMemory(w)
  BY DEF LoopMemory, LocalOK, Throw, Locals

LEMMA AdvanceMemory == ASSUME LocalOK, NEW w \in Workers, Advance(w) PROVE LoopMemory(w)
  BY DEF LoopMemory, LocalOK, Advance, Locals

LEMMA DropMemory == ASSUME LocalOK, NEW w \in Workers, Drop(w) PROVE LoopMemory(w)
  BY DEF LoopMemory, LocalOK, Drop, NoLocal

LEMMA PickUpFrame ==
  ASSUME TypeOK, NEW w \in Workers, PickUp(w), ~Dequeue(w)
  PROVE  LoopMemory(w) /\ LoopFrame(w)
<1> USE DEF TypeOK, PcOK, CurOK, RetryOK, StepOK, AtStep, LoopMemory, LoopFrame
<1>1. CASE ReadRun(w)
  BY <1>1 DEF ReadRun, Move
<1>2. CASE Claim(w)
  <2>1. LoopMemory(w)
    BY <1>2, DropMemory DEF Claim
  <2>2. LoopFrame(w)
    BY <1>2 DEF Claim, Drop, Move
  <2> QED BY <2>1, <2>2
<1>3. CASE MarkJobRunning(w)
  <2>1. LoopMemory(w)
    BY <1>3, DropMemory DEF MarkJobRunning
  <2>2. LoopFrame(w)
    BY <1>3 DEF MarkJobRunning, Drop, Move
  <2> QED BY <2>1, <2>2
<1>4. CASE JobSecretsFail(w)
  <2>1. LoopMemory(w)
    BY <1>4, DropMemory DEF JobSecretsFail
  <2>2. LoopFrame(w)
    BY <1>4 DEF JobSecretsFail, Drop, Move
  <2> QED BY <2>1, <2>2
<1>5. CASE PromoteRun(w)
  BY <1>5 DEF PromoteRun, Move, RunLegal, RunTransitions
<1>6. CASE Provision(w)
  BY <1>6 DEF Provision, Move
<1>7. CASE ProvisionFails(w)
  BY <1>7 DEF ProvisionFails, Move
<1> QED BY <1>1, <1>2, <1>3, <1>4, <1>5, <1>6, <1>7 DEF PickUp

LEMMA RunStepFrame ==
  ASSUME TypeOK, NEW w \in Workers, RunStep(w)
  PROVE  LoopMemory(w) /\ LoopFrame(w)
<1> USE DEF TypeOK, PcOK, CurOK, RetryOK, StepOK, AtStep, LoopMemory, LoopFrame
<1>1. CASE SkipSettled(w)
  BY <1>1 DEF SkipSettled, Advance
<1>2. CASE StopOnCancel(w)
  BY <1>2 DEF StopOnCancel, Move
<1>3. CASE AbortOnTerminal(w)
  <2>1. LoopMemory(w)
    BY <1>3, DropMemory DEF AbortOnTerminal, Release
  <2>2. LoopFrame(w)
    BY <1>3 DEF AbortOnTerminal, Release, Drop, Move
  <2> QED BY <2>1, <2>2
<1>4. CASE Proceed(w)
  <2>1. LoopMemory(w)
    BY <1>4, DropMemory DEF Proceed, Release
  <2>2. LoopFrame(w)
    BY <1>4 DEF Proceed, Release, Drop, Move
  <2> QED BY <2>1, <2>2
<1>5. CASE StepSecretsFail(w)
  BY <1>5 DEF StepSecretsFail, Move
<1>6. CASE MarkStepStarted(w)
  <2>1. LoopMemory(w)
    BY <1>6, ThrowMemory DEF MarkStepStarted
  <2>2. LoopFrame(w)
    BY <1>6 DEF MarkStepStarted, SetStep, Throw, Move
  <2> QED BY <2>1, <2>2
<1>7. CASE ExecuteStep(w)
  BY <1>7 DEF ExecuteStep, Move
<1>8. CASE MarkStepCompleted(w)
  <2>1. LoopMemory(w)
    BY <1>8, ThrowMemory, AdvanceMemory DEF MarkStepCompleted
  <2>2. LoopFrame(w)
    BY <1>8 DEF MarkStepCompleted, SetStep, Advance, Throw, Move
  <2> QED BY <2>1, <2>2
<1>9. CASE MarkStepFailed(w)
  <2>1. LoopMemory(w)
    BY <1>9, ThrowMemory, AdvanceMemory DEF MarkStepFailed
  <2>2. LoopFrame(w)
    BY <1>9 DEF MarkStepFailed, SetStep, Advance, Throw, Move
  <2> QED BY <2>1, <2>2
<1>10. CASE ParkForApproval(w)
  <2>1. LoopMemory(w)
    BY <1>10, ThrowMemory DEF ParkForApproval
  <2>2. LoopFrame(w)
    BY <1>10 DEF ParkForApproval, SetStep, Throw, Move
  <2> QED BY <2>1, <2>2
<1>11. CASE Leave(w)
  <2>1. LoopMemory(w)
    BY <1>11, DropMemory DEF Leave, Release
  <2>2. LoopFrame(w)
    BY <1>11 DEF Leave, Release, Drop, Move
  <2> QED BY <2>1, <2>2
<1>12. CASE MarkJobInterrupted(w)
  <2>1. LoopMemory(w)
    BY <1>12, DropMemory, ThrowMemory DEF MarkJobInterrupted, Release
  <2>2. LoopFrame(w)
    BY <1>12 DEF MarkJobInterrupted, Release, Drop, Throw, Move
  <2> QED BY <2>1, <2>2
<1> QED BY <1>1, <1>2, <1>3, <1>4, <1>5, <1>6, <1>7, <1>8, <1>9, <1>10, <1>11, <1>12
           DEF RunStep

LEMMA SettleJobFrame ==
  ASSUME TypeOK, NEW w \in Workers, SettleJob(w), ~ResolveDependents(w), ~EnqueueReleased(w)
  PROVE  LoopMemory(w) /\ LoopFrame(w)
<1> USE DEF TypeOK, PcOK, CurOK, RetryOK, StepOK, AtStep, LoopMemory, LoopFrame
<1>1. CASE MarkJobSucceeded(w)
  <2>1. LoopMemory(w)
    <3>1. CASE Throw(w)
      BY <3>1, ThrowMemory
    <3>2. CASE ~Throw(w)
      <4>1. /\ cur[w] \in Jobs /\ status'[cur[w]] = "success"
            /\ local' = [local EXCEPT ![w].resolve = {cur[w]}, ![w].outcome = "completed"]
        BY <1>1, <3>2 DEF MarkJobSucceeded, StatusOK
      <4> QED BY <4>1 DEF LocalOK, Locals
    <3> QED BY <3>1, <3>2
  <2>2. LoopFrame(w)
    BY <1>1 DEF MarkJobSucceeded, Throw, Move
  <2> QED BY <2>1, <2>2
<1>2. CASE SkipJob(w)
  <2>1. LoopMemory(w)
    <3>1. CASE Throw(w)
      BY <3>1, ThrowMemory
    <3>2. CASE ~Throw(w)
      <4>1. PICK j \in local[w].skip :
              /\ status' = [status EXCEPT ![j] = "success"]
              /\ local' = [local EXCEPT ![w].skip = @ \ {j}, ![w].resolve = @ \cup {j}]
        BY <1>2, <3>2 DEF SkipJob
      <4>2. j \in Jobs /\ status'[j] = "success"
        BY <4>1 DEF LocalOK, Locals, StatusOK
      <4> QED BY <4>1, <4>2 DEF LocalOK, Locals
    <3> QED BY <3>1, <3>2
  <2>2. LoopFrame(w)
    BY <1>2 DEF SkipJob, Throw, Move
  <2> QED BY <2>1, <2>2
<1>3. CASE DependentsResolved(w)
  BY <1>3 DEF DependentsResolved, Move
<1>4. CASE CheckRun(w)
  BY <1>4 DEF CheckRun, AfterCheck, Move
<1>5. ASSUME NEW verdict \in {"success", "failed"}, FinalizeRun(w, verdict),
             pc[w] = IF verdict = "success" THEN "to success" ELSE "to failed"
      PROVE  LoopMemory(w) /\ LoopFrame(w)
  <2>1. LoopMemory(w)
    BY <1>5, DropMemory, ThrowMemory DEF FinalizeRun, Release
  <2>2. LoopFrame(w)
    BY <1>5 DEF FinalizeRun, AfterCheck, Release, Drop, Throw, Move
  <2> QED BY <2>1, <2>2
<1>6. CASE EnqueueReleasedFails(w)
  BY <1>6 DEF EnqueueReleasedFails
<1>7. CASE JobDone(w)
  <2>1. LoopMemory(w)
    BY <1>7, DropMemory DEF JobDone, Release
  <2>2. LoopFrame(w)
    BY <1>7 DEF JobDone, Release, Drop, Move
  <2> QED BY <2>1, <2>2
<1>8. CASE MarkJobFailed(w)
  <2>1. LoopMemory(w)
    BY <1>8, DropMemory DEF MarkJobFailed, Release
  <2>2. LoopFrame(w)
    BY <1>8 DEF MarkJobFailed, Release, Drop, Move
  <2> QED BY <2>1, <2>2
<1>9. CASE CancelDownstream(w)
  <2>1. LoopMemory(w)
    BY <1>9, DropMemory DEF CancelDownstream, Release
  <2>2. LoopFrame(w)
    BY <1>9 DEF CancelDownstream, Release, Drop, Move
  <2> QED BY <2>1, <2>2
<1> QED BY <1>1, <1>2, <1>3, <1>4, <1>5, <1>6, <1>7, <1>8, <1>9
        DEF SettleJob, RunSucceeds, RunFails

LEMMA LoopStatus == ASSUME TypeOK, NEW w \in Workers, WorkerStep(w) PROVE LoopMoves(w)
  BY PickUpStatus, RunStepStatus, SettleJobStatus DEF WorkerStep

LEMMA LoopCases ==
  ASSUME TypeOK, NEW w \in Workers, WorkerStep(w)
  PROVE  \/ Dequeue(w) \/ ResolveDependents(w) \/ EnqueueReleased(w)
         \/ LoopMemory(w) /\ LoopFrame(w)
  BY PickUpFrame, RunStepFrame, SettleJobFrame DEF WorkerStep

LEMMA LoopAlone == ASSUME TypeOK, NEW w \in Workers, WorkerStep(w) PROVE Others(w)
  BY PickUpClaims, RunStepClaims, SettleJobClaims DEF WorkerStep

(***************************************************************************)
(* What a start-up may do to the record and hand out                       *)
(***************************************************************************)
LEMMA StartUpRecord ==
  ASSUME TypeOK, StartUp \/ StrayLaunch \/ StartUpDies
  PROVE  /\ run' # run => /\ RunLegal(run, run') /\ run' \in {"success", "failed"}
                          /\ run' = "success" => startup = "to success"
                          /\ UNCHANGED status
         /\ \A j \in Jobs : /\ JobLegal(status[j], status'[j])
                            /\ status'[j] # status[j] => status'[j] \in {"failed", "queued"}
         /\ \A j \in Jobs : \A i \in DOMAIN step'[j] :
               step'[j][i] = "waiting_approval" => i \in DOMAIN step[j] /\ step'[j][i] = step[j][i]
<1> USE DEF TypeOK, StatusOK, JobLegal, RunLegal
<1>1. CASE Restart \/ StrayLaunch \/ StartUpDies \/ CheckSwept \/ Ready
  BY <1>1 DEF Restart, StrayLaunch, StartUpDies, CheckSwept, Ready, recordVars
<1>2. CASE FinalizeSwept
  BY <1>2 DEF FinalizeSwept
<1>3. ASSUME NEW k \in Jobs, FailAbandonedStep(k)
      PROVE  /\ UNCHANGED <<run, status>>
             /\ \A j \in Jobs : \A i \in DOMAIN step'[j] :
                   step'[j][i] = "waiting_approval" => i \in DOMAIN step[j] /\ step'[j][i] = step[j][i]
  <2>1. UNCHANGED <<run, status>>
    BY <1>3 DEF FailAbandonedStep
  <2>2. CASE UNCHANGED step
    BY <2>1, <2>2
  <2>3. ASSUME NEW n \in DOMAIN step[k], step' = [step EXCEPT ![k][n] = "failed"],
               NEW j \in Jobs
        PROVE  /\ DOMAIN step'[j] = DOMAIN step[j]
               /\ \A i \in DOMAIN step[j] : step'[j][i] \in {"failed", step[j][i]}
    <3>1. step' = [step EXCEPT ![k] = [step[k] EXCEPT ![n] = "failed"]]
      BY <2>3
    <3>2. step'[j] = IF j = k THEN [step[k] EXCEPT ![n] = "failed"] ELSE step[j]
      BY <3>1 DEF StepOK
    <3> QED BY <3>2
  <2> QED BY <1>3, <2>1, <2>2, <2>3 DEF FailAbandonedStep
<1>4. CASE \E k \in Jobs : FailAbandonedJob(k)
  BY <1>4 DEF FailAbandonedJob
<1>5. CASE \E k \in Jobs : ResumeInterrupted(k)
  BY <1>5 DEF ResumeInterrupted
<1>6. CASE \E k \in Jobs : EnqueueResumed(k)
  BY <1>6 DEF EnqueueResumed, recordVars
<1> QED BY <1>1, <1>2, <1>3, <1>4, <1>5, <1>6 DEF StartUp

LEMMA StartUpHandsOut ==
  ASSUME TypeOK, StartUp \/ StrayLaunch \/ StartUpDies
  PROVE  /\ UNCHANGED queue \/ \E j \in resumed : Enqueue(j)
         /\ resumed' \subseteq resumed \cup (IF startup = "resume" THEN sweep ELSE {})
         /\ startup' = "resume" => sweep' \subseteq Interrupted
                                   \/ (startup = "resume" /\ sweep' \subseteq sweep)
         /\ startup' = "to success" => startup = "to success" \/ AllSucceeded
<1> USE DEF AbortStartUp, BeginCleanup, BeginResume
<1>1. CASE Restart \/ StrayLaunch \/ StartUpDies
  BY <1>1 DEF Restart, StrayLaunch, StartUpDies
<1>2. CASE CheckSwept \/ FinalizeSwept \/ Ready
  BY <1>2 DEF CheckSwept, FinalizeSwept, Ready
<1>3. CASE \E k \in Jobs : FailAbandonedStep(k) \/ FailAbandonedJob(k)
  BY <1>3 DEF FailAbandonedStep, FailAbandonedJob
<1>4. CASE \E k \in Jobs : ResumeInterrupted(k)
  BY <1>4 DEF ResumeInterrupted
<1>5. CASE \E k \in Jobs : EnqueueResumed(k)
  BY <1>5 DEF EnqueueResumed
<1> QED BY <1>1, <1>2, <1>3, <1>4, <1>5 DEF StartUp

\* No other step touches the variables of a start-up.
LEMMA StartUpAlone ==
  ASSUME TypeOK, [Next]_vars
  PROVE  StartUp \/ StrayLaunch \/ StartUpDies \/ UNCHANGED startVars
<1>1. ASSUME NEW w \in Workers, WorkerStep(w) PROVE UNCHANGED startVars
  BY <1>1, LoopCases DEF LoopFrame, Dequeue, ResolveDependents, EnqueueReleased,
                         daemonVars
<1>2. CASE \A w \in Workers : ~WorkerStep(w)
  BY <1>2 DEF Next, vars, daemonVars, ScheduleJob, RetryStep, RetryRequeue, RetryEnqueue,
              CheckApproval, FinishRequest, ResolveApproval, EnqueueApproved, CancelRun, Crash,
              Stop, Exit
<1> QED BY <1>1, <1>2

(***************************************************************************)
(* Every status moves along its table, so success is for good              *)
(***************************************************************************)
\* The steps outside the loops start and finish no job.
LEMMA StatusElsewhere ==
  ASSUME TypeOK, [Next]_vars, \A w \in Workers : ~WorkerStep(w), NEW j \in Jobs
  PROVE  /\ JobLegal(status[j], status'[j])
         /\ status'[j] # status[j] => status'[j] \notin {"running", "success", "interrupted"}
<1> USE DEF TypeOK, StatusOK, JobLegal
<1>1. CASE \E k \in Jobs : RetryStep(k)
  BY <1>1 DEF RetryStep, RetryRequeue, RetryEnqueue
<1>2. CASE \E c \in Clients : FinishRequest(c)
  BY <1>2 DEF FinishRequest, ResolveApproval, EnqueueApproved
<1>3. CASE StartUp \/ StrayLaunch \/ StartUpDies
  BY <1>3, StartUpRecord
<1>4. CASE Exit
  BY <1>4, NoneIsNoJob DEF Exit, KeyToJobId
<1>5. CASE \/ \E k \in Jobs : ScheduleJob(k)
           \/ \E c \in Clients : CheckApproval(c)
           \/ CancelRun \/ Crash \/ Stop \/ UNCHANGED vars
  BY <1>5 DEF ScheduleJob, CheckApproval, CancelRun, Crash, Stop, vars, recordVars
<1> QED BY <1>1, <1>2, <1>3, <1>4, <1>5 DEF Next

LEMMA StatusMoves ==
  ASSUME TypeOK, [Next]_vars, NEW j \in Jobs
  PROVE  JobLegal(status[j], status'[j])
  BY StatusElsewhere, LoopStatus DEF LoopMoves

LEMMA SuccessIsFinal ==
  ASSUME TypeOK, [Next]_vars, NEW j \in Jobs, status[j] = "success"
  PROVE  status'[j] = "success"
  BY StatusMoves DEF JobLegal, JobTransitions

LEMMA ClearedIsFinal ==
  ASSUME TypeOK, [Next]_vars, NEW j \in Jobs, Cleared(j)
  PROVE  Cleared(j)'
  BY SuccessIsFinal, NeedsType DEF Cleared

(***************************************************************************)
(* Dependencies are struck off when they succeeded                         *)
(***************************************************************************)
LEMMA PendingInit == Init => PendingIsExact
  BY DEF Init, PendingIsExact, NoLocal

LEMMA PendingElsewhere ==
  ASSUME TypeOK, [Next]_vars, \A w \in Workers : ~WorkerStep(w)
  PROVE  UNCHANGED pending /\ (UNCHANGED local \/ local' = [w \in Workers |-> NoLocal])
  BY StartUpFrame DEF Next, vars, ScheduleJob, RetryStep, RetryRequeue, RetryEnqueue,
                      CheckApproval,
         FinishRequest, ResolveApproval, EnqueueApproved, CancelRun, Crash, Stop, Exit,
         ProcessDies

LEMMA PendingNext == TypeOK /\ PendingIsExact /\ [Next]_vars => PendingIsExact'
<1> SUFFICES ASSUME TypeOK, PendingIsExact, [Next]_vars PROVE PendingIsExact'
  OBVIOUS
<1>1. \A k \in Jobs : status[k] = "success" => status'[k] = "success"
  BY SuccessIsFinal
<1>2. \A j \in Jobs : Needs[j] \subseteq Jobs
  BY NeedsType
<1>3. \A w \in Workers : local[w].resolve \subseteq Jobs
  BY DEF TypeOK, LocalOK, Locals
<1>4. ASSUME UNCHANGED pending,
             \A w \in Workers : \A u \in local'[w].resolve :
                u \in local[w].resolve \/ (u \in Jobs /\ status'[u] = "success")
      PROVE  PendingIsExact'
  BY <1>1, <1>2, <1>3, <1>4 DEF PendingIsExact
<1>5. ASSUME NEW w \in Workers, WorkerStep(w) PROVE PendingIsExact'
  <2>1. CASE Dequeue(w)
    BY <1>4, <2>1 DEF Dequeue
  <2>2. CASE EnqueueReleased(w)
    <3>1. UNCHANGED pending /\ \A v \in Workers : local'[v].resolve = local[v].resolve
      BY <2>2 DEF EnqueueReleased, TypeOK, LocalOK, Locals
    <3> QED BY <1>4, <3>1
  <2>3. CASE ResolveDependents(w)
    <3>1. PICK u \in local[w].resolve :
            /\ pending' = [j \in Jobs |-> IF j \in WaitingFor(u) THEN pending[j] \ {u}
                                          ELSE pending[j]]
            /\ \E skipped \in SUBSET (Released(u) \cap Conditional) :
                 local' = [local EXCEPT ![w].resolve = @ \ {u}, ![w].skip = @ \cup skipped,
                                        ![w].jobs = @ \cup (Released(u) \ skipped)]
      BY <2>3 DEF ResolveDependents
    <3>2. status[u] = "success"
      BY <3>1 DEF PendingIsExact
    <3>3. \A v \in Workers : local'[v].resolve \subseteq local[v].resolve
      BY <3>1 DEF TypeOK, LocalOK, Locals
    <3>4. UNCHANGED status
      BY <2>3 DEF ResolveDependents
    <3> QED BY <3>1, <3>2, <3>3, <3>4 DEF PendingIsExact
  <2>4. CASE LoopMemory(w) /\ LoopFrame(w)
    BY <1>4, <2>4 DEF LoopMemory, LoopFrame
  <2> QED BY <1>5, <2>1, <2>2, <2>3, <2>4, LoopCases
<1>6. CASE \A w \in Workers : ~WorkerStep(w)
  <2>1. NoLocal.resolve = {}
    BY DEF NoLocal
  <2> QED BY <1>4, <1>6, <2>1, PendingElsewhere
<1> QED BY <1>5, <1>6

(***************************************************************************)
(* Whatever is handed out is cleared                                       *)
(***************************************************************************)
\* A job with nothing left to wait for is cleared.
LEMMA ReleasedIsCleared ==
  ASSUME TypeOK, PendingIsExact, NEW w \in Workers, NEW u \in local[w].resolve,
         NEW j \in Released(u)
  PROVE  Cleared(j)
  BY DEF Released, WaitingFor, PendingIsExact, Cleared

LEMMA HandedOutInit == Init => HandedOutIsCleared
<1> SUFFICES ASSUME Init PROVE HandedOutIsCleared
  OBVIOUS
<1>1. QueueCleared
  BY DEF Init, QueueCleared
<1>2. RecordCleared
  BY DEF Init, RecordCleared
<1>3. LoopsCleared
  BY DEF Init, LoopsCleared, NoLocal
<1>4. OthersCleared
  BY DEF Init, OthersCleared, Scheduled, Cleared, NoRequest
<1> QED BY <1>1, <1>2, <1>3, <1>4 DEF HandedOutIsCleared

LEMMA LoopHandsOut ==
  ASSUME TypeOK, PendingIsExact, HandedOutIsCleared, [Next]_vars,
         NEW w \in Workers, WorkerStep(w)
  PROVE  HandedOutIsCleared'
<1>1. \A j \in Jobs : Cleared(j) => Cleared(j)'
  BY ClearedIsFinal
<1>2. /\ cur \in [Workers -> Jobs \cup {None}]
      /\ \A v \in Workers : /\ pc[v] # "idle" => cur[v] \in Jobs /\ Cleared(cur[v])
                            /\ local[v].jobs \subseteq Jobs /\ local[v].skip \subseteq Jobs
                            /\ \A j \in local[v].jobs \cup local[v].skip : Cleared(j)
  BY DEF TypeOK, CurOK, LocalOK, Locals, HandedOutIsCleared, LoopsCleared
<1>3. Others(w)
  BY LoopAlone
<1>4. LoopMoves(w)
  BY LoopStatus
<1>5. OthersCleared'
  <2>1. \A j \in Jobs : retry'[j] # retry[j] => j = cur[w] /\ pc[w] # "idle"
    BY LoopCases DEF LoopFrame, Dequeue, ResolveDependents, EnqueueReleased
  <2>2. UNCHANGED <<request, unscheduled, resumed, startup, sweep>>
    BY LoopCases DEF LoopFrame, Dequeue, ResolveDependents, EnqueueReleased
  <2> QED BY <1>1, <1>2, <2>1, <2>2
          DEF HandedOutIsCleared, OthersCleared, TypeOK, SetsOK, RequestOK
<1>6. RecordCleared'
  <2>1. \A j \in Jobs : step'[j] # step[j] => j = cur[w] /\ pc[w] # "idle"
    BY LoopCases DEF LoopFrame, Dequeue, ResolveDependents, EnqueueReleased
  <2>2. \A j \in Jobs : status'[j] # status[j] /\ status'[j] = "interrupted" => Cleared(j)
    BY <1>2, <1>4 DEF LoopMoves
  <2>3. ASSUME NEW j \in Jobs, status'[j] = "interrupted" PROVE Cleared(j)'
    BY <1>1, <2>2, <2>3 DEF HandedOutIsCleared, RecordCleared
  <2>4. ASSUME NEW j \in Jobs, NEW i \in DOMAIN step'[j], step'[j][i] = "waiting_approval"
        PROVE  Cleared(j)'
    <3>1. CASE step'[j] = step[j]
      BY <1>1, <2>4, <3>1 DEF HandedOutIsCleared, RecordCleared
    <3>2. CASE step'[j] # step[j]
      BY <1>1, <1>2, <2>1, <3>2
    <3> QED BY <3>1, <3>2
  <2> QED BY <2>3, <2>4 DEF RecordCleared
<1>7. QueueCleared' /\ LoopsCleared'
  <2>1. CASE Dequeue(w)
    <3>1. PICK j \in Jobs : /\ queue[j] > 0 /\ queue' = [queue EXCEPT ![j] = @ - 1]
                            /\ cur' = [cur EXCEPT ![w] = j]
      BY <2>1 DEF Dequeue
    <3>2. Cleared(j)
      BY <3>1 DEF HandedOutIsCleared, QueueCleared
    <3>3. QueueCleared'
      BY <1>1, <3>1, <3>2 DEF HandedOutIsCleared, QueueCleared, TypeOK, CountsOK
    <3>4. LoopsCleared'
      <4>1. UNCHANGED local
        BY <2>1 DEF Dequeue
      <4> QED BY <1>1, <1>2, <1>3, <3>1, <3>2, <4>1 DEF LoopsCleared, Others
    <3> QED BY <3>3, <3>4
  <2>2. CASE ResolveDependents(w)
    <3>1. PICK u \in local[w].resolve : \E skipped \in SUBSET (Released(u) \cap Conditional) :
            local' = [local EXCEPT ![w].resolve = @ \ {u}, ![w].skip = @ \cup skipped,
                                   ![w].jobs = @ \cup (Released(u) \ skipped)]
      BY <2>2 DEF ResolveDependents
    <3>2. \A v \in Workers : \A j \in local'[v].jobs \cup local'[v].skip :
             j \in local[v].jobs \cup local[v].skip \cup Released(u)
      BY <3>1 DEF TypeOK, LocalOK, Locals
    <3>3. \A j \in Released(u) : j \in Jobs /\ Cleared(j)
      BY <3>1, ReleasedIsCleared DEF Released, WaitingFor
    <3>4. UNCHANGED <<pc, cur, queue>>
      BY <2>2 DEF ResolveDependents
    <3>5. QueueCleared'
      BY <1>1, <3>4 DEF HandedOutIsCleared, QueueCleared
    <3> QED BY <1>1, <1>2, <3>2, <3>3, <3>4, <3>5 DEF LoopsCleared
  <2>3. CASE EnqueueReleased(w)
    <3>1. PICK j \in local[w].jobs : /\ queue' = [queue EXCEPT ![j] = @ + 1]
                                     /\ local' = [local EXCEPT ![w].jobs = @ \ {j}]
      BY <2>3 DEF EnqueueReleased, Enqueue
    <3>2. QueueCleared'
      BY <1>1, <1>2, <3>1 DEF HandedOutIsCleared, QueueCleared, TypeOK, CountsOK
    <3>3. \A v \in Workers : local'[v].jobs \cup local'[v].skip
                               \subseteq local[v].jobs \cup local[v].skip
      BY <3>1 DEF TypeOK, LocalOK, Locals
    <3>4. UNCHANGED <<pc, cur>>
      BY <2>3 DEF EnqueueReleased
    <3> QED BY <1>1, <1>2, <3>2, <3>3, <3>4 DEF LoopsCleared
  <2>4. CASE LoopMemory(w) /\ LoopFrame(w)
    <3>1. QueueCleared'
      BY <1>1, <2>4 DEF HandedOutIsCleared, QueueCleared, LoopFrame
    <3>2. LoopsCleared'
      BY <1>1, <1>2, <1>3, <2>4 DEF LoopsCleared, LoopMemory, LoopFrame, Others
    <3> QED BY <3>1, <3>2
  <2> QED BY <2>1, <2>2, <2>3, <2>4, LoopCases
<1> QED BY <1>5, <1>6, <1>7 DEF HandedOutIsCleared

\* The steps outside the loops hand out only what already was cleared, too.
LEMMA ElsewhereHandsOut ==
  ASSUME TypeOK, HandedOutIsCleared, [Next]_vars,
         \A w \in Workers : ~WorkerStep(w)
  PROVE  HandedOutIsCleared'
<1>1. \A j \in Jobs : Cleared(j) => Cleared(j)'
  BY ClearedIsFinal
<1>2. /\ \A v \in Workers : /\ pc[v] # "idle" => cur[v] \in Jobs
                            /\ local[v].jobs \subseteq Jobs /\ local[v].skip \subseteq Jobs
      /\ \A c \in Clients : request[c].at # "idle" => request[c].job \in Jobs
      /\ unscheduled \cup resumed \cup sweep \subseteq Jobs
  BY DEF TypeOK, CurOK, LocalOK, Locals, RequestOK, SetsOK
<1>3. LoopsCleared'
  <2>1. UNCHANGED <<pc, cur, local>>
        \/ (pc' = [w \in Workers |-> "idle"] /\ local' = [w \in Workers |-> NoLocal])
    BY StartUpFrame DEF Next, vars, ScheduleJob, RetryStep, RetryRequeue, RetryEnqueue,
                        CheckApproval,
           FinishRequest, ResolveApproval, EnqueueApproved, CancelRun, Crash, Stop, Exit,
           ProcessDies
  <2> QED BY <1>1, <1>2, <2>1 DEF HandedOutIsCleared, LoopsCleared, NoLocal
<1>4. QueueCleared'
  <2>1. \/ UNCHANGED queue
        \/ \E j \in Jobs : Enqueue(j) /\ \/ j \in unscheduled \cup resumed
                                         \/ retry[j] # {}
                                         \/ \E c \in Clients : /\ request[c].at # "idle"
                                                               /\ request[c].job = j
    BY <1>2, StartUpHandsOut
       DEF Next, vars, ScheduleJob, RetryStep, RetryRequeue, RetryEnqueue, CheckApproval,
           FinishRequest, ResolveApproval, EnqueueApproved, CancelRun, Crash, Stop, Exit
  <2> QED BY <1>1, <2>1
          DEF HandedOutIsCleared, QueueCleared, OthersCleared, Enqueue, TypeOK, CountsOK
<1>5. RecordCleared'
  <2>1. \A j \in Jobs : status'[j] = "interrupted" => status[j] = "interrupted"
    BY StatusElsewhere
  <2>2. ASSUME NEW j \in Jobs, NEW i \in DOMAIN step'[j], step'[j][i] = "waiting_approval"
        PROVE  i \in DOMAIN step[j] /\ step[j][i] = "waiting_approval"
    <3>1. CASE \E c \in Clients : ResolveApproval(c)
      <4>1. PICK c \in Clients : ResolveApproval(c)
        BY <3>1
      <4>2. request[c].action \in {"success", "failed"}
        BY DEF TypeOK, RequestOK, Requests
      <4> QED BY <2>2, <4>1, <4>2 DEF ResolveApproval, TypeOK, StepOK
    <3>2. CASE StartUp \/ StrayLaunch \/ StartUpDies
      BY <2>2, <3>2, StartUpRecord
    <3>3. CASE UNCHANGED step
      BY <2>2, <3>3
    <3> QED BY <3>1, <3>2, <3>3
            DEF Next, vars, ScheduleJob, RetryStep, RetryRequeue, RetryEnqueue, CheckApproval,
                FinishRequest, EnqueueApproved, CancelRun, Crash, Stop, Exit
  <2> QED BY <1>1, <2>1, <2>2 DEF HandedOutIsCleared, RecordCleared
<1>6. OthersCleared'
  <2>1. \A j \in Jobs : retry'[j] # {} => retry[j] # {}
    BY StartUpFrame DEF Next, vars, ScheduleJob, RetryStep, RetryRequeue, RetryEnqueue,
                        CheckApproval,
           FinishRequest, ResolveApproval, EnqueueApproved, CancelRun, Crash, Stop, Exit,
           ProcessDies, TypeOK, RetryOK
  <2>2. unscheduled' \subseteq unscheduled
    BY StartUpFrame DEF Next, vars, ScheduleJob, RetryStep, RetryRequeue, RetryEnqueue,
                        CheckApproval,
           FinishRequest, ResolveApproval, EnqueueApproved, CancelRun, Crash, Stop, Exit,
           ProcessDies
  <2>3. /\ resumed' \subseteq resumed \cup (IF startup = "resume" THEN sweep ELSE {})
        /\ startup' = "resume" => sweep' \subseteq Interrupted
                                  \/ (startup = "resume" /\ sweep' \subseteq sweep)
    BY StartUpAlone, StartUpHandsOut DEF startVars
  <2>4. ASSUME NEW c \in Clients, request'[c].at # "idle"
        PROVE  \/ request[c].at # "idle" /\ request'[c].job = request[c].job
               \/ \E j \in Jobs : /\ request'[c].job = j
                                  /\ \E i \in DOMAIN step[j] : step[j][i] = "waiting_approval"
    <3>1. CASE \E d \in Clients : CheckApproval(d)
      BY <2>4, <3>1 DEF CheckApproval, TypeOK, RequestOK
    <3>2. CASE \E d \in Clients : FinishRequest(d)
      BY <2>4, <3>2 DEF FinishRequest, ResolveApproval, EnqueueApproved, TypeOK,
                        RequestOK,
                        Requests, NoRequest
    <3>3. CASE UNCHANGED request \/ request' = [d \in Clients |-> NoRequest]
      BY <2>4, <3>3 DEF NoRequest
    <3> QED BY <3>1, <3>2, <3>3, StartUpFrame
               DEF Next, vars, ScheduleJob, RetryStep, RetryRequeue, RetryEnqueue,
                   CancelRun, Crash,
                Stop, Exit, ProcessDies
  <2> QED BY <1>1, <1>2, <2>1, <2>2, <2>3, <2>4
          DEF HandedOutIsCleared, OthersCleared, RecordCleared, Interrupted
<1> QED BY <1>3, <1>4, <1>5, <1>6 DEF HandedOutIsCleared

(***************************************************************************)
(* Verdicts                                                                *)
(***************************************************************************)
LEMMA VerdictInit == Init => VerdictIsSound
  BY DEF Init, VerdictIsSound, SuccessIsComplete

LEMMA VerdictNext == TypeOK /\ VerdictIsSound /\ [Next]_vars => VerdictIsSound'
<1> SUFFICES ASSUME TypeOK, VerdictIsSound, [Next]_vars PROVE VerdictIsSound'
  OBVIOUS
<1>1. AllSucceeded => AllSucceeded'
  BY SuccessIsFinal DEF AllSucceeded
<1>4. startup' = "to success" => AllSucceeded'
  BY <1>1, StartUpAlone, StartUpHandsOut DEF startVars, VerdictIsSound
<1>2. ASSUME NEW w \in Workers, WorkerStep(w) PROVE VerdictIsSound'
  <2>1. /\ pc'[w] = "to success" => AllSucceeded
        /\ run' = "success" => run = "success" \/ pc[w] = "to success"
    BY <1>2, LoopCases DEF LoopFrame, Dequeue, ResolveDependents, EnqueueReleased, Move,
                           TypeOK,
           PcOK,
                           VerdictIsSound
  <2>2. Others(w)
    BY <1>2, LoopAlone
  <2> QED BY <1>1, <1>4, <2>1, <2>2 DEF VerdictIsSound, SuccessIsComplete, Others
<1>3. CASE \A w \in Workers : ~WorkerStep(w)
  <2>1. /\ UNCHANGED pc \/ pc' = [w \in Workers |-> "idle"]
        /\ run' = "success" => run = "success" \/ startup = "to success"
    BY <1>3, StartUpFrame, StartUpRecord
       DEF Next, vars, ScheduleJob, RetryStep, RetryRequeue, RetryEnqueue, CheckApproval,
           FinishRequest, ResolveApproval, EnqueueApproved, CancelRun, Crash, Stop, Exit,
           ProcessDies
  <2> QED BY <1>1, <1>4, <2>1 DEF VerdictIsSound, SuccessIsComplete
<1> QED BY <1>2, <1>3

(***************************************************************************)
(* A settled step stays settled, and no loop leaves an open one behind     *)
(***************************************************************************)
SettledStays ==
    \A j \in Jobs : /\ Len(step'[j]) = Len(step[j])
                    /\ \A i \in 1..Len(step[j]) :
                          step[j][i] \in {"success", "failed"} => step'[j][i] = step[j][i]

LEMMA SettledUpdate ==
  ASSUME StepOK, NEW j \in Jobs, NEW i \in Nat, NEW s \in StepState, StepLegal(step[j][i], s),
         step' = [step EXCEPT ![j][i] = s]
  PROVE  SettledStays
<1> DEFINE new == [step[j] EXCEPT ![i] = s]
<1>1. step[j] \in Seq(StepState)
  BY DEF StepOK
<1>2. new \in Seq(StepState) /\ Len(new) = Len(step[j])
  BY <1>1, ExceptSeqAnywhere
<1>3. \A n \in 1..Len(step[j]) : new[n] = IF n = i THEN s ELSE step[j][n]
  BY <1>1, LenProperties
<1>4. \A n \in 1..Len(step[j]) :
        step[j][n] \in {"success", "failed"} => new[n] = step[j][n]
  BY <1>3 DEF StepLegal, StepTransitions
<1>5. \A k \in Jobs : step'[k] = IF k = j THEN new ELSE step[k]
  BY DEF StepOK
<1> HIDE DEF new
<1> QED BY <1>2, <1>4, <1>5 DEF SettledStays

LEMMA SetStepSettled ==
  ASSUME TypeOK, NEW w \in Workers, pc[w] # "idle", NEW s \in StepState,
         StepLegal(Stored(w), s), SetStep(w, s)
  PROVE  SettledStays
<1>1. cur[w] \in Jobs /\ local[w].idx \in Nat
  BY DEF TypeOK, CurOK, LocalOK, Locals
<1> QED BY <1>1, SettledUpdate DEF TypeOK, SetStep, Stored

LEMMA LoopSettled == ASSUME TypeOK, NEW w \in Workers, WorkerStep(w) PROVE SettledStays
<1>1. CASE UNCHANGED step
  BY <1>1 DEF SettledStays
<1>2. CASE MarkStepStarted(w)
  BY <1>1, <1>2, SetStepSettled DEF MarkStepStarted, StepState
<1>3. CASE MarkStepCompleted(w)
  BY <1>1, <1>3, SetStepSettled DEF MarkStepCompleted, StepState
<1>4. CASE MarkStepFailed(w)
  BY <1>1, <1>4, SetStepSettled DEF MarkStepFailed, StepState
<1>5. CASE ParkForApproval(w)
  BY <1>1, <1>5, SetStepSettled DEF ParkForApproval, StepState
<1>6. CASE PickUp(w)
  BY <1>1, <1>6 DEF PickUp, Dequeue, ReadRun, Claim, MarkJobRunning, JobSecretsFail,
                    PromoteRun,
            Provision, ProvisionFails
<1>7. CASE SettleJob(w)
  BY <1>1, <1>7 DEF SettleJob, MarkJobSucceeded, ResolveDependents, SkipJob,
                    DependentsResolved,
            CheckRun, RunSucceeds, RunFails, FinalizeRun, EnqueueReleased, EnqueueReleasedFails,
            JobDone, MarkJobFailed, CancelDownstream
<1>8. CASE \/ SkipSettled(w) \/ StopOnCancel(w) \/ AbortOnTerminal(w) \/ Proceed(w)
           \/ StepSecretsFail(w) \/ ExecuteStep(w) \/ Leave(w) \/ MarkJobInterrupted(w)
  BY <1>1, <1>8 DEF SkipSettled, StopOnCancel, AbortOnTerminal, Proceed, StepSecretsFail,
            ExecuteStep, Leave, MarkJobInterrupted
<1> QED BY <1>2, <1>3, <1>4, <1>5, <1>6, <1>7, <1>8 DEF WorkerStep, RunStep

LEMMA StepsSettled == ASSUME TypeOK, [Next]_vars PROVE SettledStays
<1>1. CASE UNCHANGED step
  BY <1>1 DEF SettledStays
<1>2. ASSUME NEW c \in Clients, ResolveApproval(c) PROVE SettledStays
  <2>1. request[c].job \in Jobs /\ request[c].idx \in Nat
        /\ request[c].action \in StepState
    BY <1>2 DEF ResolveApproval, TypeOK, RequestOK, Requests, StepState
  <2> QED BY <1>1, <1>2, <2>1, SettledUpdate DEF ResolveApproval, TypeOK
<1>3. ASSUME NEW j \in Jobs, FailAbandonedStep(j) PROVE SettledStays
  <2>1. DOMAIN step[j] \subseteq Nat /\ "failed" \in StepState
    BY LenProperties DEF TypeOK, StepOK, StepState
  <2> QED BY <1>1, <1>3, <2>1, SettledUpdate DEF FailAbandonedStep, TypeOK
<1>4. CASE /\ \A w \in Workers : ~WorkerStep(w)
           /\ \A c \in Clients : ~ResolveApproval(c)
           /\ \A j \in Jobs : ~FailAbandonedStep(j)
  BY <1>1, <1>4 DEF Next, vars, ScheduleJob, RetryStep, RetryRequeue, RetryEnqueue,
                    CheckApproval,
         FinishRequest, EnqueueApproved, CancelRun, Crash, Stop, Exit, StartUp, StrayLaunch,
         StartUpDies, Restart, CheckSwept, FinalizeSwept, Ready, FailAbandonedJob,
         ResumeInterrupted, EnqueueResumed
<1> QED BY <1>2, <1>3, <1>4, LoopSettled

\* What a step of a loop does with the steps of its job: it takes an entry, reads the
\* record, leaves, or stays and steps over nothing but a settled step.
Stepping == {"start", "execute", "complete step", "fail step"}
NowSettled(j, i) ==
    \/ step'[j][i] = "success"
    \/ step'[j][i] = "failed" /\ Plan[j][i] \in {"lenient", "approval"}
TakesJob(w) == pc[w] = "idle" /\ pc'[w] = "dequeued" /\ local'[w] = local[w]
ReadsSteps(w) == /\ pc[w] = "dequeued" /\ pc'[w] = "read" /\ cur'[w] = cur[w]
                 /\ local'[w].idx = local[w].idx /\ local'[w].seen = step'[cur[w]]
LeavesJob(w) == pc'[w] = "idle" /\ local'[w] = NoLocal
StaysOnJob(w) ==
    /\ pc[w] \notin {"idle", "dequeued"} /\ pc'[w] \notin {"idle", "dequeued"}
    /\ cur'[w] = cur[w] /\ local'[w].seen = local[w].seen
    /\ pc'[w] \in Stepping => local[w].idx <= Len(local[w].seen)
    /\ \/ local'[w].idx = local[w].idx
       \/ /\ local'[w].idx = local[w].idx + 1 /\ pc'[w] \notin Stepping
          /\ local[w].idx <= Len(local[w].seen)
          /\ NowSettled(cur[w], local[w].idx)
Goes(w) == TakesJob(w) \/ ReadsSteps(w) \/ LeavesJob(w) \/ StaysOnJob(w)

LEMMA PickUpGoes == ASSUME TypeOK, NEW w \in Workers, PickUp(w) PROVE Goes(w)
<1> USE DEF Goes, TakesJob, ReadsSteps, LeavesJob, StaysOnJob, Stepping, Move, Drop, TypeOK, PcOK,
            CurOK, LocalOK, Locals
<1>1. CASE Dequeue(w)
  BY <1>1 DEF Dequeue
<1>2. CASE ReadRun(w)
  BY <1>2 DEF ReadRun
<1>3. CASE Claim(w)
  BY <1>3 DEF Claim
<1>4. CASE MarkJobRunning(w)
  BY <1>4 DEF MarkJobRunning
<1>5. CASE JobSecretsFail(w)
  BY <1>5 DEF JobSecretsFail
<1>6. CASE PromoteRun(w)
  BY <1>6 DEF PromoteRun
<1>7. CASE Provision(w)
  BY <1>7 DEF Provision
<1>8. CASE ProvisionFails(w)
  BY <1>8 DEF ProvisionFails
<1> QED BY <1>1, <1>2, <1>3, <1>4, <1>5, <1>6, <1>7, <1>8 DEF PickUp

LEMMA SettleGoes == ASSUME TypeOK, NEW w \in Workers, SettleJob(w) PROVE Goes(w)
<1> USE DEF Goes, LeavesJob, StaysOnJob, Stepping, Move, Drop, Release, Throw, TypeOK, PcOK,
            CurOK, LocalOK, Locals
<1>1. CASE MarkJobSucceeded(w)
  BY <1>1 DEF MarkJobSucceeded
<1>2. CASE ResolveDependents(w)
  BY <1>2 DEF ResolveDependents
<1>3. CASE SkipJob(w)
  BY <1>3 DEF SkipJob
<1>4. CASE DependentsResolved(w)
  BY <1>4 DEF DependentsResolved
<1>5. CASE CheckRun(w)
  BY <1>5 DEF CheckRun, AfterCheck
<1>6. CASE RunSucceeds(w) \/ RunFails(w)
  <2>1. pc[w] \in {"to success", "to failed"} /\ \E verdict : FinalizeRun(w, verdict)
    BY <1>6 DEF RunSucceeds, RunFails
  <2>2. \/ Move(w, AfterCheck(w)) /\ UNCHANGED <<cur, local>>
        \/ Throw(w) /\ UNCHANGED cur
        \/ Drop(w)
    BY <2>1, Zenon DEF FinalizeRun, Release
  <2> QED BY <2>1, <2>2 DEF AfterCheck
<1>7. CASE EnqueueReleased(w)
  BY <1>7 DEF EnqueueReleased
<1>8. CASE EnqueueReleasedFails(w)
  BY <1>8 DEF EnqueueReleasedFails
<1>9. CASE JobDone(w)
  BY <1>9 DEF JobDone
<1>10. CASE MarkJobFailed(w)
  BY <1>10 DEF MarkJobFailed
<1>11. CASE CancelDownstream(w)
  BY <1>11 DEF CancelDownstream
<1> QED BY <1>1, <1>2, <1>3, <1>4, <1>5, <1>6, <1>7, <1>8, <1>9, <1>10, <1>11
           DEF SettleJob

\* What it steps over: an answer it has just stored, or one its snapshot shows.
LEMMA StoredSettles ==
  ASSUME TypeOK, ProgressIsTrue, NEW w \in Workers, pc[w] \in Stepping,
         NEW s \in StepState, SetStep(w, s)
  PROVE  step'[cur[w]][local[w].idx] = s
<1>1. cur[w] \in Jobs /\ step[cur[w]] \in Seq(StepState) /\ local[w].idx \in Nat \ {0}
  BY DEF TypeOK, CurOK, StepOK, LocalOK, Locals, Stepping
<1>2. local[w].idx <= Len(step[cur[w]])
  BY DEF ProgressIsTrue, SeenIsTrue, NoneLeftOpen, Stepping
<1>3. local[w].idx \in DOMAIN step[cur[w]]
  BY <1>1, <1>2, LenProperties
<1> QED BY <1>1, <1>3 DEF SetStep, TypeOK, StepOK

LEMMA SeenSettles ==
  ASSUME TypeOK, ProgressIsTrue, NEW w \in Workers, SkipSettled(w)
  PROVE  SettledStep(cur[w], local[w].idx)
<1>1. cur[w] \in Jobs /\ local[w].idx \in Nat \ {0} /\ local[w].seen \in Seq(StepState)
  BY DEF SkipSettled, AtStep, TypeOK, CurOK, LocalOK, Locals
<1>2. local[w].idx \in 1..Len(step[cur[w]])
  BY <1>1, LenProperties DEF SkipSettled, AtStep, ProgressIsTrue, SeenIsTrue
<1>3. Seen(w) \in {"success", "failed"} => step[cur[w]][local[w].idx] = Seen(w)
  BY <1>2 DEF SkipSettled, AtStep, ProgressIsTrue, SeenIsTrue, Seen
<1> QED BY <1>3 DEF SkipSettled, SettledStep, Kind

LEMMA RunStepGoes ==
  ASSUME TypeOK, ProgressIsTrue, NEW w \in Workers, RunStep(w)
  PROVE  Goes(w)
<1> USE DEF Goes, LeavesJob, StaysOnJob, Stepping, Move, Drop, Release, Throw, Advance, AtStep,
            TypeOK, PcOK, CurOK, LocalOK, Locals
<1>0. pc[w] \in Stepping => local[w].idx <= Len(local[w].seen)
  BY DEF ProgressIsTrue, NoneLeftOpen
<1>1. CASE SkipSettled(w)
  <2>1. NowSettled(cur[w], local[w].idx)
    BY <1>1, SeenSettles DEF SkipSettled, SettledStep, NowSettled
  <2> QED BY <1>1, <2>1 DEF SkipSettled
<1>2. CASE StopOnCancel(w)
  BY <1>2 DEF StopOnCancel
<1>3. CASE AbortOnTerminal(w)
  BY <1>3 DEF AbortOnTerminal
<1>4. CASE Proceed(w)
  BY <1>4 DEF Proceed
<1>5. CASE StepSecretsFail(w)
  BY <1>5 DEF StepSecretsFail
<1>6. CASE MarkStepStarted(w)
  BY <1>0, <1>6 DEF MarkStepStarted
<1>7. CASE ExecuteStep(w)
  BY <1>0, <1>7 DEF ExecuteStep
<1>8. CASE MarkStepCompleted(w)
  <2>1. CASE StepLegal(Stored(w), "success")
    <3>1. step'[cur[w]][local[w].idx] = "success"
      BY <1>8, <2>1, StoredSettles DEF MarkStepCompleted, StepState
    <3>2. NowSettled(cur[w], local[w].idx)
      BY <1>8, <3>1 DEF NowSettled, MarkStepCompleted
    <3> QED BY <1>0, <1>8, <2>1, <3>2 DEF MarkStepCompleted
  <2>2. CASE ~StepLegal(Stored(w), "success")
    BY <1>8, <2>2 DEF MarkStepCompleted
  <2> QED BY <2>1, <2>2
<1>9. CASE MarkStepFailed(w)
  <2>1. CASE StepLegal(Stored(w), "failed") /\ Kind(w) = "lenient"
    <3>1. step'[cur[w]][local[w].idx] = "failed"
      BY <1>9, <2>1, StoredSettles DEF MarkStepFailed, StepState
    <3>2. Plan[cur[w]][local[w].idx] = "lenient"
      BY <2>1 DEF Kind
    <3>3. NowSettled(cur[w], local[w].idx)
      BY <1>9, <3>1, <3>2 DEF NowSettled, MarkStepFailed
    <3> QED BY <1>0, <1>9, <2>1, <3>3 DEF MarkStepFailed
  <2>2. CASE ~(StepLegal(Stored(w), "failed") /\ Kind(w) = "lenient")
    BY <1>9, <2>2 DEF MarkStepFailed
  <2> QED BY <2>1, <2>2
<1>10. CASE ParkForApproval(w)
  BY <1>10 DEF ParkForApproval
<1>11. CASE Leave(w)
  BY <1>11 DEF Leave
<1>12. CASE MarkJobInterrupted(w)
  BY <1>12 DEF MarkJobInterrupted
<1> QED BY <1>1, <1>2, <1>3, <1>4, <1>5, <1>6, <1>7, <1>8, <1>9, <1>10, <1>11, <1>12
           DEF RunStep

LEMMA LoopGoes ==
  ASSUME TypeOK, ProgressIsTrue, NEW w \in Workers, WorkerStep(w)
  PROVE  Goes(w) /\ Others(w) /\ \A v \in Workers \ {w} : local'[v] = local[v]
<1>1. Goes(w) /\ Others(w)
  BY PickUpGoes, RunStepGoes, SettleGoes, LoopAlone DEF WorkerStep
<1>2. \A v \in Workers \ {w} : local'[v] = local[v]
  BY LoopCases DEF LoopMemory, Dequeue, ResolveDependents, EnqueueReleased, TypeOK,
                   LocalOK
<1> QED BY <1>1, <1>2

\* What the invariant says of one loop.
SeesTruly(w) ==
    pc[w] \notin {"idle", "dequeued"} =>
        /\ Len(local[w].seen) = Len(step[cur[w]])
        /\ \A i \in 1..Len(step[cur[w]]) :
              local[w].seen[i] \in {"success", "failed"} => step[cur[w]][i] = local[w].seen[i]
LeavesNone(w) ==
    /\ pc[w] \in {"idle", "dequeued"} => local[w].idx = 1
    /\ pc[w] \in Stepping => local[w].idx <= Len(local[w].seen)
    /\ pc[w] \notin {"idle", "dequeued"} => local[w].idx <= Len(local[w].seen) + 1
    /\ pc[w] # "idle" => \A i \in 1..(local[w].idx - 1) : SettledStep(cur[w], i)

LEMMA ProgressOfEach == ProgressIsTrue <=> \A w \in Workers : SeesTruly(w) /\ LeavesNone(w)
  BY DEF ProgressIsTrue, SeenIsTrue, NoneLeftOpen, SeesTruly, LeavesNone, Stepping

\* Every settled step is where a loop left it.
LEMMA PrefixStays ==
  ASSUME TypeOK, SettledStays, NEW w \in Workers, SeesTruly(w), LeavesNone(w),
         pc[w] \notin {"idle", "dequeued"}
  PROVE  /\ \A i \in 1..Len(step[cur[w]]) :
              SettledStep(cur[w], i) => NowSettled(cur[w], i)
         /\ cur[w] \in Jobs /\ Len(step'[cur[w]]) = Len(step[cur[w]])
         /\ Len(step[cur[w]]) \in Nat
  BY LenProperties DEF TypeOK, CurOK, StepOK, SettledStays, SettledStep, NowSettled

\* A loop that is left alone, or whose step only settles what it leaves behind.
LEMMA SameLoopProgress ==
  ASSUME TypeOK, SettledStays, NEW w \in Workers, SeesTruly(w), LeavesNone(w),
         pc'[w] = pc[w], cur'[w] = cur[w], local'[w] = local[w]
  PROVE  (SeesTruly(w) /\ LeavesNone(w))'
<1>1. CASE pc[w] \in {"idle", "dequeued"}
  <2>1. local[w].idx = 1
    BY <1>1 DEF LeavesNone
  <2>2. 1..(local'[w].idx - 1) = {}
    BY <2>1
  <2> QED BY <1>1, <2>1, <2>2 DEF SeesTruly, LeavesNone, Stepping
<1>2. CASE pc[w] \notin {"idle", "dequeued"}
  <2>1. /\ \A i \in 1..Len(step[cur[w]]) :
             SettledStep(cur[w], i) => NowSettled(cur[w], i)
        /\ cur[w] \in Jobs /\ Len(step'[cur[w]]) = Len(step[cur[w]])
        /\ Len(step[cur[w]]) \in Nat
    BY <1>2, PrefixStays
  <2>2. SeesTruly(w)'
    BY <1>2, <2>1 DEF SeesTruly, SettledStays
  <2>3. local[w].idx \in Nat /\ local[w].idx <= Len(step[cur[w]]) + 1
    BY <1>2 DEF SeesTruly, LeavesNone, TypeOK, LocalOK, Locals
  <2>4. \A i \in 1..(local[w].idx - 1) : i \in 1..Len(step[cur[w]])
    BY <2>1, <2>3
  <2>5. \A i \in 1..(local[w].idx - 1) : NowSettled(cur[w], i)
    BY <1>2, <2>1, <2>4 DEF LeavesNone
  <2>6. LeavesNone(w)'
    BY <1>2, <2>5 DEF LeavesNone, NowSettled, SettledStep
  <2> QED BY <2>2, <2>6
<1> QED BY <1>1, <1>2

LEMMA StepLoopProgress ==
  ASSUME TypeOK, TypeOK', SettledStays, NEW w \in Workers, SeesTruly(w), LeavesNone(w), Goes(w)
  PROVE  (SeesTruly(w) /\ LeavesNone(w))'
<1>1. CASE TakesJob(w)
  BY <1>1 DEF TakesJob, SeesTruly, LeavesNone, Stepping
<1>2. CASE LeavesJob(w)
  <2>1. local'[w].idx = 1 /\ pc'[w] = "idle"
    BY <1>2 DEF LeavesJob, NoLocal
  <2> QED BY <2>1 DEF SeesTruly, LeavesNone, Stepping
<1>3. CASE ReadsSteps(w)
  <2>1. local'[w].idx = 1 /\ cur[w] \in Jobs
    BY <1>3 DEF ReadsSteps, LeavesNone, TypeOK, CurOK
  <2>2. Len(step'[cur[w]]) \in Nat
    BY <2>1, LenProperties DEF TypeOK, StepOK
  <2> QED BY <1>3, <2>1, <2>2 DEF ReadsSteps, SeesTruly, LeavesNone, Stepping
<1>4. CASE StaysOnJob(w)
  <2>1. /\ \A i \in 1..Len(step[cur[w]]) :
             SettledStep(cur[w], i) => NowSettled(cur[w], i)
        /\ cur[w] \in Jobs /\ Len(step'[cur[w]]) = Len(step[cur[w]])
        /\ Len(step[cur[w]]) \in Nat
    BY <1>4, PrefixStays DEF StaysOnJob
  <2>2. SeesTruly(w)'
    BY <1>4, <2>1 DEF StaysOnJob, SeesTruly, SettledStays
  <2>3. local[w].idx \in Nat /\ local'[w].idx \in Nat
    BY DEF TypeOK, LocalOK, Locals
  <2>4. Len(local[w].seen) = Len(step[cur[w]]) /\ local[w].idx <= Len(local[w].seen) + 1
    BY <1>4 DEF StaysOnJob, SeesTruly, LeavesNone
  <2>5. ASSUME NEW i \in 1..(local'[w].idx - 1) PROVE NowSettled(cur[w], i)
    <3>1. CASE i \in 1..(local[w].idx - 1)
      <4>1. i \in 1..Len(step[cur[w]])
        BY <2>1, <2>3, <2>4, <3>1
      <4> QED BY <1>4, <2>1, <3>1, <4>1 DEF StaysOnJob, LeavesNone
    <3>2. CASE i \notin 1..(local[w].idx - 1)
      <4>1. local'[w].idx = local[w].idx + 1 /\ i = local[w].idx
        BY <1>4, <2>3, <3>2 DEF StaysOnJob
      <4> QED BY <1>4, <2>3, <4>1 DEF StaysOnJob
    <3> QED BY <3>1, <3>2
  <2>6. /\ pc'[w] \in Stepping => local'[w].idx <= Len(local'[w].seen)
        /\ local'[w].idx <= Len(local'[w].seen) + 1
    BY <1>4, <2>1, <2>3, <2>4 DEF StaysOnJob
  <2>7. LeavesNone(w)'
    BY <1>4, <2>5, <2>6 DEF StaysOnJob, LeavesNone, NowSettled, SettledStep
  <2> QED BY <2>2, <2>7
<1> QED BY <1>1, <1>2, <1>3, <1>4 DEF Goes

LEMMA ProgressInit == Init => ProgressIsTrue
  BY DEF Init, ProgressIsTrue, SeenIsTrue, NoneLeftOpen, NoLocal

LEMMA ProgressNext == TypeOK /\ ProgressIsTrue /\ [Next]_vars => ProgressIsTrue'
<1> SUFFICES ASSUME TypeOK, ProgressIsTrue, [Next]_vars PROVE ProgressIsTrue'
  OBVIOUS
<1>1. TypeOK' /\ SettledStays
  BY NextTyped, StepsSettled
<1>2. \A w \in Workers : SeesTruly(w) /\ LeavesNone(w)
  BY ProgressOfEach
<1>3. SUFFICES ASSUME NEW v \in Workers PROVE (SeesTruly(v) /\ LeavesNone(v))'
  BY DEF ProgressIsTrue, SeenIsTrue, NoneLeftOpen, SeesTruly, LeavesNone, Stepping
<1>4. CASE pc'[v] = pc[v] /\ cur'[v] = cur[v] /\ local'[v] = local[v]
  BY <1>1, <1>2, <1>4, SameLoopProgress
<1>5. ASSUME NEW w \in Workers, WorkerStep(w) PROVE (SeesTruly(v) /\ LeavesNone(v))'
  <2>1. Goes(w) /\ Others(w) /\ \A u \in Workers \ {w} : local'[u] = local[u]
    BY <1>5, LoopGoes
  <2>2. CASE v = w
    BY <1>1, <1>2, <2>1, <2>2, StepLoopProgress
  <2>3. CASE v # w
    BY <1>4, <2>1, <2>3 DEF Others
  <2> QED BY <2>2, <2>3
<1>6. CASE \A w \in Workers : ~WorkerStep(w)
  <2>1. UNCHANGED <<pc, cur, local>> \/ LeavesJob(v)
    BY <1>6, StartUpFrame
       DEF Next, vars, ScheduleJob, RetryStep, RetryRequeue, RetryEnqueue, CheckApproval,
           FinishRequest, ResolveApproval, EnqueueApproved, CancelRun, Crash, Stop, Exit,
           ProcessDies, LeavesJob
  <2> QED BY <1>1, <1>2, <1>4, <2>1, StepLoopProgress DEF Goes
<1> QED BY <1>5, <1>6

(***************************************************************************)
(* Without approvals a job is handed out once                              *)
(***************************************************************************)
\* Each of the carriers is one.
LEMMA IsCarrier ==
  ASSUME NEW j \in Jobs
  PROVE  /\ \A n \in 1..queue[j] : <<"entry", n>> \in Carriers(j)
         /\ \A w \in Workers : cur[w] = j => <<"loop", w>> \in Carriers(j)
         /\ \A w \in Workers : j \in local[w].jobs \cup local[w].skip
                                 => <<"list", w>> \in Carriers(j)
         /\ "requeued" \in retry[j] => <<"retry", j>> \in Carriers(j)
         /\ j \in unscheduled => <<"createRun", j>> \in Carriers(j)
         /\ j \in resumed => <<"resume", j>> \in Carriers(j)
  BY DEF Carriers

\* What the invariant says of one job.
OnceFor(j) ==
    /\ \A x, y \in Carriers(j) : x = y
    /\ "armed" \in retry[j] => status[j] = "failed" /\ Carriers(j) \subseteq Leaving(j)
    /\ blocked[j] \/ status[j] = "interrupted" => Idle(j)
    /\ blocked[j] => status[j] # "interrupted"

LEMMA OnceForEach ==
  HandedOnce <=> /\ NobodyAsks /\ ListsApart /\ SweepIsExact
                 /\ \A j \in Jobs : OnceFor(j)
  BY DEF HandedOnce, NoDuplicateEntry, TimersAlone, IdleAreIdle, OnceFor

\* A step that hands out nothing of j, one that passes j on, and one that takes up an
\* idle j.
LEMMA KeepsOnce ==
  ASSUME NEW j \in Jobs, OnceFor(j), Carriers(j)' \subseteq Carriers(j),
         blocked'[j] => blocked[j], status'[j] = "interrupted" => status[j] = "interrupted",
         "armed" \in retry'[j] => /\ "armed" \in retry[j] /\ status'[j] = "failed"
                                  /\ Carriers(j)' \subseteq Leaving(j)'
  PROVE  OnceFor(j)'
  BY DEF OnceFor, Idle

LEMMA PassesOnce ==
  ASSUME NEW j \in Jobs, OnceFor(j), NEW x \in Carriers(j), x \notin Leaving(j), NEW y,
         Carriers(j)' \subseteq (Carriers(j) \ {x}) \cup {y},
         blocked'[j] => blocked[j], status'[j] = "interrupted" => status[j] = "interrupted",
         "armed" \in retry'[j] => "armed" \in retry[j]
  PROVE  OnceFor(j)'
  BY DEF OnceFor, Idle

LEMMA BeginsOnce ==
  ASSUME NEW j \in Jobs, OnceFor(j), Carriers(j) = {}, NEW y,
         Carriers(j)' \subseteq Carriers(j) \cup {y},
         ~blocked'[j], status'[j] # "interrupted", "armed" \notin retry'[j]
  PROVE  OnceFor(j)'
  BY DEF OnceFor, Idle

\* No loop blocks a job, or sends one back to queued.
LEMMA LoopNeverQueues ==
  ASSUME TypeOK, NEW w \in Workers, WorkerStep(w), NEW j \in Jobs
  PROVE  /\ blocked'[j] => blocked[j]
         /\ status'[j] = "queued" => status[j] = "queued"
         /\ status'[j] = "interrupted" =>
              status[j] = "interrupted" \/ (MarkJobInterrupted(w) /\ j = cur[w])
         /\ MarkJobFailed(w) \/ UNCHANGED retry
<1> USE DEF TypeOK, StatusOK, NeedsOK
<1>1. CASE PickUp(w)
  BY <1>1 DEF PickUp, Dequeue, ReadRun, Claim, MarkJobRunning, JobSecretsFail, PromoteRun,
              Provision, ProvisionFails
<1>2. CASE RunStep(w)
  BY <1>2 DEF RunStep, SkipSettled, StopOnCancel, AbortOnTerminal, Proceed,
              StepSecretsFail,
              MarkStepStarted, ExecuteStep, MarkStepCompleted, MarkStepFailed, ParkForApproval,
              Leave, MarkJobInterrupted
<1>3. CASE MarkJobSucceeded(w)
  BY <1>3 DEF MarkJobSucceeded
<1>4. CASE SkipJob(w)
  BY <1>4 DEF SkipJob
<1>5. CASE ResolveDependents(w)
  BY <1>5 DEF ResolveDependents
<1>6. CASE CancelDownstream(w)
  BY <1>6 DEF CancelDownstream
<1>7. CASE MarkJobFailed(w)
  BY <1>7 DEF MarkJobFailed
<1>8. CASE \/ DependentsResolved(w) \/ CheckRun(w) \/ RunSucceeds(w) \/ RunFails(w)
           \/ EnqueueReleased(w) \/ EnqueueReleasedFails(w) \/ JobDone(w)
  BY <1>8 DEF DependentsResolved, CheckRun, RunSucceeds, RunFails, FinalizeRun,
              EnqueueReleased,
              EnqueueReleasedFails, JobDone
<1> QED BY <1>1, <1>2, <1>3, <1>4, <1>5, <1>6, <1>7, <1>8 DEF WorkerStep, SettleJob

\* Only a loop in front of an approval comes to park.
LEMMA WhoParks ==
  ASSUME TypeOK, NEW w \in Workers, WorkerStep(w), pc'[w] = "park", pc[w] # "park"
  PROVE  AtStep(w) /\ Kind(w) = "approval"
<1> USE DEF TypeOK, PcOK, Move, Drop, Release, Throw
<1>1. CASE PickUp(w)
  BY <1>1 DEF PickUp, Dequeue, ReadRun, Claim, MarkJobRunning, JobSecretsFail, PromoteRun,
              Provision, ProvisionFails
<1>2. CASE Proceed(w)
  BY <1>2 DEF Proceed
<1>3. CASE RunStep(w) /\ ~Proceed(w)
  BY <1>3 DEF RunStep, SkipSettled, StopOnCancel, AbortOnTerminal, StepSecretsFail,
              MarkStepStarted, ExecuteStep, MarkStepCompleted, MarkStepFailed, ParkForApproval,
              Leave, MarkJobInterrupted
<1>4. CASE SettleJob(w)
  <2>1. CASE RunSucceeds(w) \/ RunFails(w)
    <3>1. \E verdict : FinalizeRun(w, verdict)
      BY <2>1 DEF RunSucceeds, RunFails
    <3>2. pc' = [pc EXCEPT ![w] = AfterCheck(w)] \/ pc' = [pc EXCEPT ![w] = "fail"]
          \/ pc' = [pc EXCEPT ![w] = "idle"]
      BY <3>1, Zenon DEF FinalizeRun, Release
    <3> QED BY <3>2 DEF AfterCheck
  <2>2. CASE ~RunSucceeds(w) /\ ~RunFails(w)
    BY <1>4, <2>2 DEF SettleJob, MarkJobSucceeded, ResolveDependents, SkipJob,
            DependentsResolved,
            CheckRun, AfterCheck, EnqueueReleased, EnqueueReleasedFails,
            JobDone, MarkJobFailed, CancelDownstream
  <2> QED BY <2>1, <2>2
<1> QED BY <1>1, <1>2, <1>3, <1>4 DEF WorkerStep

\* What an update of one step does to the others.
LEMMA OneStepChanges ==
  ASSUME StepOK, NEW k \in Jobs, NEW n, NEW s, step' = [step EXCEPT ![k][n] = s]
  PROVE  \A j \in Jobs : /\ DOMAIN step'[j] = DOMAIN step[j]
                         /\ \A i \in DOMAIN step[j] : step'[j][i] \in {s, step[j][i]}
<1>1. step' = [step EXCEPT ![k] = [step[k] EXCEPT ![n] = s]]
  OBVIOUS
<1>2. \A j \in Jobs : step'[j] = IF j = k THEN [step[k] EXCEPT ![n] = s] ELSE step[j]
  BY <1>1 DEF StepOK
<1> QED BY <1>2

LEMMA LoopAsksNobody ==
  ASSUME TypeOK, NEW w \in Workers, WorkerStep(w), pc[w] # "park",
         NEW j \in Jobs, NEW i \in DOMAIN step'[j], step'[j][i] = "waiting_approval"
  PROVE  i \in DOMAIN step[j] /\ step[j][i] = "waiting_approval"
<1>1. CASE UNCHANGED step
  BY <1>1
<1>2. ASSUME NEW s \in {"running", "success", "failed"}, SetStep(w, s), pc[w] # "idle"
      PROVE  i \in DOMAIN step[j] /\ step[j][i] = "waiting_approval"
  <2>1. cur[w] \in Jobs /\ StepOK
    BY <1>2 DEF TypeOK, CurOK
  <2>2. step' = [step EXCEPT ![cur[w]][local[w].idx] = s]
    BY <1>2 DEF SetStep
  <2>3. DOMAIN step'[j] = DOMAIN step[j] /\ \A n \in DOMAIN step[j] : step'[j][n] \in {s, step[j][n]}
    BY <2>1, <2>2, OneStepChanges
  <2> QED BY <1>2, <2>3
<1>3. CASE PickUp(w)
  BY <1>1, <1>3 DEF PickUp, Dequeue, ReadRun, Claim, MarkJobRunning, JobSecretsFail,
                    PromoteRun, Provision, ProvisionFails
<1>4. CASE RunStep(w)
  BY <1>1, <1>2, <1>4 DEF RunStep, SkipSettled, StopOnCancel, AbortOnTerminal, Proceed,
              StepSecretsFail,
              MarkStepStarted, ExecuteStep, MarkStepCompleted, MarkStepFailed, ParkForApproval,
              Leave, MarkJobInterrupted
<1>5. CASE SettleJob(w)
  BY <1>1, <1>5 DEF SettleJob, MarkJobSucceeded, ResolveDependents, SkipJob,
                    DependentsResolved,
            CheckRun, RunSucceeds, RunFails, FinalizeRun, EnqueueReleased, EnqueueReleasedFails,
            JobDone, MarkJobFailed, CancelDownstream
<1> QED BY <1>3, <1>4, <1>5 DEF WorkerStep

LEMMA NobodyAsksNext ==
  ASSUME NoApprovals, TypeOK, ProgressIsTrue, NobodyAsks, [Next]_vars
  PROVE  NobodyAsks'
<1>1. ASSUME NEW w \in Workers, WorkerStep(w) PROVE NobodyAsks'
  <2>1. Others(w) /\ pc[w] # "park"
    BY <1>1, LoopAlone DEF NobodyAsks
  <2>2. ASSUME pc'[w] = "park" PROVE FALSE
    <3>1. AtStep(w) /\ Kind(w) = "approval"
      BY <1>1, <2>1, <2>2, WhoParks
    <3>2. /\ cur[w] \in Jobs /\ local[w].idx \in Nat \ {0}
          /\ Len(step[cur[w]]) = Len(Plan[cur[w]])
      BY <3>1 DEF AtStep, TypeOK, CurOK, LocalOK, Locals, StepOK
    <3>3. local[w].idx <= Len(Plan[cur[w]])
      BY <3>1, <3>2 DEF AtStep, ProgressIsTrue, SeenIsTrue
    <3>4. Len(Plan[cur[w]]) \in Nat
      BY <3>2, PlanType, LenProperties
    <3>5. local[w].idx \in 1..Len(Plan[cur[w]])
      BY <3>2, <3>3, <3>4
    <3> QED BY <3>1, <3>2, <3>5 DEF NoApprovals, Kind
  <2>3. UNCHANGED request
    BY <1>1, LoopCases DEF LoopFrame, Dequeue, ResolveDependents, EnqueueReleased,
                           asyncVars
  <2>4. \A v \in Workers : pc'[v] # "park"
    BY <2>1, <2>2 DEF Others, NobodyAsks
  <2>5. \A j \in Jobs : \A i \in DOMAIN step'[j] : step'[j][i] # "waiting_approval"
    BY <1>1, <2>1, LoopAsksNobody DEF NobodyAsks
  <2> QED BY <2>3, <2>4, <2>5 DEF NobodyAsks
<1>2. CASE \A w \in Workers : ~WorkerStep(w)
  <2>1. UNCHANGED pc \/ pc' = [w \in Workers |-> "idle"]
    BY <1>2, StartUpFrame
       DEF Next, vars, ScheduleJob, RetryStep, RetryRequeue, RetryEnqueue, CheckApproval,
           FinishRequest, ResolveApproval, EnqueueApproved, CancelRun, Crash, Stop, Exit,
           ProcessDies
  <2>2. \A c \in Clients : ~CheckApproval(c) /\ ~FinishRequest(c)
    BY DEF NobodyAsks, CheckApproval, FinishRequest, ResolveApproval, EnqueueApproved
  <2>3. UNCHANGED request \/ request' = [c \in Clients |-> NoRequest]
    BY <1>2, <2>2, StartUpFrame
       DEF Next, vars, ScheduleJob, RetryStep, RetryRequeue, RetryEnqueue, CancelRun, Crash, Stop,
           Exit, ProcessDies
  <2>4. CASE StartUp \/ StrayLaunch \/ StartUpDies
    <3>1. \A j \in Jobs : \A i \in DOMAIN step'[j] :
             step'[j][i] = "waiting_approval" => i \in DOMAIN step[j] /\ step'[j][i] = step[j][i]
      BY <2>4, StartUpRecord
    <3>2. \A j \in Jobs : \A i \in DOMAIN step'[j] : step'[j][i] # "waiting_approval"
      BY <3>1 DEF NobodyAsks
    <3> QED BY <2>1, <2>3, <3>2 DEF NobodyAsks, NoRequest
  <2>5. CASE UNCHANGED step
    BY <2>1, <2>3, <2>5 DEF NobodyAsks, NoRequest
  <2> QED BY <1>2, <2>2, <2>4, <2>5
          DEF Next, vars, ScheduleJob, RetryStep, RetryRequeue, RetryEnqueue, CancelRun, Crash,
              Stop, Exit
<1> QED BY <1>1, <1>2

\* An interrupted job stays interrupted until a start-up resumes it.
LEMMA InterruptedStays ==
  ASSUME TypeOK, NobodyAsks, TimersAlone, [Next]_vars, NEW j \in Jobs,
         status[j] = "interrupted"
  PROVE  status'[j] = "interrupted" \/ ResumeInterrupted(j)
<1> USE DEF TypeOK, StatusOK
<1>1. ASSUME NEW w \in Workers, WorkerStep(w) PROVE status'[j] = "interrupted"
  <2>1. status'[j] \in {"interrupted", "queued", "cancelled"}
    BY StatusMoves DEF JobLegal, JobTransitions
  <2>2. status'[j] # "queued"
    BY <1>1, LoopNeverQueues
  <2>3. CASE CancelDownstream(w)
    BY <2>3 DEF CancelDownstream, Doomed
  <2>4. CASE ~CancelDownstream(w) /\ SettleJob(w)
    BY <2>1, <2>2, <2>4
       DEF SettleJob, MarkJobSucceeded, ResolveDependents, SkipJob, DependentsResolved,
           CheckRun, RunSucceeds, RunFails, FinalizeRun, EnqueueReleased, EnqueueReleasedFails,
           JobDone, MarkJobFailed
  <2>5. CASE PickUp(w)
    BY <2>1, <2>2, <2>5 DEF PickUp, Dequeue, ReadRun, Claim, MarkJobRunning,
                            JobSecretsFail,
                        PromoteRun, Provision, ProvisionFails
  <2>6. CASE RunStep(w)
    BY <2>1, <2>2, <2>6
       DEF RunStep, SkipSettled, StopOnCancel, AbortOnTerminal, Proceed, StepSecretsFail,
           MarkStepStarted, ExecuteStep, MarkStepCompleted, MarkStepFailed, ParkForApproval,
           Leave, MarkJobInterrupted
  <2> QED BY <1>1, <2>3, <2>4, <2>5, <2>6 DEF WorkerStep
<1>2. CASE StartUp \/ StrayLaunch \/ StartUpDies
  <2>1. CASE \E k \in Jobs : ResumeInterrupted(k)
    BY <2>1 DEF ResumeInterrupted
  <2>2. CASE \E k \in Jobs : FailAbandonedJob(k)
    BY <2>2 DEF FailAbandonedJob, JobLegal, JobTransitions
  <2>3. CASE \A k \in Jobs : ~ResumeInterrupted(k) /\ ~FailAbandonedJob(k)
    BY <1>2, <2>3 DEF StartUp, StrayLaunch, StartUpDies, Restart, CheckSwept,
                      FinalizeSwept,
           Ready, FailAbandonedStep, EnqueueResumed
  <2> QED BY <2>1, <2>2, <2>3
<1>3. CASE /\ ~(StartUp \/ StrayLaunch \/ StartUpDies)
           /\ \A w \in Workers : ~WorkerStep(w)
  BY <1>3, NoneIsNoJob
     DEF Next, vars, ScheduleJob, RetryStep, RetryRequeue, RetryEnqueue, CheckApproval,
         FinishRequest, ResolveApproval, EnqueueApproved, CancelRun, Crash, Stop, Exit,
         KeyToJobId, NobodyAsks, TimersAlone
<1> QED BY <1>1, <1>2, <1>3

\* What a start-up treats when it resumes is interrupted until it is resumed.
LEMMA SweepNext ==
  ASSUME TypeOK, NobodyAsks, TimersAlone, SweepIsExact, [Next]_vars
  PROVE  SweepIsExact'
<1> SUFFICES ASSUME startup' = "resume", NEW j \in sweep' PROVE status'[j] = "interrupted"
  BY DEF SweepIsExact
<1>1. CASE BeginResume /\ UNCHANGED status
  BY <1>1 DEF BeginResume, Interrupted
<1>2. CASE startup = "resume" /\ sweep' \subseteq sweep /\ ~ResumeInterrupted(j)
  BY <1>2, InterruptedStays DEF SweepIsExact, TypeOK, SetsOK
<1>3. CASE UNCHANGED startVars
  BY <1>2, <1>3 DEF ResumeInterrupted, AbortStartUp
<1>4. CASE StartUp \/ StrayLaunch \/ StartUpDies
  BY <1>1, <1>2, <1>4
     DEF StartUp, StrayLaunch, StartUpDies, Restart, CheckSwept, FinalizeSwept, Ready,
         FailAbandonedStep, FailAbandonedJob, ResumeInterrupted, EnqueueResumed,
         AbortStartUp, BeginCleanup
<1> QED BY <1>3, <1>4, StartUpAlone

\* A released job is in no list yet.
LEMMA ListsNext ==
  ASSUME TypeOK, HandedOnce, [Next]_vars
  PROVE  ListsApart'
<1>1. ASSUME NEW w \in Workers, WorkerStep(w), NEW v \in Workers
      PROVE  local'[v].jobs \cap local'[v].skip = {}
  <2>1. CASE Dequeue(w)
    BY <2>1 DEF Dequeue, HandedOnce, ListsApart
  <2>2. CASE EnqueueReleased(w)
    BY <2>2 DEF EnqueueReleased, HandedOnce, ListsApart, TypeOK, LocalOK, Locals
  <2>3. CASE LoopMemory(w)
    BY <2>3 DEF LoopMemory, HandedOnce, ListsApart
  <2>4. CASE ResolveDependents(w)
    <3>1. PICK u \in local[w].resolve : \E skipped \in SUBSET (Released(u) \cap Conditional) :
            local' = [local EXCEPT ![w].resolve = @ \ {u}, ![w].skip = @ \cup skipped,
                                   ![w].jobs = @ \cup (Released(u) \ skipped)]
      BY <2>4 DEF ResolveDependents
    <3>2. \A j \in Released(u) : j \notin local[w].jobs \cup local[w].skip
      BY IsCarrier DEF Released, WaitingFor, HandedOnce, IdleAreIdle, Idle
    <3> QED BY <3>1, <3>2 DEF HandedOnce, ListsApart, TypeOK, LocalOK, Locals
  <2> QED BY <1>1, <2>1, <2>2, <2>3, <2>4, LoopCases
<1>2. CASE \A w \in Workers : ~WorkerStep(w)
  <2>1. UNCHANGED local \/ local' = [w \in Workers |-> NoLocal]
    BY <1>2, StartUpFrame
       DEF Next, vars, ScheduleJob, RetryStep, RetryRequeue, RetryEnqueue, CheckApproval,
           FinishRequest, ResolveApproval, EnqueueApproved, CancelRun, Crash, Stop, Exit,
           ProcessDies
  <2> QED BY <2>1 DEF HandedOnce, ListsApart, NoLocal
<1> QED BY <1>1, <1>2 DEF ListsApart

\* A step that adds none of them.
LEMMA AddsNone ==
  ASSUME NEW j \in Jobs, \A n \in 1..queue'[j] : n \in 1..queue[j],
         \A w \in Workers : cur'[w] = j => cur[w] = j,
         \A w \in Workers : j \in local'[w].jobs \cup local'[w].skip =>
             j \in local[w].jobs \cup local[w].skip,
         \A c \in Clients : request'[c].at = "resolved" /\ request'[c].job = j =>
             request[c].at = "resolved" /\ request[c].job = j,
         "requeued" \in retry'[j] => "requeued" \in retry[j],
         j \in unscheduled' => j \in unscheduled, j \in resumed' => j \in resumed
  PROVE  Carriers(j)' \subseteq Carriers(j)
  BY DEF Carriers

\* A timer of a job that a loop leaves behind stays alone with it.
LEMMA TimerStaysAlone ==
  ASSUME TypeOK, NEW w \in Workers, WorkerStep(w), NEW j \in Jobs, [Next]_vars,
         status[j] = "failed", Carriers(j) \subseteq Leaving(j),
         Carriers(j)' \subseteq Carriers(j)
  PROVE  status'[j] = "failed" /\ Carriers(j)' \subseteq Leaving(j)'
<1>1. status'[j] = "failed"
  <2>1. status'[j] \in {"failed", "queued"}
    BY StatusMoves DEF JobLegal, JobTransitions
  <2> QED BY <2>1, LoopNeverQueues
<1>2. Others(w)
  BY LoopAlone
<1>3. ASSUME NEW x \in Carriers(j)' PROVE x \in Leaving(j)'
  <2>1. PICK v \in Workers : x = <<"loop", v>> /\ cur[v] = j /\ pc[v] = "leave"
    BY <1>3 DEF Leaving
  <2>2. cur'[v] = j
    BY <1>3, <2>1 DEF Carriers
  <2>3. CASE v = w
    <3>1. Leave(w)
      BY <2>1, <2>3 DEF WorkerStep, PickUp, Dequeue, ReadRun, Claim, MarkJobRunning,
           JobSecretsFail, PromoteRun, Provision, ProvisionFails,
           RunStep, SkipSettled, StopOnCancel, AbortOnTerminal, Proceed, StepSecretsFail,
           MarkStepStarted, ExecuteStep, MarkStepCompleted, MarkStepFailed, ParkForApproval,
           MarkJobInterrupted, AtStep,
           SettleJob, MarkJobSucceeded, ResolveDependents, SkipJob, DependentsResolved,
           CheckRun, RunSucceeds, RunFails, EnqueueReleased, EnqueueReleasedFails,
           JobDone, MarkJobFailed, CancelDownstream
    <3>2. cur'[w] = None
      BY <3>1 DEF Leave, Release, Drop, TypeOK, CurOK
    <3> QED BY <2>2, <2>3, <3>2, NoneIsNoJob
  <2>4. CASE v # w
    BY <1>2, <2>1, <2>4 DEF Others, Leaving
  <2> QED BY <2>3, <2>4
<1> QED BY <1>1, <1>3

\* A step of a loop that neither dequeues, releases nor enqueues adds no carrier.
LEMMA LoopAddsNone ==
  ASSUME TypeOK, TypeOK', NEW w \in Workers, WorkerStep(w), LoopMemory(w), LoopFrame(w),
         NEW j \in Jobs
  PROVE  Carriers(j)' \subseteq Carriers(j)
<1>1. UNCHANGED <<queue, request, unscheduled, resumed>>
  BY DEF LoopFrame
<1>2. \A v \in Workers : cur'[v] = j => cur[v] = j
  BY LoopAlone, NoneIsNoJob DEF LoopFrame, Others, TypeOK, CurOK
<1>3. \A v \in Workers : /\ local'[v].jobs \subseteq local[v].jobs
                         /\ local'[v].skip \subseteq local[v].skip
  BY DEF LoopMemory
<1>4. "requeued" \in retry'[j] => "requeued" \in retry[j]
  BY LoopNeverQueues DEF MarkJobFailed, TypeOK, RetryOK
<1> QED BY <1>1, <1>2, <1>3, <1>4, AddsNone

\* What the rest of a job's condition needs of a loop's step.
LEMMA LoopKeepsOnce ==
  ASSUME TypeOK, TypeOK', [Next]_vars, NEW w \in Workers, WorkerStep(w), NEW j \in Jobs, OnceFor(j),
         Carriers(j)' \subseteq Carriers(j),
         ~(MarkJobFailed(w) /\ j = cur[w]), ~(MarkJobInterrupted(w) /\ j = cur[w])
  PROVE  OnceFor(j)'
<1>1. blocked'[j] => blocked[j]
  BY LoopNeverQueues
<1>2. status'[j] = "interrupted" => status[j] = "interrupted"
  BY LoopNeverQueues
<1>3. retry'[j] = retry[j]
  BY LoopNeverQueues DEF MarkJobFailed, TypeOK, RetryOK
<1>4. "armed" \in retry[j] => status'[j] = "failed" /\ Carriers(j)' \subseteq Leaving(j)'
  BY TimerStaysAlone DEF OnceFor
<1> QED BY <1>1, <1>2, <1>3, <1>4, KeepsOnce

LEMMA FailsOnce ==
  ASSUME TypeOK, TypeOK', [Next]_vars, NEW w \in Workers, MarkJobFailed(w),
         NEW j \in Jobs, j = cur[w], OnceFor(j)
  PROVE  OnceFor(j)'
<1> USE DEF TypeOK, PcOK, CurOK
<1>1. pc[w] = "fail" /\ WorkerStep(w) /\ ~MarkJobInterrupted(w)
  BY DEF MarkJobFailed, WorkerStep, SettleJob, MarkJobInterrupted
<1>2. Carriers(j)' \subseteq Carriers(j)
  BY <1>1, LoopAddsNone, LoopCases DEF Dequeue, ResolveDependents, EnqueueReleased
<1>3. Carriers(j) = {<<"loop", w>>}
  <2>1. <<"loop", w>> \in Carriers(j)
    BY IsCarrier
  <2> QED BY <2>1 DEF OnceFor
<1>4. ~blocked[j] /\ "armed" \notin retry[j]
  <2>1. <<"loop", w>> \notin Leaving(j)
    BY <1>1 DEF Leaving
  <2> QED BY <1>3, <2>1 DEF OnceFor, Idle
<1>5. \A k \in Jobs : blocked'[k] = blocked[k]
  BY DEF MarkJobFailed
<1>6. CASE "armed" \in retry'[j]
  <2>1. status'[j] = "failed" /\ pc'[w] = "leave" /\ cur'[w] = j
    BY <1>1, <1>4, <1>6 DEF MarkJobFailed, Move, Release, Drop, StatusOK, RetryOK
  <2>2. <<"loop", w>> \in Leaving(j)'
    BY <2>1 DEF Leaving
  <2> QED BY <1>1, <1>2, <1>3, <1>4, <1>5, <2>1, <2>2 DEF OnceFor
<1>7. CASE "armed" \notin retry'[j]
  <2>1. status'[j] = "interrupted" => status[j] = "interrupted"
    BY <1>1, LoopNeverQueues
  <2> QED BY <1>1, <1>2, <1>5, <1>7, <2>1, KeepsOnce
<1> QED BY <1>6, <1>7

LEMMA InterruptsOnce ==
  ASSUME TypeOK, TypeOK', NEW w \in Workers, MarkJobInterrupted(w),
         NEW j \in Jobs, j = cur[w], OnceFor(j)
  PROVE  OnceFor(j)'
<1> USE DEF TypeOK, PcOK, CurOK
<1>1. pc[w] = "interrupt" /\ WorkerStep(w)
  BY DEF MarkJobInterrupted, WorkerStep, RunStep
<1>2. Carriers(j)' \subseteq Carriers(j)
  BY <1>1, LoopAddsNone, RunStepFrame DEF MarkJobInterrupted, RunStep
<1>3. Carriers(j) = {<<"loop", w>>}
  <2>1. <<"loop", w>> \in Carriers(j)
    BY IsCarrier
  <2> QED BY <2>1 DEF OnceFor
<1>4. ~blocked[j] /\ "armed" \notin retry[j] /\ status[j] # "interrupted"
  <2>1. <<"loop", w>> \notin Leaving(j)
    BY <1>1 DEF Leaving
  <2> QED BY <1>3, <2>1 DEF OnceFor, Idle
<1>5. UNCHANGED <<blocked, retry>>
  BY DEF MarkJobInterrupted
<1>6. CASE cur'[w] = None
  <2>1. <<"loop", w>> \notin Carriers(j)'
    BY <1>1, <1>6, NoneIsNoJob DEF Carriers
  <2> QED BY <1>1, <1>2, <1>3, <1>4, <1>5, <2>1 DEF OnceFor, Idle
<1>7. CASE UNCHANGED status
  BY <1>1, <1>2, <1>4, <1>5, <1>7, KeepsOnce
<1> QED BY <1>6, <1>7 DEF MarkJobInterrupted, Release, Drop

LEMMA DequeueOnce ==
  ASSUME TypeOK, TypeOK', [Next]_vars, NEW w \in Workers, Dequeue(w), NEW j \in Jobs, OnceFor(j)
  PROVE  OnceFor(j)'
<1>1. PICK k \in Jobs : /\ queue[k] > 0 /\ queue' = [queue EXCEPT ![k] = @ - 1]
                        /\ cur' = [cur EXCEPT ![w] = k]
  BY DEF Dequeue
<1>2. /\ UNCHANGED <<local, request, retry, unscheduled, resumed, blocked, status>>
      /\ WorkerStep(w) /\ ~MarkJobFailed(w) /\ ~MarkJobInterrupted(w)
  BY DEF Dequeue, WorkerStep, PickUp, MarkJobFailed, MarkJobInterrupted
<1>3. CASE j = k
  <2>1. queue[j] \in Nat /\ queue'[j] = queue[j] - 1 /\ queue[j] > 0
    BY <1>1, <1>3 DEF TypeOK, CountsOK
  <2>2. queue[j] \in 1..queue[j] /\ \A n \in 1..queue'[j] : n \in 1..queue[j] /\ n # queue[j]
    BY <2>1
  <2>3. \A v \in Workers : cur'[v] = j => v = w \/ cur[v] = j
    BY <1>1 DEF TypeOK, CurOK
  <2>4. Carriers(j)' \subseteq (Carriers(j) \ {<<"entry", queue[j]>>}) \cup {<<"loop", w>>}
    BY <1>2, <2>2, <2>3 DEF Carriers
  <2>5. <<"entry", queue[j]>> \in Carriers(j) /\ <<"entry", queue[j]>> \notin Leaving(j)
    BY <2>2, IsCarrier DEF Leaving
  <2> QED BY <1>2, <2>4, <2>5, PassesOnce
<1>4. CASE j # k
  <2>1. queue'[j] = queue[j] /\ \A v \in Workers : cur'[v] = j => cur[v] = j
    BY <1>1, <1>4 DEF TypeOK, CurOK, CountsOK
  <2>2. Carriers(j)' \subseteq Carriers(j)
    BY <1>2, <2>1, AddsNone
  <2> QED BY <1>2, <2>2, LoopKeepsOnce
<1> QED BY <1>3, <1>4

LEMMA EnqueueOnce ==
  ASSUME TypeOK, TypeOK', [Next]_vars, NEW w \in Workers, EnqueueReleased(w), ListsApart,
         NEW j \in Jobs, OnceFor(j)
  PROVE  OnceFor(j)'
<1>1. PICK k \in local[w].jobs : /\ queue' = [queue EXCEPT ![k] = @ + 1]
                                 /\ local' = [local EXCEPT ![w].jobs = @ \ {k}]
  BY DEF EnqueueReleased, Enqueue
<1>2. /\ UNCHANGED <<cur, request, retry, unscheduled, resumed, blocked, status>>
      /\ WorkerStep(w) /\ ~MarkJobFailed(w) /\ ~MarkJobInterrupted(w)
  BY DEF EnqueueReleased, WorkerStep, SettleJob, MarkJobFailed, MarkJobInterrupted
<1>3. \A v \in Workers : /\ local'[v].skip = local[v].skip
                         /\ local'[v].jobs = local[v].jobs \ (IF v = w THEN {k} ELSE {})
  BY <1>1 DEF TypeOK, LocalOK, Locals
<1>4. CASE j = k
  <2>1. queue[j] \in Nat /\ queue'[j] = queue[j] + 1
    BY <1>1, <1>4 DEF TypeOK, CountsOK
  <2>2. \A n \in 1..queue'[j] : n \in 1..queue[j] \/ n = queue[j] + 1
    BY <2>1
  <2>3. j \notin local'[w].jobs \cup local'[w].skip
    BY <1>1, <1>3, <1>4 DEF ListsApart
  <2>4. Carriers(j)' \subseteq (Carriers(j) \ {<<"list", w>>}) \cup {<<"entry", queue[j] + 1>>}
    BY <1>2, <1>3, <2>2, <2>3 DEF Carriers
  <2>5. <<"list", w>> \in Carriers(j) /\ <<"list", w>> \notin Leaving(j)
    BY <1>1, <1>4, IsCarrier DEF Leaving
  <2> QED BY <1>2, <2>4, <2>5, PassesOnce
<1>5. CASE j # k
  <2>1. queue'[j] = queue[j]
    BY <1>1, <1>5 DEF TypeOK, CountsOK
  <2>2. Carriers(j)' \subseteq Carriers(j)
    BY <1>2, <1>3, <2>1, AddsNone
  <2> QED BY <1>2, <2>2, LoopKeepsOnce
<1> QED BY <1>4, <1>5

LEMMA ResolveOnce ==
  ASSUME TypeOK, TypeOK', [Next]_vars, NEW w \in Workers, ResolveDependents(w),
         NEW j \in Jobs, OnceFor(j)
  PROVE  OnceFor(j)'
<1>1. PICK u \in local[w].resolve :
        /\ blocked' = [k \in Jobs |-> blocked[k] /\ k \notin Released(u)]
        /\ \E skipped \in SUBSET (Released(u) \cap Conditional) :
            local' = [local EXCEPT ![w].resolve = @ \ {u}, ![w].skip = @ \cup skipped,
                                   ![w].jobs = @ \cup (Released(u) \ skipped)]
  BY DEF ResolveDependents
<1>2. /\ UNCHANGED <<cur, queue, request, retry, unscheduled, resumed, status>>
      /\ WorkerStep(w) /\ ~MarkJobFailed(w) /\ ~MarkJobInterrupted(w)
  BY DEF ResolveDependents, WorkerStep, SettleJob, MarkJobFailed, MarkJobInterrupted
<1>3. \A v \in Workers : j \in local'[v].jobs \cup local'[v].skip =>
         j \in local[v].jobs \cup local[v].skip \/ (v = w /\ j \in Released(u))
  BY <1>1 DEF TypeOK, LocalOK, Locals
<1>4. CASE j \in Released(u)
  <2>1. blocked[j] /\ ~blocked'[j] /\ status[j] = "queued"
    BY <1>1, <1>4 DEF Released, WaitingFor
  <2>2. Carriers(j) = {} /\ "armed" \notin retry[j]
    BY <2>1 DEF OnceFor, Idle
  <2>3. Carriers(j)' \subseteq (Carriers(j) \ {}) \cup {<<"list", w>>}
    BY <1>2, <1>3 DEF Carriers
  <2> QED BY <1>2, <2>1, <2>2, <2>3, BeginsOnce
<1>5. CASE j \notin Released(u)
  <2>1. Carriers(j)' \subseteq Carriers(j)
    BY <1>2, <1>3, <1>5, AddsNone
  <2> QED BY <1>2, <2>1, LoopKeepsOnce
<1> QED BY <1>4, <1>5

LEMMA LoopHandsOnce ==
  ASSUME TypeOK, TypeOK', [Next]_vars, HandedOnce, NEW w \in Workers, WorkerStep(w), NEW j \in Jobs
  PROVE  OnceFor(j)'
<1>1. OnceFor(j) /\ ListsApart
  BY OnceForEach
<1>2. CASE Dequeue(w)
  BY <1>1, <1>2, DequeueOnce
<1>3. CASE ResolveDependents(w)
  BY <1>1, <1>3, ResolveOnce
<1>4. CASE EnqueueReleased(w)
  BY <1>1, <1>4, EnqueueOnce
<1>5. CASE MarkJobFailed(w) /\ j = cur[w]
  BY <1>1, <1>5, FailsOnce
<1>6. CASE MarkJobInterrupted(w) /\ j = cur[w]
  BY <1>1, <1>6, InterruptsOnce
<1>7. CASE /\ LoopMemory(w) /\ LoopFrame(w) /\ ~(MarkJobFailed(w) /\ j = cur[w])
           /\ ~(MarkJobInterrupted(w) /\ j = cur[w])
  BY <1>1, <1>7, LoopAddsNone, LoopKeepsOnce
<1> QED BY <1>2, <1>3, <1>4, <1>5, <1>6, <1>7, LoopCases

\* Outside the loops: createRun and the start-up pass a job on, a retry timer and the
\* start-up take up one that nobody has.
LEMMA ScheduleOnce ==
  ASSUME TypeOK, NEW k \in Jobs, ScheduleJob(k), NEW j \in Jobs, OnceFor(j)
  PROVE  OnceFor(j)'
<1>1. /\ k \in unscheduled /\ unscheduled' = unscheduled \ {k}
      /\ queue' = [queue EXCEPT ![k] = @ + 1]
      /\ UNCHANGED <<cur, pc, local, request, retry, resumed, blocked, status>>
  BY DEF ScheduleJob, Enqueue
<1>2. CASE j = k
  <2>1. queue[j] \in Nat /\ queue'[j] = queue[j] + 1
    BY <1>1, <1>2 DEF TypeOK, CountsOK
  <2>2. \A n \in 1..queue'[j] : n \in 1..queue[j] \/ n = queue[j] + 1
    BY <2>1
  <2>3. Carriers(j)' \subseteq (Carriers(j) \ {<<"createRun", j>>})
                               \cup {<<"entry", queue[j] + 1>>}
    BY <1>1, <1>2, <2>2 DEF Carriers
  <2>4. <<"createRun", j>> \in Carriers(j) /\ <<"createRun", j>> \notin Leaving(j)
    BY <1>1, <1>2, IsCarrier DEF Leaving
  <2> QED BY <1>1, <2>3, <2>4, PassesOnce
<1>3. CASE j # k
  <2>1. queue'[j] = queue[j]
    BY <1>1, <1>3 DEF TypeOK, CountsOK
  <2>2. Carriers(j)' \subseteq Carriers(j)
    BY <1>1, <2>1, AddsNone
  <2>3. Leaving(j)' = Leaving(j)
    BY <1>1 DEF Leaving
  <2> QED BY <1>1, <2>2, <2>3, KeepsOnce DEF OnceFor
<1> QED BY <1>2, <1>3

LEMMA RetryOnce ==
  ASSUME TypeOK, NEW k \in Jobs, RetryStep(k), NEW j \in Jobs, OnceFor(j)
  PROVE  OnceFor(j)'
<1>1. UNCHANGED <<cur, pc, local, request, unscheduled, resumed, blocked>>
  BY DEF RetryStep, RetryRequeue, RetryEnqueue
<1>2. Leaving(j)' = Leaving(j)
  BY <1>1 DEF Leaving
<1>3. CASE j # k
  <2>1. queue'[j] = queue[j] /\ retry'[j] = retry[j] /\ status'[j] = status[j]
    BY <1>3 DEF RetryStep, RetryRequeue, RetryEnqueue, Enqueue, TypeOK, CountsOK, RetryOK,
                StatusOK
  <2>2. Carriers(j)' \subseteq Carriers(j)
    BY <1>1, <2>1, AddsNone
  <2> QED BY <1>1, <1>2, <2>1, <2>2, KeepsOnce DEF OnceFor
<1>4. CASE RetryRequeue(k) /\ j = k
  <2>1. /\ "armed" \in retry[j] /\ "armed" \notin retry'[j] /\ UNCHANGED queue
        /\ "requeued" \in retry'[j] => status'[j] = "queued" \/ "requeued" \in retry[j]
        /\ status'[j] = "queued"
    BY <1>4 DEF RetryRequeue, TypeOK, RetryOK, StatusOK, OnceFor, JobLegal, JobTransitions
  <2>2. Leaving(j) = {}
    BY <1>4 DEF RetryRequeue, Leaving
  <2>3. Carriers(j) = {} /\ ~blocked[j]
    BY <2>1, <2>2 DEF OnceFor, Idle
  <2>4. Carriers(j)' \subseteq Carriers(j) \cup {<<"retry", j>>}
    BY <1>1, <2>1 DEF Carriers
  <2> QED BY <1>1, <2>1, <2>3, <2>4, BeginsOnce
<1>5. CASE RetryEnqueue(k) /\ j = k
  <2>1. /\ "requeued" \in retry[j] /\ retry'[j] = retry[j] \ {"requeued"}
        /\ UNCHANGED status
    BY <1>5 DEF RetryEnqueue, TypeOK, RetryOK
  <2>2. <<"retry", j>> \in Carriers(j) /\ <<"retry", j>> \notin Leaving(j)
    BY <2>1, IsCarrier DEF Leaving
  <2>3. queue[j] \in Nat /\ queue'[j] = queue[j] + 1
    <3>1. ~blocked[j]
      BY <2>2 DEF OnceFor, Idle
    <3> QED BY <1>5, <3>1 DEF RetryEnqueue, Enqueue, TypeOK, CountsOK
  <2>4. \A n \in 1..queue'[j] : n \in 1..queue[j] \/ n = queue[j] + 1
    BY <2>3
  <2>5. Carriers(j)' \subseteq (Carriers(j) \ {<<"retry", j>>})
                               \cup {<<"entry", queue[j] + 1>>}
    BY <1>1, <2>1, <2>4 DEF Carriers
  <2> QED BY <1>1, <2>1, <2>2, <2>5, PassesOnce
<1> QED BY <1>3, <1>4, <1>5 DEF RetryStep

LEMMA ResumeOnce ==
  ASSUME TypeOK, SweepIsExact, NEW k \in Jobs, ResumeInterrupted(k), NEW j \in Jobs, OnceFor(j)
  PROVE  OnceFor(j)'
<1>1. UNCHANGED <<cur, pc, local, queue, request, retry, unscheduled, blocked>>
  BY DEF ResumeInterrupted
<1>2. status[k] = "interrupted" /\ status' = [status EXCEPT ![k] = "queued"]
      /\ resumed' = resumed \cup {k}
  BY DEF ResumeInterrupted, SweepIsExact, JobLegal, JobTransitions
<1>3. CASE j = k
  <2>1. Carriers(j) = {} /\ "armed" \notin retry[j] /\ ~blocked[j] /\ status'[j] = "queued"
    BY <1>2, <1>3 DEF OnceFor, Idle, TypeOK, StatusOK
  <2>2. Carriers(j)' \subseteq Carriers(j) \cup {<<"resume", j>>}
    BY <1>1, <1>2, <1>3 DEF Carriers
  <2> QED BY <1>1, <2>1, <2>2, BeginsOnce
<1>4. CASE j # k
  <2>1. status'[j] = status[j] /\ (j \in resumed' => j \in resumed)
    BY <1>2, <1>4 DEF TypeOK, StatusOK
  <2>2. Carriers(j)' \subseteq Carriers(j)
    BY <1>1, <2>1, AddsNone
  <2>3. Leaving(j)' = Leaving(j)
    BY <1>1 DEF Leaving
  <2> QED BY <1>1, <2>1, <2>2, <2>3, KeepsOnce DEF OnceFor
<1> QED BY <1>3, <1>4

LEMMA EnqueueResumedOnce ==
  ASSUME TypeOK, NEW k \in Jobs, EnqueueResumed(k), NEW j \in Jobs, OnceFor(j)
  PROVE  OnceFor(j)'
<1>1. /\ UNCHANGED <<cur, pc, local, request, retry, unscheduled, blocked, status>>
      /\ k \in resumed /\ resumed' = resumed \ {k}
  BY DEF EnqueueResumed
<1>2. Leaving(j)' = Leaving(j)
  BY <1>1 DEF Leaving
<1>3. CASE j = k
  <2>1. <<"resume", j>> \in Carriers(j) /\ <<"resume", j>> \notin Leaving(j)
    BY <1>1, <1>3, IsCarrier DEF Leaving
  <2>2. queue[j] \in Nat /\ queue'[j] = queue[j] + 1
    <3>1. ~blocked[j]
      BY <2>1 DEF OnceFor, Idle
    <3> QED BY <1>3, <3>1 DEF EnqueueResumed, Enqueue, TypeOK, CountsOK
  <2>3. \A n \in 1..queue'[j] : n \in 1..queue[j] \/ n = queue[j] + 1
    BY <2>2
  <2>4. Carriers(j)' \subseteq (Carriers(j) \ {<<"resume", j>>})
                               \cup {<<"entry", queue[j] + 1>>}
    BY <1>1, <1>3, <2>3 DEF Carriers
  <2> QED BY <1>1, <2>1, <2>4, PassesOnce
<1>4. CASE j # k
  <2>1. queue'[j] = queue[j]
    BY <1>4 DEF EnqueueResumed, Enqueue, TypeOK, CountsOK
  <2>2. Carriers(j)' \subseteq Carriers(j)
    BY <1>1, <2>1, AddsNone
  <2> QED BY <1>1, <1>2, <2>2, KeepsOnce DEF OnceFor
<1> QED BY <1>3, <1>4

\* Everything else hands nothing out.
LEMMA RestKeepsOnce ==
  ASSUME TypeOK, NobodyAsks, [Next]_vars, \A w \in Workers : ~WorkerStep(w),
         \A k \in Jobs : ~ScheduleJob(k) /\ ~RetryStep(k) /\ ~ResumeInterrupted(k)
                         /\ ~EnqueueResumed(k),
         NEW j \in Jobs, OnceFor(j)
  PROVE  OnceFor(j)'
<1>1. CASE Crash \/ Exit
  <2>1. /\ UNCHANGED <<queue, resumed, blocked, status>> /\ retry' = [i \in Jobs |-> {}]
        /\ cur' = [w \in Workers |-> None] /\ local' = [w \in Workers |-> NoLocal]
        /\ request' = [c \in Clients |-> NoRequest] /\ unscheduled' = {}
    BY <1>1, NoneIsNoJob DEF Crash, Exit, ProcessDies, KeyToJobId, TypeOK, StatusOK
  <2>2. Carriers(j)' \subseteq Carriers(j)
    BY <2>1, NoneIsNoJob, AddsNone DEF NoLocal, NoRequest
  <2> QED BY <2>1, <2>2, KeepsOnce
<1>2. CASE ~Crash /\ ~Exit
  <2>1. \A c \in Clients : ~CheckApproval(c) /\ ~FinishRequest(c)
    BY DEF NobodyAsks, CheckApproval, FinishRequest, ResolveApproval, EnqueueApproved
  <2>2. /\ UNCHANGED <<queue, cur, pc, local, request, retry, unscheduled, blocked>>
        /\ resumed' \subseteq resumed
        /\ status'[j] \in {"failed", status[j]}
    BY <1>2, <2>1
       DEF Next, vars, CancelRun, Stop, StrayLaunch, StartUpDies, StartUp, Restart, CheckSwept,
           FinalizeSwept, Ready, FailAbandonedStep, FailAbandonedJob, AbortStartUp, BeginCleanup,
           BeginResume, TypeOK, StatusOK
  <2>3. Carriers(j)' \subseteq Carriers(j)
    BY <2>2, AddsNone
  <2>4. Leaving(j)' = Leaving(j)
    BY <2>2 DEF Leaving
  <2> QED BY <2>2, <2>3, <2>4, KeepsOnce DEF OnceFor
<1> QED BY <1>1, <1>2

LEMMA HandedOnceInit == Init => HandedOnce
<1> SUFFICES ASSUME Init PROVE HandedOnce
  OBVIOUS
<1>1. NobodyAsks /\ ListsApart /\ SweepIsExact
  <2>1. \A j \in Jobs : step[j] = [i \in 1..Len(Plan[j]) |-> "queued"]
    BY DEF Init
  <2> QED BY <2>1 DEF Init, NobodyAsks, ListsApart, SweepIsExact, NoLocal, NoRequest
<1>2. ASSUME NEW j \in Jobs PROVE OnceFor(j)
  <2>1. 1..queue[j] = {}
    <3>1. queue[j] = 0
      BY DEF Init
    <3> QED BY <3>1
  <2>2. Carriers(j) = {<<"createRun", k>> : k \in {j} \cap unscheduled}
    BY <2>1, NoneIsNoJob DEF Init, Carriers, NoLocal, NoRequest
  <2>3. /\ blocked[j] => Needs[j] # {} /\ j \notin unscheduled
        /\ status[j] = "queued" /\ retry[j] = {}
    BY DEF Init, Scheduled
  <2> QED BY <2>2, <2>3 DEF OnceFor, Idle
<1> QED BY <1>1, <1>2, OnceForEach

LEMMA HandedOnceNext ==
  ASSUME NoApprovals, TypeOK, ProgressIsTrue, HandedOnce, [Next]_vars
  PROVE  HandedOnce'
<1>1. TypeOK' /\ NobodyAsks' /\ ListsApart'
  BY NextTyped, NobodyAsksNext, ListsNext DEF HandedOnce
<1>2. SweepIsExact'
  BY SweepNext DEF HandedOnce
<1>3. /\ NobodyAsks /\ SweepIsExact /\ \A j \in Jobs : OnceFor(j)
  BY OnceForEach
<1>4. ASSUME NEW j \in Jobs PROVE OnceFor(j)'
  <2>1. CASE \E w \in Workers : WorkerStep(w)
    BY <1>1, <2>1, LoopHandsOnce
  <2>2. CASE \E k \in Jobs : ScheduleJob(k) \/ RetryStep(k) \/ ResumeInterrupted(k) \/ EnqueueResumed(k)
    BY <1>3, <2>2, ScheduleOnce, RetryOnce, ResumeOnce, EnqueueResumedOnce
  <2>3. CASE /\ \A w \in Workers : ~WorkerStep(w)
             /\ \A k \in Jobs : ~ScheduleJob(k) /\ ~RetryStep(k) /\ ~ResumeInterrupted(k)
                                /\ ~EnqueueResumed(k)
    BY <1>3, <2>3, RestKeepsOnce
  <2> QED BY <2>1, <2>2, <2>3
<1>5. (\A j \in Jobs : OnceFor(j))'
  BY <1>4
<1>6. HandedOnce' <=> /\ NobodyAsks' /\ ListsApart' /\ SweepIsExact'
                      /\ (\A j \in Jobs : OnceFor(j))'
  BY DEF HandedOnce, NoDuplicateEntry, TimersAlone, IdleAreIdle, OnceFor
<1> QED BY <1>1, <1>2, <1>5, <1>6

(***************************************************************************)
(* While the daemon runs no job is forgotten                               *)
(***************************************************************************)
\* What is left of Next when nothing dies and nobody asks.
LEMMA GentleCases ==
  ASSUME Gentle, NobodyAsks, NoneForgotten, [Next]_vars
  PROVE  /\ \/ \E w \in Workers : WorkerStep(w)
            \/ \E j \in Jobs : ScheduleJob(j) \/ RetryStep(j)
            \/ CancelRun \/ UNCHANGED vars
         /\ \A w \in Workers : ~JobSecretsFail(w) /\ ~StepSecretsFail(w) /\ ~EnqueueReleasedFails(w)
  BY DEF Next, Gentle, NobodyAsks, NoneForgotten, CheckApproval, FinishRequest,
         ResolveApproval,
         EnqueueApproved, Crash, Stop, Exit, StartUp, StrayLaunch, StartUpDies, Restart,
         CheckSwept, FinalizeSwept, Ready, FailAbandonedStep, FailAbandonedJob,
         ResumeInterrupted, EnqueueResumed, JobSecretsFail, StepSecretsFail,
         EnqueueReleasedFails

LEMMA DaemonStays ==
  ASSUME TypeOK, Gentle, NobodyAsks, NoneForgotten, [Next]_vars
  PROVE  daemon' = "up" /\ startup' = "off" /\ resumed' = {}
<1>1. UNCHANGED <<daemon, startup, resumed>>
  BY GentleCases, LoopCases
     DEF LoopFrame, Dequeue, ResolveDependents, EnqueueReleased, vars, ScheduleJob, RetryStep,
         RetryRequeue, RetryEnqueue, CancelRun
<1> QED BY <1>1 DEF NoneForgotten

\* A run that is over stays over.
LEMMA OverIsOver ==
  ASSUME TypeOK, Gentle, NobodyAsks, NoneForgotten, [Next]_vars, run \in RunTerminal
  PROVE  run' \in RunTerminal
<1>1. ASSUME NEW w \in Workers, WorkerStep(w) PROVE run' = run
  <2>1. run' # run => RunLegal(run, run')
    BY <1>1, LoopCases DEF LoopFrame, Dequeue, ResolveDependents, EnqueueReleased
  <2> QED BY <2>1 DEF RunLegal, RunTerminal
<1> QED BY <1>1, GentleCases
        DEF vars, ScheduleJob, RetryStep, RetryRequeue, RetryEnqueue, CancelRun

\* Whose status a loop may change: the job it has begun, one it skips, one still blocked.
LEMMA StatusOwner ==
  ASSUME TypeOK, NEW w \in Workers, WorkerStep(w), NEW j \in Jobs, status'[j] # status[j]
  PROVE  \/ cur[w] = j
         \/ j \in local[w].skip /\ SkipJob(w)
         \/ blocked[j] /\ CancelDownstream(w)
<1> USE DEF TypeOK, StatusOK
<1>1. CASE PickUp(w)
  BY <1>1 DEF PickUp, Dequeue, ReadRun, Claim, MarkJobRunning, JobSecretsFail, PromoteRun,
              Provision, ProvisionFails
<1>2. CASE RunStep(w)
  BY <1>2 DEF RunStep, SkipSettled, StopOnCancel, AbortOnTerminal, Proceed,
              StepSecretsFail,
              MarkStepStarted, ExecuteStep, MarkStepCompleted, MarkStepFailed, ParkForApproval,
              Leave, MarkJobInterrupted
<1>3. CASE SkipJob(w)
  BY <1>3 DEF SkipJob
<1>4. CASE CancelDownstream(w)
  BY <1>4 DEF CancelDownstream, Doomed
<1>5. CASE SettleJob(w) /\ ~SkipJob(w) /\ ~CancelDownstream(w)
  BY <1>5 DEF SettleJob, MarkJobSucceeded, ResolveDependents, DependentsResolved,
              CheckRun,
              RunSucceeds, RunFails, FinalizeRun, EnqueueReleased, JobDone, MarkJobFailed,
              EnqueueReleasedFails
<1> QED BY <1>1, <1>2, <1>3, <1>4, <1>5 DEF WorkerStep

\* So nobody else has that job, nor has the owner's list once it is skipped.
LEMMA OwnerIsAlone ==
  ASSUME TypeOK, HandedOnce, NEW w \in Workers, WorkerStep(w), NEW j \in Jobs,
         status'[j] # status[j]
  PROVE  /\ queue[j] = 0 /\ "requeued" \notin retry[j] /\ j \notin unscheduled
         /\ \A v \in Workers : cur[v] = j => v = w
         /\ \A v \in Workers : j \in local[v].jobs \cup local[v].skip =>
               v = w /\ cur[w] # j /\ SkipJob(w) /\ j \notin local[w].jobs
<1>1. queue[j] \in Nat
  BY DEF TypeOK, CountsOK
<1>2. queue[j] # 0 => <<"entry", 1>> \in Carriers(j)
  <2>1. queue[j] # 0 => 1 \in 1..queue[j]
    BY <1>1
  <2> QED BY <2>1, IsCarrier
<1>3. \A x, y \in Carriers(j) : x = y
  BY DEF HandedOnce, NoDuplicateEntry
<1>4. CASE cur[w] = j
  <2>1. <<"loop", w>> \in Carriers(j)
    BY <1>4, IsCarrier
  <2>2. \A x \in Carriers(j) : x = <<"loop", w>>
    BY <1>3, <2>1
  <2> QED BY <1>2, <2>2, IsCarrier
<1>5. CASE j \in local[w].skip /\ SkipJob(w)
  <2>1. <<"list", w>> \in Carriers(j)
    BY <1>5, IsCarrier
  <2>2. \A x \in Carriers(j) : x = <<"list", w>>
    BY <1>3, <2>1
  <2>3. j \notin local[w].jobs
    BY <1>5 DEF HandedOnce, ListsApart
  <2> QED BY <1>2, <1>5, <2>2, <2>3, IsCarrier
<1>6. CASE blocked[j]
  <2>1. Carriers(j) = {}
    BY <1>6 DEF HandedOnce, IdleAreIdle, Idle
  <2> QED BY <1>2, <2>1, IsCarrier
<1> QED BY <1>4, <1>5, <1>6, StatusOwner

\* The course of one loop when nothing fails but a workspace.
Begun(w) == pc[w] # "idle" /\ ~NotBegun(w)
Mine(w) == local[w].jobs \cup local[w].skip
EndOf(w) ==
    /\ pc[w] = "fail" => local[w].outcome \in {"failed", "unprovisioned"}
    /\ pc[w] = "resolve" => local[w].outcome = "completed"
    /\ pc[w] \in Settling /\ local[w].outcome = "completed" => local[w].skip = {}
    /\ \/ Mine(w) = {}
       \/ pc[w] \in Settling \cup {"resolve"} /\ local[w].outcome = "completed"
       \/ run \in RunTerminal
RunningAt(w) == \/ pc[w] \in {"promote", "provision"}
                \/ pc[w] = "fail" /\ local[w].outcome = "unprovisioned"
Looks(w) == /\ pc[w] \in {"dequeued", "read"} /\ pc'[w] \in {"read", "claimed"}
            /\ cur'[w] = cur[w] /\ UNCHANGED <<run, status, queue>>
            /\ local'[w].jobs = local[w].jobs /\ local'[w].skip = local[w].skip
            /\ \/ UNCHANGED claimed
               \/ pc'[w] = "claimed" /\ claimed' = claimed \cup {cur[w]}
Yields(w) == /\ pc[w] = "read" /\ cur[w] \in claimed
             /\ Drop(w) /\ UNCHANGED <<run, status, queue, claimed>>
Starts(w) == /\ pc[w] = "claimed" /\ pc'[w] = "promote" /\ cur'[w] = cur[w]
             /\ status'[cur[w]] = "running"
             /\ UNCHANGED <<run, local, queue, claimed>>
Leaves(w) == /\ Begun(w) /\ Drop(w) /\ UNCHANGED queue
             /\ claimed' = claimed \ {cur[w]} \/ (claimed' = claimed /\ run \in RunTerminal)
             /\ Mine(w) = {} \/ run \in RunTerminal
GoesOn(w) == /\ Begun(w) /\ pc'[w] # "idle" /\ pc'[w] \notin {"dequeued", "read", "claimed"}
             /\ cur'[w] = cur[w] /\ UNCHANGED claimed
             /\ \/ pc'[w] \in {"promote", "provision"}
                \/ pc'[w] = "fail" /\ local'[w].outcome = "unprovisioned"
                => status[cur[w]] = "running" /\ UNCHANGED status
             /\ \A j \in local'[w].jobs \cup local'[w].skip :
                   j \in Mine(w) \/ (status[j] = "queued" /\ blocked[j])
             /\ \A j \in Mine(w) : \/ j \in local'[w].jobs \cup local'[w].skip
                                   \/ queue'[j] > 0
                                   \/ status'[j] # "queued"
             /\ \A j \in Jobs : queue'[j] = queue[j] \/ (j \in Mine(w) /\ queue'[j] = queue[j] + 1)

LEMMA PickUpCourse ==
  ASSUME TypeOK, NoneForgotten, NEW w \in Workers, PickUp(w), ~Dequeue(w), ~JobSecretsFail(w)
  PROVE  (Looks(w) \/ Yields(w) \/ Starts(w) \/ GoesOn(w)) /\ EndOf(w)'
<1> USE DEF TypeOK, PcOK, CurOK, LocalOK, Locals, Move, Drop, Settling, CountsOK
<1>0. EndOf(w) /\ cur[w] \in Jobs
      /\ (pc[w] \in {"dequeued", "read", "claimed"} => status[cur[w]] = "queued")
      /\ (pc[w] \in {"promote", "provision"} => status[cur[w]] = "running")
  BY DEF NoneForgotten, ListsEnd, EndOf, Mine, PickUp, Dequeue, ReadRun, Claim,
         MarkJobRunning,
         JobSecretsFail, PromoteRun, Provision, ProvisionFails, BegunOrQueued, NotBegun
<1>1. CASE ReadRun(w)
  BY <1>0, <1>1 DEF ReadRun, Looks, EndOf, Mine
<1>2. CASE Claim(w)
  <2>1. CASE cur[w] \in claimed
    <3>1. Yields(w) /\ pc'[w] = "idle" /\ local'[w] = NoLocal
      BY <1>2, <2>1 DEF Claim, Yields
    <3> QED BY <3>1 DEF EndOf, Mine, NoLocal
  <2>2. CASE cur[w] \notin claimed
    BY <1>0, <1>2, <2>2 DEF Claim, Looks, EndOf, Mine
  <2> QED BY <2>1, <2>2
<1>3. CASE MarkJobRunning(w)
  <2>1. JobLegal(status[cur[w]], "running")
    BY <1>0, <1>3 DEF MarkJobRunning, JobLegal, JobTransitions
  <2> QED BY <1>0, <1>3, <2>1 DEF MarkJobRunning, Starts, EndOf, Mine, StatusOK
<1>4. CASE PromoteRun(w)
  <2>1. run \in RunTerminal => run' = run
    <3>1. "queued" \notin RunTerminal
      BY DEF RunTerminal, RunTransitions
    <3> QED BY <1>4, <3>1 DEF PromoteRun
  <2> QED BY <1>0, <1>4, <2>1 DEF PromoteRun, GoesOn, Begun, NotBegun, EndOf, Mine
<1>5. CASE Provision(w)
  BY <1>0, <1>5 DEF Provision, GoesOn, Begun, NotBegun, EndOf, Mine
<1>6. CASE ProvisionFails(w)
  BY <1>0, <1>6 DEF ProvisionFails, GoesOn, Begun, NotBegun, EndOf, Mine
<1> QED BY <1>1, <1>2, <1>3, <1>4, <1>5, <1>6 DEF PickUp

LEMMA RunStepCourse ==
  ASSUME TypeOK, NoneForgotten, NEW w \in Workers, RunStep(w), ~StepSecretsFail(w)
  PROVE  (Leaves(w) \/ GoesOn(w)) /\ EndOf(w)'
<1> USE DEF TypeOK, PcOK, CurOK, LocalOK, Locals, Move, Settling, CountsOK, GoesOn, Begun,
            NotBegun, EndOf, Mine
<1>0. EndOf(w) /\ cur[w] \in Jobs
  BY DEF NoneForgotten, ListsEnd, RunStep, SkipSettled, StopOnCancel, AbortOnTerminal,
         Proceed,
              StepSecretsFail, AtStep,
              MarkStepStarted, ExecuteStep, MarkStepCompleted, MarkStepFailed, ParkForApproval,
              Leave, MarkJobInterrupted
<1>1. ASSUME Release(w), Begun(w), pc[w] \notin Settling \cup {"resolve"}, UNCHANGED <<run, queue>>
      PROVE  Leaves(w) /\ EndOf(w)'
  <2>1. pc'[w] = "idle" /\ local'[w] = NoLocal
    BY <1>1 DEF Release, Drop
  <2>2. Leaves(w)
    BY <1>0, <1>1 DEF Release, Leaves
  <2> QED BY <2>1, <2>2 DEF NoLocal
<1>2. ASSUME Throw(w), Begun(w), pc[w] \notin Settling \cup {"resolve"},
             UNCHANGED <<run, queue, cur, claimed>>
      PROVE  GoesOn(w) /\ EndOf(w)'
  BY <1>0, <1>2 DEF Throw
<1>3. ASSUME Advance(w), pc[w] \in {"loop", "complete step", "fail step"},
             pc'[w] = "loop", UNCHANGED <<run, queue, cur, claimed>>
      PROVE  GoesOn(w) /\ EndOf(w)'
  BY <1>0, <1>3 DEF Advance
<1>4. ASSUME UNCHANGED <<run, queue, cur, claimed, local>>, Begun(w),
             pc[w] \notin Settling \cup {"resolve"},
             pc'[w] \in {"interrupt", "start", "complete step", "park", "execute", "fail step",
                        "leave"}
      PROVE  GoesOn(w) /\ EndOf(w)'
  BY <1>0, <1>4
<1>5. CASE SkipSettled(w)
  BY <1>3, <1>5 DEF SkipSettled, AtStep
<1>6. CASE StopOnCancel(w)
  BY <1>4, <1>6 DEF StopOnCancel, AtStep
<1>7. CASE AbortOnTerminal(w)
  BY <1>1, <1>7 DEF AbortOnTerminal, AtStep
<1>8. CASE Proceed(w)
  BY <1>1, <1>4, <1>8 DEF Proceed, AtStep
<1>9. CASE MarkStepStarted(w)
  BY <1>2, <1>4, <1>9 DEF MarkStepStarted
<1>10. CASE ExecuteStep(w)
  BY <1>4, <1>10 DEF ExecuteStep
<1>11. CASE MarkStepCompleted(w)
  BY <1>2, <1>3, <1>11 DEF MarkStepCompleted
<1>12. CASE MarkStepFailed(w)
  BY <1>2, <1>3, <1>12 DEF MarkStepFailed
<1>13. CASE ParkForApproval(w)
  BY <1>2, <1>4, <1>13 DEF ParkForApproval
<1>14. CASE Leave(w)
  BY <1>1, <1>14 DEF Leave
<1>15. CASE MarkJobInterrupted(w)
  BY <1>1, <1>2, <1>15 DEF MarkJobInterrupted
<1> QED BY <1>5, <1>6, <1>7, <1>8, <1>9, <1>10, <1>11, <1>12, <1>13, <1>14, <1>15
           DEF RunStep

LEMMA SettleCourse ==
  ASSUME TypeOK, NoneForgotten, NEW w \in Workers, SettleJob(w), ~EnqueueReleasedFails(w)
  PROVE  (Leaves(w) \/ GoesOn(w)) /\ EndOf(w)'
<1> USE DEF TypeOK, PcOK, CurOK, LocalOK, Locals, Move, Settling, CountsOK, GoesOn, Begun,
            NotBegun, EndOf, Mine
<1>0. /\ EndOf(w) /\ cur[w] \in Jobs
      /\ local[w].jobs \subseteq Jobs /\ local[w].skip \subseteq Jobs
      /\ \A j \in local[w].jobs \cup local[w].skip : status[j] = "queued"
      /\ pc[w] = "fail" /\ local[w].outcome = "unprovisioned" => status[cur[w]] = "running"
  BY DEF NoneForgotten, ListsEnd, BegunOrQueued, SettleJob, MarkJobSucceeded,
         ResolveDependents,
         SkipJob, DependentsResolved, CheckRun, RunSucceeds, RunFails, EnqueueReleased,
         EnqueueReleasedFails, JobDone, MarkJobFailed, CancelDownstream
<1>1. ASSUME Release(w), Begun(w), Mine(w) = {} \/ run \in RunTerminal, UNCHANGED <<run, queue>>
      PROVE  Leaves(w) /\ EndOf(w)'
  <2>1. pc'[w] = "idle" /\ local'[w] = NoLocal
    BY <1>1 DEF Release, Drop
  <2>2. Leaves(w)
    BY <1>1 DEF Release, Leaves
  <2> QED BY <2>1, <2>2 DEF NoLocal
<1>2. ASSUME Throw(w), Begun(w), Mine(w) = {} \/ run \in RunTerminal,
             UNCHANGED <<run, queue, cur, claimed>>
      PROVE  GoesOn(w) /\ EndOf(w)'
  BY <1>2 DEF Throw
<1>3. CASE MarkJobSucceeded(w)
  <2>1. CASE JobLegal(status[cur[w]], "success")
    <3>1. /\ pc[w] = "loop" /\ pc'[w] = "resolve" /\ UNCHANGED <<run, queue, cur, claimed>>
          /\ local'[w].outcome = "completed"
          /\ local'[w].jobs = local[w].jobs /\ local'[w].skip = local[w].skip
      BY <1>3, <2>1 DEF MarkJobSucceeded
    <3> QED BY <1>0, <3>1
  <2>2. CASE ~JobLegal(status[cur[w]], "success")
    <3>1. pc[w] = "loop" /\ Throw(w) /\ UNCHANGED <<run, queue, cur, claimed>>
      BY <1>3, <2>2 DEF MarkJobSucceeded
    <3> QED BY <1>0, <1>2, <3>1
  <2> QED BY <2>1, <2>2
<1>4. CASE ResolveDependents(w)
  <2>1. PICK u \in local[w].resolve : \E skipped \in SUBSET (Released(u) \cap Conditional) :
          local' = [local EXCEPT ![w].resolve = @ \ {u}, ![w].skip = @ \cup skipped,
                                 ![w].jobs = @ \cup (Released(u) \ skipped)]
    BY <1>4 DEF ResolveDependents
  <2>2. /\ local'[w].jobs \cup local'[w].skip = Mine(w) \cup Released(u)
        /\ local'[w].outcome = local[w].outcome
    BY <2>1
  <2>3. \A j \in Released(u) : status[j] = "queued" /\ blocked[j]
    BY DEF Released, WaitingFor
  <2>4. pc[w] = "resolve" /\ UNCHANGED <<run, status, queue, pc, cur, claimed>>
    BY <1>4 DEF ResolveDependents
  <2> QED BY <1>0, <2>2, <2>3, <2>4
<1>5. CASE SkipJob(w)
  <2>1. PICK j \in local[w].skip :
          /\ status' = [status EXCEPT ![j] = "success"]
          /\ local' = [local EXCEPT ![w].skip = @ \ {j}, ![w].resolve = @ \cup {j}]
          /\ UNCHANGED pc
    <3>1. JobLegal("queued", "success")
      BY DEF JobLegal, JobTransitions
    <3>2. \A j \in local[w].skip : JobLegal(status[j], "success")
      BY <1>0, <3>1
    <3> QED BY <1>5, <3>2 DEF SkipJob
  <2>2. /\ local'[w].jobs = local[w].jobs /\ local'[w].skip = local[w].skip \ {j}
        /\ local'[w].outcome = local[w].outcome /\ status'[j] = "success"
    BY <1>0, <2>1 DEF StatusOK
  <2>3. pc[w] = "resolve" /\ UNCHANGED <<run, queue, cur, claimed>>
    BY <1>5 DEF SkipJob
  <2> QED BY <1>0, <2>1, <2>2, <2>3
<1>6. CASE DependentsResolved(w)
  BY <1>0, <1>6 DEF DependentsResolved
<1>7. CASE CheckRun(w)
  BY <1>0, <1>7 DEF CheckRun, AfterCheck
<1>8. CASE RunSucceeds(w) \/ RunFails(w)
  <2>1. PICK verdict \in {"success", "failed"} : FinalizeRun(w, verdict)
    BY <1>8 DEF RunSucceeds, RunFails
  <2>2. pc[w] \in {"to success", "to failed"}
    BY <1>8 DEF RunSucceeds, RunFails
  <2>3. UNCHANGED <<status, queue>>
    BY <2>1 DEF FinalizeRun
  <2>4. CASE RunLegal(run, verdict)
    <3>1. pc' = [pc EXCEPT ![w] = AfterCheck(w)] /\ UNCHANGED <<cur, local, claimed>>
          /\ run' = verdict
      BY <2>1, <2>4 DEF FinalizeRun
    <3>2. verdict \in RunTerminal
      BY DEF RunTerminal, RunTransitions, RunState
    <3> QED BY <1>0, <2>2, <2>3, <3>1, <3>2 DEF AfterCheck
  <2>5. CASE ~RunLegal(run, verdict)
    <3>1. /\ UNCHANGED run
          /\ \/ Throw(w) /\ UNCHANGED <<cur, claimed>>
             \/ Release(w)
             \/ Drop(w) /\ UNCHANGED claimed
      BY <2>1, <2>5, Zenon DEF FinalizeRun
    <3>2. run \in RunTerminal
      BY <2>5 DEF RunLegal, RunTerminal, RunTransitions, RunState, StatusOK
    <3>3. CASE Throw(w) /\ UNCHANGED <<cur, claimed>>
      BY <1>2, <2>2, <2>3, <3>1, <3>2, <3>3
    <3>4. CASE Release(w)
      BY <1>1, <2>2, <2>3, <3>1, <3>2, <3>4
    <3>5. CASE Drop(w) /\ UNCHANGED claimed
      <4>1. pc'[w] = "idle" /\ local'[w] = NoLocal
        BY <3>5 DEF Drop
      <4>2. Leaves(w)
        BY <2>2, <2>3, <3>2, <3>5 DEF Leaves
      <4> QED BY <4>1, <4>2 DEF NoLocal
    <3> QED BY <3>1, <3>3, <3>4, <3>5
  <2> QED BY <2>4, <2>5
<1>9. CASE EnqueueReleased(w)
  <2>1. PICK j \in local[w].jobs : /\ queue' = [queue EXCEPT ![j] = @ + 1]
                                   /\ local' = [local EXCEPT ![w].jobs = @ \ {j}]
    BY <1>9 DEF EnqueueReleased, Enqueue
  <2>2. /\ local'[w].jobs = local[w].jobs \ {j} /\ local'[w].skip = local[w].skip
        /\ local'[w].outcome = local[w].outcome
        /\ j \in Jobs /\ queue[j] \in Nat /\ queue'[j] = queue[j] + 1
        /\ \A k \in Jobs \ {j} : queue'[k] = queue[k]
    BY <1>0, <2>1
  <2>3. queue'[j] > 0
    BY <2>2
  <2>4. pc[w] = "enqueue" /\ UNCHANGED <<run, status, pc, cur, claimed>>
    BY <1>9 DEF EnqueueReleased
  <2> QED BY <1>0, <2>2, <2>3, <2>4
<1>10. CASE JobDone(w)
  <2>1. Mine(w) = {} \/ run \in RunTerminal
    BY <1>0, <1>10 DEF JobDone
  <2> QED BY <1>1, <1>10, <2>1 DEF JobDone
<1>11. CASE MarkJobFailed(w)
  <2>1. Mine(w) = {} \/ run \in RunTerminal
    BY <1>0, <1>11 DEF MarkJobFailed
  <2>2. CASE JobLegal(status[cur[w]], "failed")
    <3>1. UNCHANGED <<run, queue, cur, claimed, local>> /\ pc[w] = "fail"
          /\ pc'[w] \in {"leave", "check"}
      BY <1>11, <2>2 DEF MarkJobFailed
    <3> QED BY <1>0, <2>1, <3>1
  <2>3. CASE ~JobLegal(status[cur[w]], "failed")
    <3>1. local[w].outcome = "failed"
      BY <1>0, <1>11, <2>3 DEF MarkJobFailed, JobLegal, JobTransitions
    <3>2. Release(w) /\ UNCHANGED <<run, queue>> /\ Begun(w)
      BY <1>11, <2>3, <3>1 DEF MarkJobFailed
    <3> QED BY <1>1, <2>1, <3>2
  <2> QED BY <2>2, <2>3
<1>12. CASE CancelDownstream(w)
  <2>1. Mine(w) = {} \/ run \in RunTerminal
    BY <1>0, <1>12 DEF CancelDownstream
  <2> QED BY <1>1, <1>12, <2>1 DEF CancelDownstream
<1> QED BY <1>3, <1>4, <1>5, <1>6, <1>7, <1>8, <1>9, <1>10, <1>11, <1>12
           DEF SettleJob

LEMMA LoopCourse ==
  ASSUME TypeOK, Gentle, NobodyAsks, NoneForgotten, [Next]_vars, NEW w \in Workers, WorkerStep(w)
  PROVE  \/ Dequeue(w)
         \/ (Looks(w) \/ Yields(w) \/ Starts(w) \/ Leaves(w) \/ GoesOn(w)) /\ EndOf(w)'
<1>1. ~JobSecretsFail(w) /\ ~StepSecretsFail(w) /\ ~EnqueueReleasedFails(w)
  BY GentleCases
<1> QED BY <1>1, PickUpCourse, RunStepCourse, SettleCourse DEF WorkerStep

\* Outside the loops: entries are added for queued jobs, and an armed timer re-queues its job.
LEMMA ElsewhereCourse ==
  ASSUME TypeOK, Gentle, HandedOnce, NoneForgotten, [Next]_vars, \A w \in Workers : ~WorkerStep(w)
  PROVE  /\ UNCHANGED <<pc, cur, local, claimed, blocked>>
         /\ \A j \in Jobs :
              /\ queue'[j] \in Nat /\ queue'[j] >= queue[j]
              /\ queue'[j] > queue[j] => j \in unscheduled \/ "requeued" \in retry[j]
              /\ "requeued" \in retry[j] => "requeued" \in retry'[j] \/ queue'[j] > 0 \/ blocked[j]
              /\ j \in unscheduled => j \in unscheduled' \/ queue'[j] > 0
              /\ j \in unscheduled' => j \in unscheduled
              /\ "requeued" \in retry'[j] => "requeued" \in retry[j] \/ status'[j] = "queued"
              /\ status'[j] # status[j] => /\ Carriers(j) = {} /\ status'[j] = "queued"
                                           /\ "requeued" \in retry'[j]
<1> USE DEF TypeOK, CountsOK, RetryOK, StatusOK
<1>0. NobodyAsks
  BY DEF HandedOnce
<1>1. ASSUME NEW k \in Jobs, ScheduleJob(k)
      PROVE  /\ UNCHANGED <<pc, cur, local, claimed, blocked, retry, status>>
             /\ k \in unscheduled /\ unscheduled' = unscheduled \ {k}
             /\ queue'[k] = queue[k] + 1 /\ \A j \in Jobs \ {k} : queue'[j] = queue[j]
  BY <1>1 DEF ScheduleJob, Enqueue
<1>2. ASSUME NEW k \in Jobs, RetryRequeue(k)
      PROVE  /\ UNCHANGED <<pc, cur, local, claimed, blocked, queue, unscheduled>>
             /\ \A j \in Jobs : "requeued" \in retry[j] => "requeued" \in retry'[j]
             /\ \A j \in Jobs \ {k} : retry'[j] = retry[j] /\ status'[j] = status[j]
             /\ status'[k] = "queued" /\ "requeued" \in retry'[k] /\ Carriers(k) = {}
  <2>1. "armed" \in retry[k] /\ status[k] = "failed" /\ Carriers(k) \subseteq Leaving(k)
    BY <1>2 DEF RetryRequeue, HandedOnce, TimersAlone
  <2>2. Leaving(k) = {}
    BY <1>2 DEF RetryRequeue, Leaving
  <2>3. JobLegal(status[k], "queued")
    BY <2>1 DEF JobLegal, JobTransitions
  <2> QED BY <1>2, <2>1, <2>2, <2>3 DEF RetryRequeue
<1>3. ASSUME NEW k \in Jobs, RetryEnqueue(k)
      PROVE  /\ UNCHANGED <<pc, cur, local, claimed, blocked, status, unscheduled>>
             /\ \A j \in Jobs : "requeued" \in retry'[j] => "requeued" \in retry[j]
             /\ \A j \in Jobs \ {k} : retry'[j] = retry[j] /\ queue'[j] = queue[j]
             /\ "requeued" \in retry[k]
             /\ queue'[k] = queue[k] + 1 \/ (queue'[k] = queue[k] /\ blocked[k])
  BY <1>3 DEF RetryEnqueue, Enqueue
<1>4. CASE \E k \in Jobs : ScheduleJob(k)
  BY <1>1, <1>4
<1>5. CASE \E k \in Jobs : RetryRequeue(k)
  BY <1>2, <1>5
<1>6. CASE \E k \in Jobs : RetryEnqueue(k)
  BY <1>3, <1>6
<1>7. CASE CancelRun \/ UNCHANGED vars
  BY <1>7 DEF CancelRun, vars
<1> QED BY <1>0, <1>4, <1>5, <1>6, <1>7, GentleCases DEF RetryStep

\* What the invariant says of one job, and of one loop.
QueuedJob(j) ==
    queue[j] > 0 \/ "requeued" \in retry[j] \/ j \in unscheduled => status[j] = "queued"
QueuedLoop(w) ==
    /\ NotBegun(w) => status[cur[w]] = "queued"
    /\ pc[w] # "idle" /\ ~NotBegun(w) => status[cur[w]] # "queued"
    /\ \A j \in local[w].jobs \cup local[w].skip : status[j] = "queued"
    /\ \/ pc[w] \in {"promote", "provision"}
       \/ pc[w] = "fail" /\ local[w].outcome = "unprovisioned"
       => status[cur[w]] = "running"

LEMMA BegunOfEach ==
  BegunOrQueued <=> (\A j \in Jobs : QueuedJob(j)) /\ (\A w \in Workers : QueuedLoop(w))
  BY DEF BegunOrQueued, QueuedJob, QueuedLoop

LEMMA LoopKeepsQueued ==
  ASSUME TypeOK, TypeOK', Gentle, HandedOnce, NoneForgotten, [Next]_vars, NEW w \in Workers, WorkerStep(w),
         NEW j \in Jobs
  PROVE  QueuedJob(j)'
<1>1. QueuedJob(j) /\ QueuedLoop(w) /\ NobodyAsks
  BY BegunOfEach DEF NoneForgotten, HandedOnce
<1>2. UNCHANGED unscheduled /\ ("requeued" \in retry'[j] => "requeued" \in retry[j])
  <2>1. UNCHANGED unscheduled
    BY LoopCases DEF LoopFrame, Dequeue, ResolveDependents, EnqueueReleased
  <2> QED BY <2>1, LoopNeverQueues DEF MarkJobFailed, TypeOK, RetryOK
<1>3. queue'[j] > 0 => queue[j] > 0 \/ j \in Mine(w)
  <2>1. queue[j] \in Nat
    BY DEF TypeOK, CountsOK
  <2>2. CASE Dequeue(w)
    BY <2>1, <2>2 DEF Dequeue, TypeOK, CountsOK
  <2>3. CASE Looks(w) \/ Yields(w) \/ Starts(w) \/ Leaves(w) \/ GoesOn(w)
    BY <2>1, <2>3 DEF Looks, Yields, Starts, Leaves, GoesOn
  <2> QED BY <1>1, <2>2, <2>3, LoopCourse
<1>4. status'[j] # status[j] => /\ queue[j] = 0 /\ "requeued" \notin retry[j]
                                /\ j \notin unscheduled
                                /\ j \in Mine(w) => SkipJob(w)
  BY OwnerIsAlone DEF Mine
<1>5. SkipJob(w) => UNCHANGED queue
  BY DEF SkipJob
<1>6. CASE status'[j] = status[j]
  BY <1>1, <1>2, <1>3, <1>6 DEF QueuedJob, QueuedLoop, Mine
<1>7. CASE status'[j] # status[j]
  BY <1>2, <1>3, <1>4, <1>5, <1>7 DEF QueuedJob
<1> QED BY <1>6, <1>7

LEMMA OtherLoopQueued ==
  ASSUME TypeOK, HandedOnce, NoneForgotten, [Next]_vars, NEW w \in Workers, WorkerStep(w),
         NEW v \in Workers, v # w
  PROVE  QueuedLoop(v)'
<1>1. QueuedLoop(v)
  BY BegunOfEach DEF NoneForgotten
<1>2. pc'[v] = pc[v] /\ cur'[v] = cur[v] /\ local'[v] = local[v]
  BY LoopAlone, LoopCases DEF Others, LoopMemory, Dequeue, ResolveDependents,
                              EnqueueReleased,
                              TypeOK, LocalOK
<1>3. pc[v] # "idle" => cur[v] \in Jobs /\ status'[cur[v]] = status[cur[v]]
  BY OwnerIsAlone DEF TypeOK, CurOK
<1>4. \A j \in Mine(v) : j \in Jobs /\ status'[j] = status[j]
  BY OwnerIsAlone DEF Mine, TypeOK, LocalOK, Locals
<1> QED BY <1>1, <1>2, <1>3, <1>4 DEF QueuedLoop, NotBegun, Mine

LEMMA OwnLoopQueued ==
  ASSUME TypeOK, TypeOK', Gentle, HandedOnce, NoneForgotten, [Next]_vars,
         NEW w \in Workers, WorkerStep(w)
  PROVE  QueuedLoop(w)'
<1> USE DEF TypeOK, PcOK, CurOK
<1>1. QueuedLoop(w) /\ NobodyAsks /\ \A j \in Jobs : QueuedJob(j)
  BY BegunOfEach DEF NoneForgotten, HandedOnce
<1>2. \A j \in Mine(w) : /\ j \in Jobs /\ status[j] = "queued"
                         /\ status'[j] = status[j] \/ (SkipJob(w) /\ j \notin local[w].jobs)
  BY <1>1, OwnerIsAlone DEF QueuedLoop, Mine, LocalOK, Locals
<1>3. CASE Dequeue(w)
  <2>1. PICK j \in Jobs : queue[j] > 0 /\ cur' = [cur EXCEPT ![w] = j]
    BY <1>3 DEF Dequeue
  <2>2. pc'[w] = "dequeued" /\ cur'[w] = j /\ UNCHANGED <<local, status>> /\ status[j] = "queued"
    BY <1>1, <1>3, <2>1 DEF Dequeue, Move, QueuedJob
  <2> QED BY <1>1, <2>2 DEF QueuedLoop, NotBegun
<1>4. CASE Looks(w)
  BY <1>1, <1>4 DEF Looks, QueuedLoop, NotBegun
<1>5. CASE Yields(w) \/ Leaves(w)
  <2>1. pc'[w] = "idle" /\ local'[w] = NoLocal
    BY <1>5 DEF Yields, Leaves, Drop, Move, LocalOK
  <2> QED BY <2>1 DEF QueuedLoop, NotBegun, NoLocal
<1>6. CASE Starts(w)
  <2>1. ~SkipJob(w)
    BY <1>6 DEF Starts, SkipJob
  <2> QED BY <1>1, <1>2, <1>6, <2>1 DEF Starts, QueuedLoop, NotBegun, Mine
<1>7. CASE GoesOn(w)
  <2>1. cur[w] \in Jobs /\ status[cur[w]] # "queued" /\ status'[cur[w]] # "queued"
    BY <1>1, <1>7, LoopNeverQueues DEF GoesOn, Begun, QueuedLoop
  <2>2. ASSUME NEW j \in local'[w].jobs \cup local'[w].skip PROVE status'[j] = "queued"
    <3>1. CASE j \in Mine(w) /\ ~SkipJob(w)
      BY <1>2, <3>1
    <3>2. CASE SkipJob(w)
      <4>1. CASE UNCHANGED status /\ local'[w].jobs = local[w].jobs /\ local'[w].skip = local[w].skip
        BY <1>2, <4>1 DEF Mine
      <4>2. ASSUME NEW k \in local[w].skip, status' = [status EXCEPT ![k] = "success"],
                   local' = [local EXCEPT ![w].skip = @ \ {k}, ![w].resolve = @ \cup {k}]
            PROVE  status'[j] = "queued"
        <5>1. j \in (local[w].jobs \cup local[w].skip) /\ j # k
          BY <4>2 DEF HandedOnce, ListsApart, LocalOK, Locals
        <5> QED BY <1>2, <4>2, <5>1 DEF Mine, StatusOK
      <4>3. PICK k \in local[w].skip :
              \/ /\ status' = [status EXCEPT ![k] = "success"]
                 /\ local' = [local EXCEPT ![w].skip = @ \ {k}, ![w].resolve = @ \cup {k}]
              \/ Throw(w) /\ UNCHANGED status
        BY <3>2 DEF SkipJob
      <4>4. CASE Throw(w) /\ UNCHANGED status
        <5>1. local'[w].jobs = local[w].jobs /\ local'[w].skip = local[w].skip
          BY <4>4 DEF Throw, LocalOK, Locals
        <5> QED BY <4>1, <4>4, <5>1
      <4> QED BY <4>2, <4>3, <4>4
    <3>3. CASE j \notin Mine(w) /\ ~SkipJob(w)
      <4>1. status[j] = "queued" /\ blocked[j] /\ ~CancelDownstream(w)
        BY <1>7, <2>2, <3>3 DEF GoesOn, CancelDownstream, Release, Drop, Move
      <4>2. j \in Jobs
        BY <2>2 DEF LocalOK, Locals
      <4>3. cur[w] # j
        BY <2>1, <4>1
      <4> QED BY <4>1, <4>2, <4>3, <3>3, StatusOwner
    <3> QED BY <3>1, <3>2, <3>3
  <2> QED BY <1>7, <2>1, <2>2 DEF GoesOn, QueuedLoop, NotBegun
<1> QED BY <1>1, <1>3, <1>4, <1>5, <1>6, <1>7, LoopCourse

LEMMA BegunNext ==
  ASSUME TypeOK, Gentle, HandedOnce, NoneForgotten, [Next]_vars
  PROVE  BegunOrQueued'
<1>1. TypeOK'
  BY NextTyped
<1>2. (\A j \in Jobs : QueuedJob(j)) /\ (\A w \in Workers : QueuedLoop(w))
  BY BegunOfEach DEF NoneForgotten
<1>3. ASSUME NEW w \in Workers, WorkerStep(w) PROVE BegunOrQueued'
  <2>1. \A j \in Jobs : QueuedJob(j)'
    BY <1>1, <1>3, LoopKeepsQueued
  <2>2. \A v \in Workers : QueuedLoop(v)'
    BY <1>1, <1>3, OtherLoopQueued, OwnLoopQueued
  <2> QED BY <2>1, <2>2 DEF BegunOrQueued, QueuedJob, QueuedLoop
<1>4. CASE \A w \in Workers : ~WorkerStep(w)
  <2>1. /\ UNCHANGED <<pc, cur, local, claimed, blocked>>
        /\ \A j \in Jobs :
              /\ queue'[j] > queue[j] => j \in unscheduled \/ "requeued" \in retry[j]
              /\ queue'[j] \in Nat /\ queue[j] \in Nat
              /\ j \in unscheduled' => j \in unscheduled
              /\ "requeued" \in retry'[j] => "requeued" \in retry[j] \/ status'[j] = "queued"
              /\ status'[j] # status[j] => Carriers(j) = {} /\ status'[j] = "queued"
    BY <1>4, ElsewhereCourse DEF TypeOK, CountsOK
  <2>2. ASSUME NEW j \in Jobs PROVE QueuedJob(j)'
    BY <1>2, <2>1 DEF QueuedJob
  <2>3. ASSUME NEW w \in Workers PROVE QueuedLoop(w)'
    <3>1. \A j \in Jobs : j \in Mine(w) \/ cur[w] = j => status'[j] = status[j]
      BY <2>1, IsCarrier DEF Mine
    <3>2. (pc[w] # "idle" => cur[w] \in Jobs) /\ Mine(w) \subseteq Jobs
      BY DEF Mine, TypeOK, CurOK, LocalOK, Locals
    <3> QED BY <1>2, <2>1, <3>1, <3>2 DEF QueuedLoop, NotBegun, Mine
  <2> QED BY <2>2, <2>3 DEF BegunOrQueued, QueuedJob, QueuedLoop
<1> QED BY <1>3, <1>4

LEMMA ClaimsEndNext ==
  ASSUME TypeOK, TypeOK', Gentle, NobodyAsks, NoneForgotten, [Next]_vars
  PROVE  ClaimsEnd'
<1> USE DEF TypeOK, PcOK, CurOK, Holding
<1>1. run \in RunTerminal => run' \in RunTerminal
  BY OverIsOver
<1>2. SUFFICES ASSUME run \notin RunTerminal, NEW j \in claimed'
               PROVE  \E u \in Workers : Holding(u)' /\ cur'[u] = j
  BY <1>1 DEF ClaimsEnd
<1>3. \A i \in claimed : \E u \in Workers : Holding(u) /\ cur[u] = i
  BY <1>2 DEF NoneForgotten, ClaimsEnd
<1>4. ASSUME NEW w \in Workers, WorkerStep(w)
      PROVE  \E u \in Workers : Holding(u)' /\ cur'[u] = j
  <2>1. Others(w)
    BY <1>4, LoopAlone
  <2>2. CASE j \in claimed /\ (Holding(w) /\ cur[w] = j => Holding(w)' /\ cur'[w] = j)
    <3>1. PICK u \in Workers : Holding(u) /\ cur[u] = j
      BY <1>3, <2>2
    <3> QED BY <2>1, <2>2, <3>1 DEF Others
  <2>3. CASE Dequeue(w) \/ Yields(w)
    <3>1. j \in claimed /\ ~Holding(w)
      BY <2>3 DEF Dequeue, Yields
    <3> QED BY <2>2, <3>1
  <2>4. CASE Looks(w)
    BY <2>2, <2>4 DEF Looks
  <2>5. CASE Starts(w)
    BY <2>2, <2>5 DEF Starts
  <2>6. CASE Leaves(w)
    BY <1>2, <2>2, <2>6 DEF Leaves
  <2>7. CASE GoesOn(w)
    BY <2>2, <2>7 DEF GoesOn
  <2> QED BY <1>4, <2>3, <2>4, <2>5, <2>6, <2>7, LoopCourse
<1>5. CASE \A w \in Workers : ~WorkerStep(w)
  <2>1. UNCHANGED <<pc, cur, claimed>>
    BY <1>5, GentleCases DEF vars, ScheduleJob, RetryStep, RetryRequeue, RetryEnqueue,
                             CancelRun
  <2> QED BY <1>3, <2>1
<1> QED BY <1>4, <1>5

LEMMA ListsEndNext ==
  ASSUME TypeOK, TypeOK', Gentle, NobodyAsks, NoneForgotten, [Next]_vars
  PROVE  ListsEnd'
<1>1. run \in RunTerminal => run' \in RunTerminal
  BY OverIsOver
<1>2. \A w \in Workers : EndOf(w)
  BY DEF NoneForgotten, ListsEnd, EndOf, Mine
<1>3. ASSUME NEW v \in Workers, pc'[v] = pc[v], local'[v] = local[v] PROVE EndOf(v)'
  BY <1>1, <1>2, <1>3 DEF EndOf, Mine
<1>4. ASSUME NEW v \in Workers PROVE EndOf(v)'
  <2>1. ASSUME NEW w \in Workers, WorkerStep(w) PROVE EndOf(v)'
    <3>1. CASE v # w
      <4>1. pc'[v] = pc[v] /\ local'[v] = local[v]
        BY <2>1, <3>1, LoopAlone, LoopCases
           DEF Others, LoopMemory, Dequeue, ResolveDependents, EnqueueReleased, TypeOK, LocalOK
      <4> QED BY <1>3, <4>1
    <3>2. CASE v = w /\ Dequeue(w)
      <4>1. pc[w] = "idle" /\ pc'[w] = "dequeued" /\ local'[w] = local[w] /\ run' = run
        BY <3>2 DEF Dequeue, Move, TypeOK, PcOK
      <4> QED BY <1>2, <3>2, <4>1 DEF EndOf, Mine, Settling
    <3> QED BY <2>1, <3>1, <3>2, LoopCourse
  <2>2. CASE \A w \in Workers : ~WorkerStep(w)
    <3>1. UNCHANGED <<pc, local>>
      BY <2>2, GentleCases DEF vars, ScheduleJob, RetryStep, RetryRequeue, RetryEnqueue,
                               CancelRun
    <3> QED BY <1>3, <3>1
  <2> QED BY <2>1, <2>2
<1> QED BY <1>4 DEF ListsEnd, EndOf, Mine

LEMMA CarriedAfter ==
  ASSUME NEW j \in Jobs
  PROVE  /\ \A n \in 1..queue'[j] : <<"entry", n>> \in Carriers(j)'
         /\ \A w \in Workers : cur'[w] = j => <<"loop", w>> \in Carriers(j)'
         /\ \A w \in Workers : j \in local'[w].jobs \cup local'[w].skip
                                 => <<"list", w>> \in Carriers(j)'
         /\ "requeued" \in retry'[j] => <<"retry", j>> \in Carriers(j)'
         /\ j \in unscheduled' => <<"createRun", j>> \in Carriers(j)'
  BY DEF Carriers

\* A job that has a carrier and stays queued still has one.
LEMMA StillCarried ==
  ASSUME TypeOK, TypeOK', Gentle, ClaimsHeld, HandedOnce, NoneForgotten, [Next]_vars,
         run \notin RunTerminal, NEW j \in Jobs, status[j] = "queued", status'[j] = "queued",
         ~blocked[j], NEW x \in Carriers(j)
  PROVE  Carriers(j)' # {}
<1> USE DEF TypeOK, PcOK, CurOK
<1>0. NobodyAsks /\ resumed = {} /\ ClaimsEnd /\ (\A w \in Workers : QueuedLoop(w) /\ EndOf(w))
  BY BegunOfEach DEF HandedOnce, NoneForgotten, ListsEnd, EndOf, Mine
<1>1. /\ queue'[j] > 0 => Carriers(j)' # {}
      /\ \A v \in Workers : cur'[v] = j => Carriers(j)' # {}
      /\ \A v \in Workers : j \in local'[v].jobs \cup local'[v].skip => Carriers(j)' # {}
      /\ "requeued" \in retry'[j] => Carriers(j)' # {}
      /\ j \in unscheduled' => Carriers(j)' # {}
  <2>1. queue'[j] > 0 => 1 \in 1..queue'[j]
    BY DEF CountsOK
  <2> QED BY <2>1, CarriedAfter
<1>2. queue[j] \in Nat /\ queue'[j] \in Nat
  BY DEF CountsOK
<1>3. CASE \A w \in Workers : ~WorkerStep(w)
  BY <1>0, <1>1, <1>2, <1>3, ElsewhereCourse DEF Carriers, NobodyAsks
<1>4. ASSUME NEW w \in Workers, WorkerStep(w) PROVE Carriers(j)' # {}
  <2>0. Others(w) /\ (\A v \in Workers \ {w} : local'[v] = local[v]) /\ UNCHANGED unscheduled
    <3>1. Others(w)
      BY <1>4, LoopAlone
    <3>2. CASE LoopMemory(w) /\ LoopFrame(w)
      BY <3>1, <3>2 DEF LoopMemory, LoopFrame
    <3>3. CASE Dequeue(w) \/ ResolveDependents(w) \/ EnqueueReleased(w)
      BY <3>1, <3>3 DEF Dequeue, ResolveDependents, EnqueueReleased, LocalOK
    <3> QED BY <1>4, <3>2, <3>3, LoopCases
  <2>1. CASE \E n \in 1..queue[j] : x = <<"entry", n>>
    <3>1. queue[j] > 0
      BY <1>2, <2>1
    <3>2. CASE Dequeue(w)
      BY <1>1, <3>1, <3>2 DEF Dequeue, CountsOK
    <3>3. CASE Looks(w) \/ Yields(w) \/ Starts(w) \/ Leaves(w) \/ GoesOn(w)
      BY <1>1, <1>2, <3>1, <3>3 DEF Looks, Yields, Starts, Leaves, GoesOn
    <3> QED BY <1>0, <1>4, <3>2, <3>3, LoopCourse
  <2>2. ASSUME NEW v \in Workers, cur[v] = j PROVE Carriers(j)' # {}
    <3>1. NotBegun(v)
      BY <1>0, <2>2, NoneIsNoJob DEF QueuedLoop
    <3>2. CASE v # w
      BY <1>1, <2>0, <2>2, <3>2 DEF Others
    <3>3. CASE v = w
      <4>1. CASE Yields(w)
        <5>1. PICK u \in Workers : Holding(u) /\ cur[u] = j
          BY <1>0, <2>2, <3>3, <4>1 DEF Yields, ClaimsEnd
        <5>2. u # w
          BY <4>1, <5>1 DEF Yields, Holding
        <5> QED BY <1>1, <2>0, <5>1, <5>2 DEF Others
      <4>2. CASE Looks(w)
        BY <1>1, <2>2, <3>3, <4>2 DEF Looks
      <4>3. ~Starts(w) /\ ~Dequeue(w) /\ ~Leaves(w) /\ ~GoesOn(w)
        BY <2>2, <3>1, <3>3 DEF Starts, Dequeue, Leaves, GoesOn, Begun, NotBegun
      <4> QED BY <1>0, <1>4, <4>1, <4>2, <4>3, LoopCourse
    <3> QED BY <3>2, <3>3
  <2>3. ASSUME NEW v \in Workers, j \in local[v].jobs \cup local[v].skip PROVE Carriers(j)' # {}
    <3>1. CASE v # w
      BY <1>1, <2>0, <2>3, <3>1
    <3>2. CASE v = w
      <4>1. pc[w] \in Settling \cup {"resolve"} /\ j \in Mine(w)
        BY <1>0, <2>3, <3>2 DEF EndOf, Mine
      <4>2. GoesOn(w)
        BY <1>0, <1>4, <4>1, LoopCourse
           DEF Settling, Dequeue, Looks, Yields, Starts, Leaves
      <4> QED BY <1>1, <4>1, <4>2 DEF GoesOn
    <3> QED BY <3>1, <3>2
  <2>4. CASE "requeued" \in retry[j]
    <3>1. "requeued" \in retry'[j]
      BY <1>4, <2>4, LoopNeverQueues DEF MarkJobFailed, RetryOK
    <3> QED BY <1>1, <3>1
  <2>5. CASE j \in unscheduled
    BY <1>1, <2>0, <2>5
  <2> QED BY <1>0, <2>1, <2>2, <2>3, <2>4, <2>5 DEF Carriers, NobodyAsks
<1> QED BY <1>3, <1>4

LEMMA CarriedNext ==
  ASSUME TypeOK, TypeOK', Gentle, ClaimsHeld, HandedOnce, NoneForgotten, [Next]_vars
  PROVE  QueuedIsCarried'
<1> USE DEF TypeOK, StatusOK, NeedsOK
<1>1. SUFFICES ASSUME run' \notin RunTerminal, NEW j \in Jobs, status'[j] = "queued", ~blocked'[j]
               PROVE  Carriers(j)' # {}
  BY DEF QueuedIsCarried
<1>2. run \notin RunTerminal /\ NobodyAsks
  BY <1>1, OverIsOver DEF HandedOnce
<1>3. CASE status[j] = "queued" /\ ~blocked[j]
  <2>1. Carriers(j) # {}
    BY <1>2, <1>3 DEF NoneForgotten, QueuedIsCarried
  <2> QED BY <1>1, <1>2, <1>3, <2>1, StillCarried
<1>4. CASE \A w \in Workers : ~WorkerStep(w)
  <2>1. blocked'[j] = blocked[j] /\ (status'[j] # status[j] => "requeued" \in retry'[j])
    BY <1>4, ElsewhereCourse
  <2> QED BY <1>1, <1>3, <2>1, CarriedAfter
<1>5. ASSUME NEW w \in Workers, WorkerStep(w), status[j] # "queued" \/ blocked[j]
      PROVE  Carriers(j)' # {}
  <2>1. status[j] = "queued" /\ blocked[j]
    BY <1>1, <1>5, LoopNeverQueues
  <2>2. CASE ResolveDependents(w)
    <3>1. PICK u \in local[w].resolve :
            /\ blocked' = [k \in Jobs |-> blocked[k] /\ k \notin Released(u)]
            /\ \E skipped \in SUBSET (Released(u) \cap Conditional) :
                local' = [local EXCEPT ![w].resolve = @ \ {u}, ![w].skip = @ \cup skipped,
                                       ![w].jobs = @ \cup (Released(u) \ skipped)]
      BY <2>2 DEF ResolveDependents
    <3>2. j \in Released(u)
      BY <1>1, <2>1, <3>1
    <3>3. j \in local'[w].jobs \cup local'[w].skip
      BY <3>1, <3>2 DEF LocalOK, Locals
    <3> QED BY <3>3, CarriedAfter
  <2>3. CASE CancelDownstream(w)
    BY <1>1, <2>1, <2>3 DEF CancelDownstream
  <2>4. CASE ~ResolveDependents(w) /\ ~CancelDownstream(w)
    <3>1. blocked' = blocked
      BY <1>5, <2>4
         DEF WorkerStep, PickUp, RunStep, SettleJob, Dequeue, ReadRun, Claim, MarkJobRunning,
         JobSecretsFail, PromoteRun, Provision, ProvisionFails, SkipSettled,
         StopOnCancel, AbortOnTerminal, Proceed, StepSecretsFail, MarkStepStarted, ExecuteStep,
         MarkStepCompleted, MarkStepFailed, ParkForApproval, Leave, MarkJobInterrupted,
         MarkJobSucceeded, SkipJob, DependentsResolved, CheckRun,
         RunSucceeds, RunFails, FinalizeRun, EnqueueReleased, EnqueueReleasedFails, JobDone,
         MarkJobFailed
    <3> QED BY <1>1, <2>1, <3>1
  <2> QED BY <2>2, <2>3, <2>4
<1> QED BY <1>3, <1>4, <1>5

LEMMA NoneForgottenInit == Init => NoneForgotten
<1> SUFFICES ASSUME Init PROVE NoneForgotten
  OBVIOUS
<1>1. BegunOrQueued
  BY DEF Init, BegunOrQueued, NotBegun, NoLocal
<1>2. ClaimsEnd /\ ListsEnd
  BY DEF Init, ClaimsEnd, ListsEnd, NoLocal
<1>3. QueuedIsCarried
  BY IsCarrier DEF Init, QueuedIsCarried, Scheduled
<1> QED BY <1>1, <1>2, <1>3 DEF Init, NoneForgotten

LEMMA NoneForgottenNext ==
  ASSUME Gentle, TypeOK, ClaimsHeld, HandedOnce, NoneForgotten, [Next]_vars
  PROVE  NoneForgotten'
<1>1. TypeOK' /\ NobodyAsks
  BY NextTyped DEF HandedOnce
<1>2. daemon' = "up" /\ startup' = "off" /\ resumed' = {}
  BY <1>1, DaemonStays
<1>3. BegunOrQueued' /\ ClaimsEnd' /\ ListsEnd' /\ QueuedIsCarried'
  BY <1>1, BegunNext, ClaimsEndNext, ListsEndNext, CarriedNext
<1> QED BY <1>2, <1>3 DEF NoneForgotten

(***************************************************************************)
(* The theorems                                                            *)
(***************************************************************************)
LEMMA IInvInit == Init => IInv
  BY InitTyped, ClaimsHeldInit, PendingInit, HandedOutInit, VerdictInit, ProgressInit,
     HandedOnceInit, NoneForgottenInit
     DEF IInv

LEMMA IInvNext == IInv /\ [Next]_vars => IInv'
<1> SUFFICES ASSUME IInv, [Next]_vars PROVE IInv'
  OBVIOUS
<1>1. HandedOutIsCleared'
  BY LoopHandsOut, ElsewhereHandsOut DEF IInv
<1>2. NoApprovals => HandedOnce'
  BY HandedOnceNext DEF IInv
<1>3. Gentle => NoneForgotten'
  BY NoneForgottenNext DEF IInv, Gentle
<1>4. TypeOK' /\ ClaimsHeld' /\ PendingIsExact' /\ VerdictIsSound' /\ ProgressIsTrue'
  BY NextTyped, ClaimsHeldNext, PendingNext, VerdictNext, ProgressNext DEF IInv
<1>5. (NoApprovals' <=> NoApprovals) /\ (Gentle' <=> Gentle)
  BY DEF NoApprovals, Gentle
<1> QED BY <1>1, <1>2, <1>3, <1>4, <1>5 DEF IInv

\* The claims, the dependency records, the queue and the memory of every activity agree in
\* every reachable state.
THEOREM Inductive == Spec => []IInv
  BY IInvInit, IInvNext, PTL DEF Spec

\* No job is worked on before everything it needs has succeeded.
THEOREM NeedsComeFirst == Spec => []NeedsFirst
<1>1. IInv => NeedsFirst
  BY DEF IInv, TypeOK, CurOK, HandedOutIsCleared, LoopsCleared, Cleared, NeedsFirst
<1> QED BY <1>1, Inductive, PTL

\* A run reported successful is complete.
THEOREM SuccessMeansComplete == Spec => []SuccessIsComplete
<1>1. IInv => SuccessIsComplete
  BY DEF IInv, VerdictIsSound
<1> QED BY <1>1, Inductive, PTL

\* A step executes only when each step before it is settled, however old the snapshot the
\* loop works from and whoever wrote to the record since.
THEOREM StepsComeInOrder == Spec => []StepsInOrder
<1>1. IInv => StepsInOrder
  BY DEF IInv, ProgressIsTrue, NoneLeftOpen, SettledStep, StepsInOrder
<1> QED BY <1>1, Inductive, PTL

\* Where no step asks a human, a job is never handed out twice, whatever fails and however
\* often the daemon dies: no two queue entries, and nobody about to make a second.
THEOREM HandedOutOnce == ASSUME NoApprovals PROVE Spec => []NoDuplicateEntry
<1>1. IInv => NoDuplicateEntry
  BY DEF IInv, HandedOnce
<1> QED BY <1>1, Inductive, PTL

\* Nor is it forgotten as long as nothing fails but workspaces, runs are cancelled at will
\* and the daemon stays up.  The other faults do break it: a secret that does not resolve
\* or a cache that refuses an entry drops the job, a process that ends its timers and lists.
THEOREM NoneIsForgotten == ASSUME Gentle PROVE Spec => []QueuedIsCarried
<1>1. IInv => QueuedIsCarried
  BY DEF IInv, NoneForgotten
<1> QED BY <1>1, Inductive, PTL

(***************************************************************************)
(* WorkflowEngine implements RunContract                                   *)
(***************************************************************************)
LEMMA SameTables ==
  /\ Contract!JobState = JobState
  /\ Contract!RunTransitions = RunTransitions
  /\ \A from, to : Contract!JobLegal(from, to) <=> JobLegal(from, to)
  BY DEF Contract!JobState, JobState, Contract!RunTransitions, RunTransitions,
         Contract!JobLegal, JobLegal, Contract!JobTransitions, JobTransitions

\* A run changes status along its table, and to success only when every job succeeded.
LEMMA RunMoves ==
  ASSUME IInv, [Next]_vars, run' # run
  PROVE  /\ run' \in RunTransitions[run] /\ run' # "dlq" /\ UNCHANGED status
         /\ run' = "success" => \A j \in Jobs : status[j] = "success"
<1>1. ASSUME NEW w \in Workers, WorkerStep(w)
      PROVE  run' \in RunTransitions[run] /\ run' # "dlq" /\ UNCHANGED status
  <2>1. LoopFrame(w)
    BY <1>1, LoopCases DEF IInv, Dequeue, ResolveDependents, EnqueueReleased
  <2>2. RunLegal(run, run') /\ UNCHANGED status
    BY <2>1 DEF LoopFrame
  <2>3. run' # "dlq"
    BY <1>1 DEF WorkerStep, PickUp, RunStep, SettleJob, Dequeue, ReadRun, Claim,
                MarkJobRunning,
         JobSecretsFail, PromoteRun, Provision, ProvisionFails, SkipSettled,
         StopOnCancel, AbortOnTerminal, Proceed, StepSecretsFail, MarkStepStarted, ExecuteStep,
         MarkStepCompleted, MarkStepFailed, ParkForApproval, Leave, MarkJobInterrupted,
         MarkJobSucceeded, ResolveDependents, SkipJob, DependentsResolved, CheckRun,
         RunSucceeds, RunFails, FinalizeRun, EnqueueReleased, EnqueueReleasedFails, JobDone,
         MarkJobFailed, CancelDownstream
  <2> QED BY <2>2, <2>3 DEF RunLegal
<1>2. ASSUME CancelRun
      PROVE  run' \in RunTransitions[run] /\ run' # "dlq" /\ UNCHANGED status
  BY <1>2 DEF CancelRun, RunTerminal, RunTransitions, RunState, IInv, TypeOK, StatusOK
<1>3. ASSUME StartUp \/ StrayLaunch \/ StartUpDies
      PROVE  run' \in RunTransitions[run] /\ run' # "dlq" /\ UNCHANGED status
  BY <1>3, StartUpRecord DEF IInv, RunLegal
<1>4. run' \in RunTransitions[run] /\ run' # "dlq" /\ UNCHANGED status
  BY <1>1, <1>2, <1>3 DEF Next, vars, ScheduleJob, RetryStep, RetryRequeue, RetryEnqueue,
       CheckApproval, FinishRequest, ResolveApproval, EnqueueApproved, Crash, Stop, Exit
<1>5. IInv'
  BY IInvNext
<1>6. run' = "success" => \A j \in Jobs : status[j] = "success"
  BY <1>4, <1>5 DEF IInv, VerdictIsSound, SuccessIsComplete, AllSucceeded
<1> QED BY <1>4, <1>6

\* Jobs move along their table, and start or succeed only when cleared.
LEMMA JobsMove ==
  ASSUME IInv, [Next]_vars, NEW j \in Jobs
  PROVE  /\ JobLegal(status[j], status'[j])
         /\ status'[j] # status[j] /\ status'[j] \in {"running", "success"} => Cleared(j)
<1>1. JobLegal(status[j], status'[j])
  BY StatusMoves DEF IInv
<1>2. ASSUME status'[j] # status[j], status'[j] \in {"running", "success"} PROVE Cleared(j)
  <2>1. PICK w \in Workers : WorkerStep(w)
    BY <1>2, StatusElsewhere DEF IInv
  <2>2. j \in local[w].skip \/ (j = cur[w] /\ pc[w] # "idle")
    BY <1>2, <2>1, LoopStatus DEF IInv, LoopMoves
  <2> QED BY <2>2 DEF IInv, HandedOutIsCleared, LoopsCleared
<1> QED BY <1>1, <1>2

\* With whatever cancellations, crashes and failures, the engine only does to a run and its
\* jobs what the contract allows.
THEOREM Implements == Spec => KeepsContract
<1>1. Init => Contract!Init
  BY DEF Init, Contract!Init
<1>2. IInv /\ [Next]_vars => [Contract!Next]_<<run, status>>
  <2> SUFFICES ASSUME IInv, [Next]_vars, <<run, status>>' # <<run, status>>
               PROVE  Contract!Next
    BY DEF Contract!Next
  <2>1. CASE run' # run
    BY <2>1, RunMoves, SameTables DEF Contract!Next, Contract!MoveRun
  <2>2. CASE run' = run
    <3>1. status' \in [Jobs -> JobState]
      BY IInvNext DEF IInv, TypeOK, StatusOK
    <3>2. \A j \in Jobs : Cleared(j) <=> Contract!Ready(j)
      BY DEF Cleared, Contract!Ready
    <3> QED BY <2>2, <3>1, <3>2, JobsMove, SameTables DEF Contract!Next, Contract!MoveJobs
  <2> QED BY <2>1, <2>2
<1> QED BY <1>1, <1>2, Inductive, PTL DEF Spec, KeepsContract, Contract!Spec

\* No job is ever begun, much less successful, without everything it needs: neither when a
\* need finishes nor, since successes stand, at any time later.
THEOREM BegunHaveTheirNeeds == Spec => []BegunAreReady
<1> DEFINE Waiting == {"queued", "failed", "cancelled", "skipped"}
           Inv == status \in [Jobs -> JobState] /\ BegunAreReady
<1>1. Contract!Init => Inv
  BY DEF Contract!Init, BegunAreReady, JobState
<1>2. Inv /\ [Contract!Next]_<<run, status>> => Inv'
  <2> SUFFICES ASSUME Inv, Contract!MoveJobs PROVE Inv'
    BY DEF Contract!Next, Contract!MoveRun, BegunAreReady
  <2>1. \A j \in Jobs : status[j] = "success" => status'[j] = "success"
    BY SameTables DEF Contract!MoveJobs, JobLegal, JobTransitions
  <2>2. ASSUME NEW j \in Jobs, status'[j] \notin Waiting
        PROVE  \A k \in Needs[j] : status[k] = "success"
    <3>1. \/ status[j] \notin Waiting
          \/ status'[j] # status[j] /\ status'[j] \in {"running", "success"}
      BY <2>2, SameTables DEF Contract!MoveJobs, JobLegal, JobTransitions, JobState
    <3> QED BY <3>1 DEF BegunAreReady, Contract!MoveJobs, Contract!Ready
  <2>3. \A j \in Jobs : Needs[j] \subseteq Jobs
    BY NeedsType
  <2> QED BY <2>1, <2>2, <2>3, SameTables DEF BegunAreReady, Contract!MoveJobs
<1>3. Inv => BegunAreReady
  OBVIOUS
<1> HIDE DEF Inv
<1> QED BY <1>1, <1>2, <1>3, Implements, PTL DEF KeepsContract, Contract!Spec

\* The verdict of a run is its last status, and a successful job is never run again,
\* whoever still acts on what it read before (state-machine.ts, assertTransition).
THEOREM ResultsAreFinal == Spec => ResultsStand
<1>1. IInv /\ [Next]_vars
        => /\ run \in RunTerminal => run' = run
           /\ \A j \in Jobs : status[j] = "success" => status'[j] = "success"
  <2> SUFFICES ASSUME IInv, [Next]_vars
               PROVE  /\ run \in RunTerminal => run' = run
                      /\ \A j \in Jobs : status[j] = "success" => status'[j] = "success"
    OBVIOUS
  <2>1. run \in RunTerminal => run' = run
    BY RunMoves DEF RunTerminal
  <2>2. \A j \in Jobs : status[j] = "success" => status'[j] = "success"
    BY JobsMove DEF JobLegal, JobTransitions
  <2> QED BY <2>1, <2>2
<1> QED BY <1>1, Inductive, PTL DEF Spec, ResultsStand
=============================================================================
