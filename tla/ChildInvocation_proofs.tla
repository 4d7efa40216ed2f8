------------------------ MODULE ChildInvocation_proofs ------------------------
(***************************************************************************)
(* For any number of steps, loops, child runs and deaths: a step ends only *)
(* with a child of its own, and the children run in the order of the steps.*)
(***************************************************************************)
EXTENDS ChildInvocation, TLAPS

USE ChildAssumption

\* What the record and the children say, whoever is at work on them.
RecordInv == LinksAreOwn /\ JobIsDone /\ ResultIsChilds /\ ChildrenInOrder

LEMMA Parts == ChildInv <=> TypeOK /\ LoopsKnow /\ ReconcilersKnow /\ RecordInv
BY DEF ChildInv, RecordInv

LEMMA RecordKept ==
    ASSUME RecordInv, UNCHANGED <<record, children>>
    PROVE  RecordInv'
BY DEF RecordInv, LinksAreOwn, JobIsDone, ResultIsChilds, ChildrenInOrder, record,
       children, Waiting

\* Loops that stay where they are still know what they knew, for a success is final and a
\* child stays the child of its step.
LEMMA LoopsKept ==
    ASSUME TypeOK, LoopsKnow, UNCHANGED <<pc, local>>,
           \A i \in Steps : step[i] = "success" => step'[i] = "success",
           \A c \in Children : of[c] # 0 => of'[c] = of[c]
    PROVE  LoopsKnow'
BY DEF TypeOK, LoopsKnow, Data, Steps

\* So do reconciliations, for the end of a child is final.
LEMMA ReconcilersKept ==
    ASSUME TypeOK, ReconcilersKnow, UNCHANGED act,
           \A c \in Children : of[c] # 0 => of'[c] = of[c],
           \A c \in Children : child[c] \in ChildEnd => child'[c] = child[c]
    PROVE  ReconcilersKnow'
BY DEF TypeOK, ReconcilersKnow, Activity, Steps, ChildEnd

LEMMA FreshTyped ==
    /\ Fresh \in Data
    /\ Fresh.i = 1 /\ \A i \in Steps : Fresh.snap[i] = "queued"
BY DEF Fresh, Data, Steps, StepState

LEMMA ChildInit == Init => ChildInv
<1> SUFFICES ASSUME Init PROVE ChildInv
  OBVIOUS
<1>1. TypeOK
  BY FreshTyped DEF Init, TypeOK, Places, Activity, Rest, Steps, RunState, JobState,
     StepState, ChildEnd
<1>2. LoopsKnow
  BY FreshTyped DEF Init, LoopsKnow, Steps
<1>3. ReconcilersKnow
  BY DEF Init, ReconcilersKnow, Rest
<1>4. RecordInv
  BY DEF Init, RecordInv, LinksAreOwn, JobIsDone, ResultIsChilds, ChildrenInOrder, Steps
<1> QED BY <1>1, <1>2, <1>3, <1>4, Parts

-----------------------------------------------------------------------------
\* The steps of a loop that write neither the record nor a child.
LEMMA LoopKeeps ==
    ASSUME ChildInv, NEW w \in Workers,
           \/ Dequeue(w) \/ ReadRun(w) \/ Claim(w) \/ SkipStep(w) \/ LeaveWaiting(w)
           \/ Check(w) \/ InvokeFails(w) \/ LeaveParked(w) \/ Release(w)
    PROVE  ChildInv'
<1> USE DEF Goes, process, children
<1>1. TypeOK /\ LoopsKnow /\ ReconcilersKnow /\ RecordInv
  BY Parts
<1>2. UNCHANGED <<record, children, act, process>>
  BY DEF Dequeue, ReadRun, Claim, SkipStep, LeaveWaiting, Check, InvokeFails, LeaveParked,
         Release
<1>3. RecordInv' /\ ReconcilersKnow'
  BY <1>1, <1>2, RecordKept, ReconcilersKept
<1>4. TypeOK' /\ LoopsKnow'
  <2> USE <1>1, <1>2 DEF TypeOK, Places, LoopsKnow, record
  <2>1. CASE Dequeue(w) BY <2>1 DEF Dequeue
  <2>2. CASE ReadRun(w)
    <3> DEFINE d == [Fresh EXCEPT !.snap = step]
    <3>1. d \in Data /\ d.snap = step /\ d.i = 1
      BY FreshTyped DEF Data
    <3>2. pc[w] = "dequeued" /\ pc' = [pc EXCEPT ![w] = "read"]
          /\ local' = [local EXCEPT ![w] = d] /\ UNCHANGED <<queue, claimed>>
      BY <2>2 DEF ReadRun
    <3> HIDE DEF d
    <3> QED BY <3>1, <3>2 DEF Steps
  <2>3. CASE Claim(w)
    <3>1. CASE claimed
      <4>1. pc' = [pc EXCEPT ![w] = "idle"] /\ local' = [local EXCEPT ![w] = Fresh]
            /\ UNCHANGED <<queue, claimed>>
        BY <2>3, <3>1 DEF Claim, Forgets
      <4>2. TypeOK' BY <4>1, FreshTyped
      <4>3. LoopsKnow' BY <4>1, FreshTyped, SMTT(60) DEF Steps
      <4> QED BY <4>2, <4>3
    <3>2. CASE ~claimed
      BY <2>3, <3>2 DEF Claim
    <3> QED BY <3>1, <3>2
  <2>4. CASE SkipStep(w)
    <3>1. local[w].i \in Steps /\ step[local[w].i] = "success"
      BY <2>4 DEF SkipStep, Skips, Steps, Data
    <3>2. local[w].i + 1 \in 1..(N + 1)
      BY <3>1 DEF Steps
    <3>3. \A i \in Steps : i < local[w].i + 1 => i < local[w].i \/ i = local[w].i
      BY DEF Steps, Data
    <3>4. UNCHANGED <<pc, queue, claimed>>
          /\ local' = [local EXCEPT ![w].i = local[w].i + 1] /\ pc[w] = "walk"
      BY <2>4 DEF SkipStep
    <3>5. TypeOK' BY <3>2, <3>4 DEF Data
    <3>6. LoopsKnow' BY <3>1, <3>2, <3>3, <3>4
    <3> QED BY <3>5, <3>6
  <2>5. CASE LeaveWaiting(w) BY <2>5 DEF LeaveWaiting
  <2>6. CASE Check(w) BY <2>6 DEF Check, Skips, Steps, Data
  <2>7. CASE InvokeFails(w) BY <2>7 DEF InvokeFails
  <2>8. CASE LeaveParked(w) BY <2>8 DEF LeaveParked
  <2>9. CASE Release(w)
    <3>1. pc' = [pc EXCEPT ![w] = "idle"] /\ local' = [local EXCEPT ![w] = Fresh]
          /\ UNCHANGED queue /\ claimed' = FALSE
      BY <2>9 DEF Release, Forgets
    <3>2. TypeOK' BY <3>1, FreshTyped
    <3>3. LoopsKnow' BY <3>1, FreshTyped DEF Steps
    <3> QED BY <3>2, <3>3
  <2> QED BY <2>1, <2>2, <2>3, <2>4, <2>5, <2>6, <2>7, <2>8, <2>9
<1> QED BY <1>3, <1>4 DEF ChildInv, RecordInv

\* A loop starts, ends, interrupts or fails the job, or gives the verdict: the job succeeds
\* at the end of its steps only, and the run with the job.
LEMMA JobKeeps ==
    ASSUME ChildInv, NEW w \in Workers,
           \/ Start(w) \/ MarkJobCompleted(w) \/ MarkJobInterrupted(w)
           \/ MarkJobFailed(w) \/ CheckRunCompletion(w)
    PROVE  ChildInv'
<1>1. TypeOK /\ LoopsKnow /\ ReconcilersKnow /\ RecordInv
  BY Parts
<1>2. UNCHANGED <<step, link, child, of, queue, act, asked, daemon, deaths>>
  BY DEF Start, MarkJobCompleted, MarkJobInterrupted, MarkJobFailed, CheckRunCompletion,
         children, process
<1>3. \E s \in {"walk", "idle", "verdict", "release", "throw"} :
        pc' = [pc EXCEPT ![w] = s]
  BY DEF Start, MarkJobCompleted, MarkJobInterrupted, MarkJobFailed, CheckRunCompletion,
         Writes, Goes
<1>4. UNCHANGED <<claimed, local>> \/ (local' = [local EXCEPT ![w] = Fresh] /\ UNCHANGED claimed)
  BY DEF Start, MarkJobCompleted, MarkJobInterrupted, MarkJobFailed, CheckRunCompletion,
         Forgets
<1>5. /\ status' \in JobState
      /\ status' = "success" => status = "success" \/ pc[w] = "complete"
  BY <1>1 DEF Start, MarkJobCompleted, MarkJobInterrupted, MarkJobFailed,
         CheckRunCompletion, Writes, Goes, TypeOK, JobState
<1>6. run' \in RunState /\ (run' = "success" => run = "success" \/ status = "success")
  BY <1>1 DEF Start, MarkJobCompleted, MarkJobInterrupted, MarkJobFailed,
         CheckRunCompletion, Verdict, TypeOK, RunState
<1>7. TypeOK'
  BY <1>1, <1>2, <1>3, <1>4, <1>5, <1>6, FreshTyped DEF TypeOK, Places
<1>8. LoopsKnow'
  BY <1>1, <1>2, <1>3, <1>4, FreshTyped, SMTT(60) DEF TypeOK, LoopsKnow, Steps
<1>9. ReconcilersKnow'
  BY <1>1, <1>2, ReconcilersKept
<1>10. RecordInv'
  <2>1. pc[w] = "complete" => \A i \in Steps : step[i] = "success"
    BY <1>1 DEF LoopsKnow, Steps
  <2> QED BY <2>1, <1>1, <1>2, <1>5, <1>6 DEF RecordInv, LinksAreOwn, JobIsDone,
             ResultIsChilds, ChildrenInOrder
<1> QED BY <1>7, <1>8, <1>9, <1>10 DEF ChildInv, RecordInv

\* The invocation: a new run becomes the child of the step the loop has come to.
LEMMA InvokeKeeps == ASSUME ChildInv, NEW w \in Workers, Invoke(w) PROVE ChildInv'
<1>1. TypeOK /\ LoopsKnow /\ ReconcilersKnow /\ RecordInv
  BY Parts
<1>2. PICK c \in Children :
        /\ child[c] = "none" /\ child' = [child EXCEPT ![c] = "open"]
        /\ of' = [of EXCEPT ![c] = local[w].i]
        /\ local' = [local EXCEPT ![w].child = c]
  BY DEF Invoke
<1>3. /\ pc[w] = "invoke" /\ pc' = [pc EXCEPT ![w] = "park"]
      /\ UNCHANGED <<run, status, step, link, queue, claimed, act, asked, daemon, deaths>>
  BY DEF Invoke, Goes, record, process
<1>4. local[w].i \in Steps /\ of[c] = 0 /\ c # None
  BY <1>1, <1>2, <1>3, ChildAssumption DEF LoopsKnow, RecordInv, LinksAreOwn
<1>5. TypeOK'
  BY <1>1, <1>2, <1>3, <1>4 DEF TypeOK, Places, Data
<1>6. LoopsKnow'
  BY <1>1, <1>2, <1>3, <1>4 DEF TypeOK, LoopsKnow, Data, Steps
<1>7. ReconcilersKnow'
  <2>1. \A d \in Children : of[d] # 0 => of'[d] = of[d]
    BY <1>1, <1>2, <1>4 DEF TypeOK
  <2>2. \A d \in Children : child[d] \in ChildEnd => child'[d] = child[d]
    BY <1>1, <1>2 DEF TypeOK, ChildEnd
  <2> QED BY <1>1, <1>3, <2>1, <2>2, ReconcilersKept
<1>8. RecordInv'
  <2> USE <1>1, <1>2, <1>3, <1>4 DEF TypeOK, RecordInv
  <2>1. LinksAreOwn' BY DEF LinksAreOwn, Steps
  <2>2. JobIsDone' BY DEF JobIsDone
  <2>3. ResultIsChilds' BY DEF ResultIsChilds
  <2>4. \A i \in 1..(local[w].i - 1) : step[i] = "success"
    BY DEF LoopsKnow, Data, Steps
  <2>5. ChildrenInOrder'
    BY <2>4 DEF ChildrenInOrder
  <2> QED BY <2>1, <2>2, <2>3, <2>5
<1> QED BY <1>5, <1>6, <1>7, <1>8 DEF ChildInv, RecordInv

\* The parking: the step is linked to the child the loop has just made for it.
LEMMA ParkKeeps == ASSUME ChildInv, NEW w \in Workers, Park(w) PROVE ChildInv'
<1>1. TypeOK /\ LoopsKnow /\ ReconcilersKnow /\ RecordInv
  BY Parts
<1> DEFINE i == local[w].i  c == local[w].child
<1>2. pc[w] = "park" /\ i \in Steps /\ c \in Children /\ of[c] = i /\ c # None
  BY <1>1 DEF Park, LoopsKnow, TypeOK, Data
<1>3. UNCHANGED <<run, child, of, queue, claimed, local, asked, daemon, deaths>>
  BY DEF Park, children, process
<1>4. CASE /\ step[i] # "success"
           /\ pc' = [pc EXCEPT ![w] = "settle"] /\ status' = "waiting_child"
           /\ step' = [step EXCEPT ![i] = "waiting_child"]
           /\ link' = [link EXCEPT ![i] = c]
           /\ act' = [act EXCEPT ![Loop(w)] = [Rest EXCEPT !.at = "notice", !.child = c]]
  <2> DEFINE n == [Rest EXCEPT !.at = "notice", !.child = c]
  <2>1. n \in Activity /\ n.at = "notice" /\ n.child = c
    BY <1>2 DEF Rest, Activity
  <2>2. act' = [act EXCEPT ![Loop(w)] = n]
    BY <1>4
  <2> HIDE DEF n, i, c
  <2>3. TypeOK'
    BY <1>1, <1>2, <1>3, <1>4, <2>1, <2>2 DEF TypeOK, Places, StepState, JobState
  <2>4. LoopsKnow'
    BY <1>1, <1>2, <1>3, <1>4 DEF TypeOK, LoopsKnow, Steps
  <2>5. ReconcilersKnow'
    BY <1>1, <1>2, <1>3, <2>1, <2>2 DEF TypeOK, ReconcilersKnow
  <2>6. RecordInv'
    <3> USE <1>1, <1>2, <1>3, <1>4 DEF TypeOK, RecordInv
    <3>1. LinksAreOwn' BY DEF LinksAreOwn
    <3>2. JobIsDone' BY DEF JobIsDone
    <3>3. ResultIsChilds' BY DEF ResultIsChilds
    <3>4. ChildrenInOrder' BY DEF ChildrenInOrder, Steps
    <3> QED BY <3>1, <3>2, <3>3, <3>4
  <2> QED BY <2>3, <2>4, <2>5, <2>6 DEF ChildInv, RecordInv
<1>5. CASE pc' = [pc EXCEPT ![w] = "throw"] /\ UNCHANGED <<status, step, link, act>>
  <2>1. TypeOK' /\ LoopsKnow'
    BY <1>1, <1>3, <1>5 DEF TypeOK, Places, LoopsKnow
  <2>2. RecordInv' /\ ReconcilersKnow'
    BY <1>1, <1>3, <1>5, RecordKept, ReconcilersKept DEF record, children
  <2> QED BY <2>1, <2>2 DEF ChildInv, RecordInv
<1>6. step[i] = "success" => ~StepLegal(step[i], "waiting_child")
  BY DEF StepLegal, StepTransitions
<1> QED BY <1>4, <1>5, <1>6 DEF Park, Goes

-----------------------------------------------------------------------------
\* What a loop knows survives that its stage becomes "throw", or that it is gone.
LEMMA Thrown ==
    ASSUME TypeOK, LoopsKnow, UNCHANGED local,
           \A w \in Workers : pc'[w] = pc[w] \/ pc'[w] = "throw",
           \A i \in Steps : step[i] = "success" => step'[i] = "success",
           \A c \in Children : of[c] # 0 => of'[c] = of[c]
    PROVE  LoopsKnow'
BY DEF TypeOK, LoopsKnow, Data, Steps

\* A reconciliation that goes on, ends or throws: where the loops are then.
LEMMA Throwing ==
    ASSUME TypeOK, NEW a \in Acts, Throws(a) \/ UNCHANGED pc
    PROVE  /\ pc' \in [Workers -> Places]
           /\ \A w \in Workers : pc'[w] = pc[w] \/ pc'[w] = "throw"
BY DEF TypeOK, Throws, Places

LEMMA RestTyped == Rest \in Activity /\ Rest.at = "idle"
BY DEF Rest, Activity

\* The steps of a reconciliation that write neither the record nor a child.
LEMMA LookingKeeps ==
    ASSUME ChildInv, NEW a \in Acts,
           Notice(a) \/ Scan(a) \/ LookAtChild(a) \/ EnqueueParent(a)
    PROVE  ChildInv'
<1>1. TypeOK /\ LoopsKnow /\ ReconcilersKnow /\ RecordInv
  BY Parts
<1>2. UNCHANGED <<record, children, claimed, local, process, pc>>
  BY DEF Notice, Scan, LookAtChild, EnqueueParent, Turns, Ends
<1>3. RecordInv' /\ LoopsKnow'
  BY <1>1, <1>2, RecordKept, LoopsKept DEF record, children
<1>4. queue' \in Nat
  BY <1>1 DEF Notice, Scan, LookAtChild, EnqueueParent, TypeOK
<1>5. TypeOK' /\ ReconcilersKnow'
  <2> USE <1>1, <1>2, <1>4 DEF TypeOK, ReconcilersKnow, record, children, process
  <2>1. CASE act' = [act EXCEPT ![a] = Rest]
    BY <2>1, RestTyped
  <2>2. CASE Notice(a) /\ act' = [act EXCEPT ![a].at = "scan"]
    BY <2>2 DEF Activity
  <2>3. CASE Scan(a) /\ Waiting # {}
    <3>1. PICK i \in Waiting :
            act' = [act EXCEPT ![a] = [at |-> IF run = "cancelled" THEN "cancel" ELSE "look",
                                       step |-> i, child |-> link[i]]]
      BY <2>3 DEF Scan
    <3>2. i \in Steps /\ link[i] \in Children /\ link[i] # None /\ of[link[i]] = i
      BY DEF Waiting, RecordInv, LinksAreOwn
    <3> DEFINE n == [at |-> IF run = "cancelled" THEN "cancel" ELSE "look",
                     step |-> i, child |-> link[i]]
    <3>3. n \in Activity /\ n.at \in {"cancel", "look"} /\ n.step = i /\ n.child = link[i]
      BY <3>2 DEF Activity
    <3>4. act' = [act EXCEPT ![a] = n]
      BY <3>1
    <3> HIDE DEF n
    <3> QED BY <3>2, <3>3, <3>4
  <2>4. CASE LookAtChild(a) /\ act' # [act EXCEPT ![a] = Rest]
    <3>1. \/ child[act[a].child] = "success" /\ act' = [act EXCEPT ![a].at = "complete"]
          \/ /\ child[act[a].child] \in {"failed", "cancelled"}
             /\ act' = [act EXCEPT ![a].at = "fail"]
      BY <2>4 DEF LookAtChild, Turns, Ends, ChildEnd
    <3>2. act[a].at = "look"
      BY <2>4 DEF LookAtChild
    <3> QED BY <3>1, <3>2 DEF Activity
  <2> QED BY <2>1, <2>2, <2>3, <2>4 DEF Notice, Scan, LookAtChild, EnqueueParent, Turns, Ends
<1> QED BY <1>3, <1>5 DEF ChildInv, RecordInv

\* A step is settled by a reconciliation that has found a child of it so.
LEMMA SettleKeeps ==
    ASSUME ChildInv, NEW a \in Acts, MarkStepCompleted(a) \/ MarkStepFailed(a)
    PROVE  ChildInv'
<1>1. TypeOK /\ LoopsKnow /\ ReconcilersKnow /\ RecordInv
  BY Parts
<1> DEFINE i == act[a].step  c == act[a].child
<1>2. UNCHANGED <<run, status, link, child, of, queue, claimed, local, asked, daemon, deaths>>
  BY DEF MarkStepCompleted, MarkStepFailed, StepWrite, children, process
<1>3. i \in Steps /\ c \in Children /\ c # None /\ of[c] = i
  BY <1>1 DEF MarkStepCompleted, MarkStepFailed, StepWrite, ReconcilersKnow, TypeOK, Activity
<1>4. \/ UNCHANGED step /\ Throws(a)
      \/ /\ UNCHANGED pc
         /\ act' = [act EXCEPT ![a].at = "resume"] \/ act' = [act EXCEPT ![a].at = "failJob"]
         /\ \/ step' = [step EXCEPT ![i] = "success"] /\ child[c] = "success"
            \/ /\ step' = [step EXCEPT ![i] = "failed"] /\ child[c] \in {"failed", "cancelled"}
               /\ step[i] # "success"
  BY <1>1 DEF MarkStepCompleted, MarkStepFailed, StepWrite, Turns, ReconcilersKnow,
         StepLegal, StepTransitions
<1> HIDE DEF i, c
<1>5. TypeOK'
  BY <1>1, <1>2, <1>3, <1>4, Throwing, RestTyped DEF TypeOK, StepState, Activity, Throws
<1>6. LoopsKnow'
  <2>1. \A j \in Steps : step[j] = "success" => step'[j] = "success"
    BY <1>1, <1>3, <1>4 DEF TypeOK
  <2> QED BY <1>1, <1>2, <1>4, <2>1, Throwing, Thrown
<1>7. ReconcilersKnow'
  BY <1>1, <1>2, <1>4, RestTyped DEF TypeOK, ReconcilersKnow, Activity, Throws
<1>8. RecordInv'
  <2> USE <1>1, <1>2, <1>3, <1>4 DEF TypeOK, RecordInv
  <2>1. LinksAreOwn' BY DEF LinksAreOwn
  <2>2. JobIsDone' BY DEF JobIsDone
  <2>3. ResultIsChilds' BY DEF ResultIsChilds
  <2>4. ChildrenInOrder'
    <3>1. \A j \in Steps : step[j] = "success" => step'[j] = "success"
      OBVIOUS
    <3>2. \A k \in Children : 1..(of[k] - 1) \subseteq Steps
      BY DEF Steps
    <3> HIDE <1>4
    <3> QED BY <3>1, <3>2 DEF ChildrenInOrder
  <2> QED BY <2>1, <2>2, <2>3, <2>4
<1> QED BY <1>5, <1>6, <1>7, <1>8 DEF ChildInv, RecordInv

\* The parent's job is queued again or failed, and the run with it.
LEMMA ResumeKeeps ==
    ASSUME ChildInv, NEW a \in Acts, ResumeJob(a) \/ FailJob(a) \/ FailRun(a)
    PROVE  ChildInv'
<1>1. TypeOK /\ LoopsKnow /\ ReconcilersKnow /\ RecordInv
  BY Parts
<1>2. UNCHANGED <<step, link, child, of, queue, claimed, local, asked, daemon, deaths>>
  BY DEF ResumeJob, FailJob, FailRun, JobWrite, children, process
<1>3. /\ status' \in JobState /\ (status' = "success" => status = "success")
      /\ run' \in RunState /\ (run' = "success" => run = "success" \/ status = "success")
  BY <1>1 DEF ResumeJob, FailJob, FailRun, JobWrite, Verdict, TypeOK, JobState, RunState
<1>4. /\ Throws(a) \/ UNCHANGED pc
      /\ \/ act' = [act EXCEPT ![a] = Rest]
         \/ act' = [act EXCEPT ![a].at = "enqueue"]
         \/ act' = [act EXCEPT ![a].at = "verdict"]
  BY DEF ResumeJob, FailJob, FailRun, JobWrite, Throws, Turns, Ends
<1>5. TypeOK'
  BY <1>1, <1>2, <1>3, <1>4, Throwing, RestTyped DEF TypeOK, Activity
<1>6. LoopsKnow'
  BY <1>1, <1>2, <1>4, Throwing, Thrown
<1>7. ReconcilersKnow'
  BY <1>1, <1>2, <1>4, RestTyped DEF TypeOK, ReconcilersKnow, Activity
<1>8. RecordInv'
  BY <1>1, <1>2, <1>3 DEF RecordInv, LinksAreOwn, JobIsDone, ResultIsChilds, ChildrenInOrder
<1> QED BY <1>5, <1>6, <1>7, <1>8 DEF ChildInv, RecordInv

-----------------------------------------------------------------------------
\* A child ends: by itself, by a cancellation, or swept at start-up.
LEMMA ChildEndKept ==
    ASSUME TypeOK, RecordInv, UNCHANGED <<run, status, step, link, of>>,
           child' \in [Children -> ChildEnd \cup {"none", "open"}],
           \A c \in Children : child'[c] # child[c] => child[c] = "open" /\ child'[c] \in ChildEnd
    PROVE  RecordInv'
<1>1. LinksAreOwn' BY DEF TypeOK, RecordInv, LinksAreOwn, ChildEnd
<1>2. JobIsDone' BY DEF RecordInv, JobIsDone
<1>3. ResultIsChilds' BY DEF TypeOK, RecordInv, ResultIsChilds, ChildEnd
<1>4. ChildrenInOrder' BY DEF RecordInv, ChildrenInOrder
<1> QED BY <1>1, <1>2, <1>3, <1>4 DEF RecordInv

LEMMA CancelChildKeeps == ASSUME ChildInv, NEW a \in Acts, CancelChild(a) PROVE ChildInv'
<1>1. TypeOK /\ LoopsKnow /\ ReconcilersKnow /\ RecordInv
  BY Parts
<1> DEFINE c == act[a].child
<1>2. act[a].at = "cancel" /\ c \in Children /\ c # None
  BY <1>1 DEF CancelChild, ReconcilersKnow, TypeOK, Activity
<1>3. /\ child' = [child EXCEPT ![c] = IF child[c] = "open" THEN "cancelled" ELSE child[c]]
      /\ UNCHANGED <<record, of, queue, claimed, local, process, pc>>
      /\ act' = [act EXCEPT ![a] = Rest] \/ act' = [act EXCEPT ![a].at = "notice"]
  BY DEF CancelChild, Ends, Turns
<1> HIDE DEF c
<1>4. TypeOK'
  BY <1>1, <1>2, <1>3, RestTyped DEF TypeOK, Activity, ChildEnd, record, process
<1>5. LoopsKnow'
  BY <1>1, <1>3, LoopsKept DEF record
<1>6. ReconcilersKnow'
  BY <1>1, <1>2, <1>3, RestTyped DEF TypeOK, ReconcilersKnow, Activity, c
<1>7. RecordInv'
  BY <1>1, <1>2, <1>3, ChildEndKept DEF TypeOK, ChildEnd, record
<1> QED BY <1>4, <1>5, <1>6, <1>7 DEF ChildInv, RecordInv

LEMMA ChildEndsKeeps == ASSUME ChildInv, NEW c \in Children, ChildEnds(c) PROVE ChildInv'
<1>1. TypeOK /\ LoopsKnow /\ ReconcilersKnow /\ RecordInv
  BY Parts
<1> DEFINE n == [Rest EXCEPT !.at = "notice", !.child = c]
<1>2. PICK s \in ChildEnd : child' = [child EXCEPT ![c] = s]
  BY DEF ChildEnds
<1>3. /\ child[c] = "open" /\ act' = [act EXCEPT ![End(c)] = n]
      /\ UNCHANGED <<record, of, queue, loops, process>>
  BY DEF ChildEnds
<1>4. n \in Activity /\ n.at = "notice" /\ n.child = c /\ c # None
  BY ChildAssumption DEF Rest, Activity
<1> HIDE DEF n
<1>5. TypeOK'
  BY <1>1, <1>2, <1>3, <1>4 DEF TypeOK, record, process, loops
<1>6. LoopsKnow'
  BY <1>1, <1>3, LoopsKept DEF record, loops
<1>7. ReconcilersKnow'
  BY <1>1, <1>2, <1>3, <1>4 DEF TypeOK, ReconcilersKnow
<1>8. RecordInv'
  BY <1>1, <1>2, <1>3, ChildEndKept DEF TypeOK, record
<1> QED BY <1>5, <1>6, <1>7, <1>8 DEF ChildInv, RecordInv

LEMMA CancelKeeps == ASSUME ChildInv, CancelParent \/ ListChildren \/ Ready PROVE ChildInv'
<1>1. TypeOK /\ LoopsKnow /\ ReconcilersKnow /\ RecordInv
  BY Parts
<1>2. UNCHANGED <<status, step, link, children, queue, loops, deaths>>
  BY DEF CancelParent, ListChildren, Ready, record
<1>3. run' = run \/ run' = "cancelled"
  BY DEF CancelParent, ListChildren, Ready, record
<1>4. \/ UNCHANGED act
      \/ act' = [a \in Acts |->
                   IF \E c \in Children : a = Canceller(c) /\ child[c] # "none"
                   THEN [Rest EXCEPT !.at = "cancel", !.child = a[2]] ELSE act[a]]
  BY DEF CancelParent, ListChildren, Ready
<1>5. act' \in [Acts -> Activity] /\ ReconcilersKnow'
  <2>1. ASSUME NEW a \in Acts
        PROVE  \/ act'[a] = act[a]
               \/ act'[a] \in Activity /\ act'[a].at = "cancel" /\ act'[a].child # None
    <3>1. ASSUME NEW c \in Children, a = Canceller(c)
          PROVE  LET n == [Rest EXCEPT !.at = "cancel", !.child = a[2]]
                 IN  n \in Activity /\ n.at = "cancel" /\ n.child # None
      BY <3>1, ChildAssumption DEF Canceller, Rest, Activity
    <3> QED BY <3>1, <1>4
  <2>2. act' \in [Acts -> Activity]
    BY <1>1, <1>4, <2>1 DEF TypeOK
  <2> QED BY <1>1, <1>2, <2>1, <2>2 DEF ReconcilersKnow, children
<1>6. TypeOK'
  BY <1>1, <1>2, <1>3, <1>5 DEF TypeOK, children, loops, RunState, CancelParent, ListChildren,
     Ready
<1>7. LoopsKnow'
  BY <1>1, <1>2, LoopsKept DEF loops, children
<1>8. RecordInv'
  BY <1>1, <1>2, <1>3 DEF RecordInv, LinksAreOwn, JobIsDone, ResultIsChilds, ChildrenInOrder,
     children
<1> QED BY <1>5, <1>6, <1>7, <1>8 DEF ChildInv, RecordInv

LEMMA CrashKeeps == ASSUME ChildInv, Crash PROVE ChildInv'
<1>1. TypeOK /\ LoopsKnow /\ ReconcilersKnow /\ RecordInv
  BY Parts
<1>2. UNCHANGED <<record, children, queue>> /\ act' = [a \in Acts |-> Rest]
      /\ pc' = [w \in Workers |-> "idle"] /\ local' = [w \in Workers |-> Fresh]
  BY DEF Crash
<1>3. TypeOK'
  <2>1. pc' \in [Workers -> Places] /\ local' \in [Workers -> Data]
        /\ act' \in [Acts -> Activity]
    BY <1>2, FreshTyped, RestTyped DEF Places
  <2>2. claimed' \in BOOLEAN
    BY DEF Crash
  <2>4. asked' \in {"no", "list", "done"} /\ daemon' \in {"up", "down", "starting"}
    BY <1>1 DEF Crash, TypeOK
  <2>5. deaths' \in Nat
    BY <1>1 DEF Crash, TypeOK
  <2>3. UNCHANGED <<run, status, step, link, child, of, queue>>
    BY <1>2 DEF record, children
  <2> QED BY <1>1, <2>1, <2>2, <2>3, <2>4, <2>5 DEF TypeOK
<1>4. LoopsKnow' /\ ReconcilersKnow'
  BY <1>2, FreshTyped, RestTyped DEF LoopsKnow, ReconcilersKnow, Steps
<1>5. RecordInv'
  BY <1>1, <1>2, RecordKept
<1> QED BY <1>3, <1>4, <1>5 DEF ChildInv, RecordInv

LEMMA RestartKeeps == ASSUME ChildInv, Restart PROVE ChildInv'
<1>1. TypeOK /\ LoopsKnow /\ ReconcilersKnow /\ RecordInv
  BY Parts
<1>2. /\ UNCHANGED <<step, link, of, loops, asked, deaths>> /\ daemon' = "starting"
      /\ act' = [act EXCEPT ![Boot] = [Rest EXCEPT !.at = "scan"]]
      /\ child' = [c \in Children |->
                     IF child[c] = "open" /\ AwaitedBy(c) = {} THEN "failed" ELSE child[c]]
  BY DEF Restart, StartReconciling
<1>3. /\ run' = run \/ run' = "failed"
      /\ status' \in {status, "failed", "queued"}
      /\ queue' \in {queue, queue + 1}
  BY DEF Restart
<1>4. /\ child' \in [Children -> ChildEnd \cup {"none", "open"}]
      /\ \A c \in Children : child'[c] # child[c] => child[c] = "open" /\ child'[c] \in ChildEnd
  BY <1>1, <1>2 DEF TypeOK, ChildEnd
<1>5. TypeOK'
  <2>1. [Rest EXCEPT !.at = "scan"] \in Activity
    BY DEF Rest, Activity
  <2>2. act' \in [Acts -> Activity]
    BY <1>1, <1>2, <2>1 DEF TypeOK
  <2>3. run' \in RunState /\ status' \in JobState /\ queue' \in Nat
    BY <1>1, <1>3 DEF TypeOK, RunState, JobState
  <2> QED BY <1>1, <1>2, <1>4, <2>2, <2>3 DEF TypeOK, loops
<1>6. LoopsKnow'
  BY <1>1, <1>2, LoopsKept DEF loops
<1>7. ReconcilersKnow'
  <2>1. [Rest EXCEPT !.at = "scan"].at = "scan"
    BY DEF Rest
  <2> DEFINE n == [Rest EXCEPT !.at = "scan"]
  <2>2. act' = [act EXCEPT ![Boot] = n] /\ n.at = "scan"
    BY <1>2, <2>1
  <2>3. \A c \in Children : child[c] \in ChildEnd => child'[c] = child[c]
    BY <1>4 DEF ChildEnd
  <2> HIDE DEF n
  <2>4. ASSUME NEW a \in Acts PROVE act'[a] = act[a] \/ act'[a].at = "scan"
    BY <1>1, <2>2 DEF TypeOK
  <2> QED BY <1>1, <1>2, <2>3, <2>4 DEF TypeOK, ReconcilersKnow, ChildEnd, Activity
<1>8. RecordInv'
  <2>1. LinksAreOwn' BY <1>1, <1>2, <1>4 DEF TypeOK, RecordInv, LinksAreOwn, ChildEnd
  <2>2. JobIsDone' BY <1>1, <1>2, <1>3 DEF RecordInv, JobIsDone
  <2>3. ResultIsChilds' BY <1>1, <1>2, <1>4 DEF TypeOK, RecordInv, ResultIsChilds
  <2>4. ChildrenInOrder' BY <1>1, <1>2, <1>3 DEF RecordInv, ChildrenInOrder
  <2> QED BY <2>1, <2>2, <2>3, <2>4 DEF RecordInv
<1> QED BY <1>5, <1>6, <1>7, <1>8 DEF ChildInv, RecordInv

-----------------------------------------------------------------------------
\* The inductive invariant: what loops and reconciliations know stays true while others act.
THEOREM ChildInvHolds == Spec => []ChildInv
<1>1. ChildInv /\ [Next]_vars => ChildInv'
  <2> SUFFICES ASSUME ChildInv, [Next]_vars PROVE ChildInv'
    OBVIOUS
  <2>1. CASE UNCHANGED vars
    <3>1. UNCHANGED <<record, children, queue, loops, act, process>>
      BY <2>1 DEF vars
    <3>2. TypeOK /\ LoopsKnow /\ ReconcilersKnow /\ RecordInv
      BY Parts
    <3>3. RecordInv' /\ LoopsKnow' /\ ReconcilersKnow'
      BY <3>1, <3>2, RecordKept, LoopsKept, ReconcilersKept DEF record, children, loops
    <3>4. TypeOK'
      BY <3>1, <3>2 DEF TypeOK, record, children, loops, process
    <3> QED BY <3>3, <3>4 DEF ChildInv, RecordInv
  <2>2. ASSUME NEW w \in Workers, Work(w) PROVE ChildInv'
    BY <2>2, LoopKeeps, JobKeeps, InvokeKeeps, ParkKeeps DEF Work
  <2>3. ASSUME NEW a \in Acts, Reconcile(a) PROVE ChildInv'
    BY <2>3, LookingKeeps, SettleKeeps, ResumeKeeps, CancelChildKeeps DEF Reconcile
  <2> QED BY <2>1, <2>2, <2>3, ChildEndsKeeps, CancelKeeps, CrashKeeps, RestartKeeps DEF Next
<1> QED BY <1>1, ChildInit, PTL DEF Spec

\* A step is settled only by the end of a child of its own, and so.
THEOREM StepEndsWithItsChild == Spec => []ResultIsChilds
<1>1. ChildInv => ResultIsChilds
  BY DEF ChildInv
<1> QED BY <1>1, ChildInvHolds, PTL

\* A child is started only after the children of all earlier steps have succeeded.
THEOREM ChildrenAreInOrder == Spec => []ChildrenInOrder
<1>1. ChildInv => ChildrenInOrder
  BY DEF ChildInv
<1> QED BY <1>1, ChildInvHolds, PTL
===============================================================================
