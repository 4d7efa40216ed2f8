--------------------------- MODULE WorkerPool_proofs ---------------------------
(***************************************************************************)
(* For any number of calls, plugins and workers, any limits and any number *)
(* of deaths: the invariant PoolInv, with it that no waiting call is lost, *)
(* that no process executes two calls, that calls are counted exactly and  *)
(* processes stay within their maximum; that a worker told to leave gets   *)
(* no call; and that the pool implements CallService.                      *)
(***************************************************************************)
EXTENDS WorkerPool, FiniteSetTheorems, SequenceTheorems, TLAPS

USE PoolAssumption

----------------------------------------------------------------------------
(* How many workers there are.                                             *)

LEMMA SizeFinite == ASSUME NEW s PROVE IsFiniteSet(In(s)) /\ Cardinality(In(s)) \in Nat
<1>1. In(s) \in SUBSET Workers
  BY DEF In
<1> QED BY <1>1, FS_Subset, FS_CardinalityType

LEMMA SizeKept ==
    ASSUME NEW s, NEW t, \A w \in Workers : t[w] # "absent" => s[w] # "absent"
    PROVE  Cardinality(In(t)) <= Cardinality(In(s))
<1>1. In(t) \in SUBSET In(s)
  BY DEF In
<1> QED BY <1>1, SizeFinite, FS_Subset

\* The workers of s, and at most one more, which is starting.
Grown(s) ==
    \A v \in Workers : state'[v] = s[v] \/ (s[v] = "absent" /\ state'[v] = "starting")

LEMMA SpawnGrows ==
    ASSUME NEW s \in [Workers -> WorkerState], Cardinality(In(s)) < Max, Spawn(s)
    PROVE  /\ state' \in [Workers -> WorkerState]
           /\ Grown(s)
           /\ Cardinality(In(state')) <= Cardinality(In(s)) + 1
<1> DEFINE w == CHOOSE v \in Workers : s[v] = "absent"
<1>1. In(s) # Workers
  BY SizeFinite, FS_CardinalityType
<1>2. \E v \in Workers : s[v] = "absent"
  BY <1>1 DEF In
<1>3. w \in Workers /\ s[w] = "absent"
  BY <1>2
<1>4. state' = [s EXCEPT ![w] = "starting"]
  BY DEF Spawn
<1> HIDE DEF w
<1>5. In(state') = In(s) \cup {w}
  BY <1>3, <1>4 DEF In
<1>6. Cardinality(In(s) \cup {w}) <= Cardinality(In(s)) + 1
  <2> DEFINE S == In(s)
  <2>1. IsFiniteSet(S) /\ Cardinality(S) \in Nat
    BY SizeFinite
  <2> HIDE DEF S
  <2>2. Cardinality(S \cup {w}) = IF w \in S THEN Cardinality(S) ELSE Cardinality(S) + 1
    BY <2>1, FS_AddElement
  <2>3. Cardinality(S \cup {w}) <= Cardinality(S) + 1
    BY <2>1, <2>2
  <2> QED BY <2>3 DEF S
<1> QED BY <1>3, <1>4, <1>5, <1>6 DEF Grown, WorkerState

\* What the recovery of the pool's capacity does to the workers.
CapacityOK ==
    /\ state \in [Workers -> WorkerState]
    /\ CapacityBound
    /\ desired \in Nat /\ desired <= Max
    /\ recovery \in {"off", "spawning", "waiting"}

LEMMA MaintainGrows ==
    ASSUME NEW s \in [Workers -> WorkerState], Cardinality(In(s)) <= Max,
           NEW goal \in Nat, goal <= Max, Maintain(s, goal)
    PROVE  /\ state' \in [Workers -> WorkerState]
           /\ Grown(s) /\ CapacityBound'
           /\ recovery' \in {"off", "spawning", "waiting"}
<1>1. CASE ~closing /\ Cardinality(In(s)) < goal
  <2>1. Spawn(s) /\ recovery' = "spawning" /\ Cardinality(In(s)) < Max
    BY <1>1, SizeFinite DEF Maintain
  <2>2. Cardinality(In(state')) <= Max
    BY <2>1, SpawnGrows, SizeFinite
  <2> QED BY <2>1, <2>2, SpawnGrows DEF CapacityBound, Size
<1>2. CASE ~(~closing /\ Cardinality(In(s)) < goal)
  BY <1>2 DEF Maintain, Grown, CapacityBound, Size
<1> QED BY <1>1, <1>2

LEMMA RecoverGrows ==
    ASSUME CapacityOK, NEW s \in [Workers -> WorkerState], Cardinality(In(s)) <= Max,
           NEW target \in Nat, target <= Max, Recover(s, target)
    PROVE  CapacityOK' /\ Grown(s)
<1>1. desired' \in Nat /\ desired' <= Max
  BY DEF Recover, CapacityOK
<1>2. CASE recovery = "off"
  <2>1. Maintain(s, desired')
    BY <1>2 DEF Recover
  <2> QED BY <1>1, <2>1, MaintainGrows DEF CapacityOK
<1>3. CASE recovery # "off"
  BY <1>1, <1>3 DEF Recover, CapacityOK, Grown, CapacityBound, Size
<1> QED BY <1>2, <1>3

LEMMA RemoveGrows ==
    ASSUME CapacityOK, NEW w \in Workers, Remove(w)
    PROVE  CapacityOK' /\ Grown([state EXCEPT ![w] = "absent"])
<1> DEFINE s == [state EXCEPT ![w] = "absent"]
<1>1. s \in [Workers -> WorkerState] /\ Cardinality(In(s)) <= Max
  <2>1. Cardinality(In(s)) <= Cardinality(In(state))
    BY SizeKept DEF CapacityOK
  <2> QED BY <2>1, SizeFinite DEF CapacityOK, WorkerState, CapacityBound, Size
<1>2. CASE ~closing /\ Cardinality(In(s)) < Min
  BY <1>1, <1>2, RecoverGrows DEF Remove
<1>3. CASE ~(~closing /\ Cardinality(In(s)) < Min)
  BY <1>1, <1>3 DEF Remove, CapacityOK, Grown, CapacityBound, Size
<1> QED BY <1>2, <1>3

\* One worker of the pool changes its state.
LEMMA MoveKeeps ==
    ASSUME CapacityOK, NEW w \in Workers, state[w] # "absent",
           NEW x \in WorkerState, state' = [state EXCEPT ![w] = x],
           UNCHANGED <<desired, recovery>>
    PROVE  CapacityOK'
<1>1. Cardinality(In(state')) <= Cardinality(In(state))
  BY SizeKept DEF CapacityOK
<1> QED BY <1>1, SizeFinite DEF CapacityOK, CapacityBound, Size

----------------------------------------------------------------------------
(* Calls and their queue.                                                  *)

Distinct(q) == \A i, j \in 1..Len(q) : q[i] = q[j] => i = j
Elements(q) == {q[i] : i \in 1..Len(q)}

LEMMA AppendQueue ==
    ASSUME NEW q \in Seq(Calls), Distinct(q), NEW r \in Calls, r \notin Elements(q)
    PROVE  /\ Append(q, r) \in Seq(Calls) /\ Distinct(Append(q, r))
           /\ Elements(Append(q, r)) = Elements(q) \cup {r}
<1>1. /\ Append(q, r) \in Seq(Calls) /\ Len(q) \in Nat /\ Len(Append(q, r)) = Len(q) + 1
      /\ \A i \in 1..Len(q) : Append(q, r)[i] = q[i]
      /\ Append(q, r)[Len(q) + 1] = r
  BY AppendProperties, LenProperties
<1> QED BY <1>1 DEF Distinct, Elements

LEMMA TailQueue ==
    ASSUME NEW q \in Seq(Calls), Distinct(q), q # <<>>
    PROVE  /\ Head(q) \in Calls /\ Head(q) \in Elements(q)
           /\ Tail(q) \in Seq(Calls) /\ Distinct(Tail(q))
           /\ Elements(Tail(q)) = Elements(q) \ {Head(q)}
<1>1. /\ Len(q) \in Nat \ {0} /\ Head(q) = q[1] /\ Head(q) \in Calls
      /\ Tail(q) \in Seq(Calls) /\ Len(Tail(q)) = Len(q) - 1
      /\ \A i \in 1..(Len(q) - 1) : Tail(q)[i] = q[i + 1]
  BY HeadTailProperties, EmptySeq
<1>2. \A i \in 1..Len(q) : q[i] # Head(q) => i # 1 /\ q[i] = Tail(q)[i - 1]
  BY <1>1
<1> QED BY <1>1, <1>2 DEF Distinct, Elements

LEMMA WithoutQueue ==
    ASSUME NEW r \in Calls, queue \in Seq(Calls), Distinct(queue)
    PROVE  /\ Without(r) \in Seq(Calls) /\ Distinct(Without(r))
           /\ Elements(Without(r)) = Queued \ {r}
<1>1. CASE r \notin Queued
  BY <1>1 DEF Without, Queued, Elements
<1>2. CASE r \in Queued
  <2> DEFINE n == Len(queue)
             i == CHOOSE i \in 1..n : queue[i] = r
             t == Without(r)
  <2>1. n \in Nat /\ i \in 1..n /\ queue[i] = r
    BY <1>2, LenProperties DEF Queued
  <2>2. t = SubSeq(queue, 1, i - 1) \o SubSeq(queue, i + 1, n)
    BY <1>2 DEF Without
  <2> HIDE DEF i, t
  <2>3. /\ SubSeq(queue, 1, i - 1) \in Seq(Calls) /\ Len(SubSeq(queue, 1, i - 1)) = i - 1
        /\ \A k \in 1..(i - 1) : SubSeq(queue, 1, i - 1)[k] = queue[k]
    <3>1. \A k \in 1..(i - 1) : queue[k] \in Calls
      BY <2>1, ElementOfSeq
    <3> QED BY <2>1, <3>1, SubSeqProperties
  <2>4. /\ SubSeq(queue, i + 1, n) \in Seq(Calls) /\ Len(SubSeq(queue, i + 1, n)) = n - i
        /\ \A k \in 1..(n - i) : SubSeq(queue, i + 1, n)[k] = queue[i + k]
    <3>1. \A k \in (i + 1)..n : queue[k] \in Calls
      BY <2>1, ElementOfSeq
    <3>2. \A k \in 1..(n - (i + 1) + 1) : SubSeq(queue, i + 1, n)[k] = queue[(i + 1) + k - 1]
      BY <2>1, <3>1, SubSeqProperties
    <3>3. /\ SubSeq(queue, i + 1, n) \in Seq(Calls)
          /\ Len(SubSeq(queue, i + 1, n)) = IF i + 1 <= n THEN n - (i + 1) + 1 ELSE 0
      BY <2>1, <3>1, SubSeqProperties
    <3> QED BY <2>1, <3>2, <3>3
  <2>5. /\ t \in Seq(Calls) /\ Len(t) = n - 1
        /\ \A k \in 1..(n - 1) : t[k] = IF k < i THEN queue[k] ELSE queue[k + 1]
    <3>1. /\ t \in Seq(Calls) /\ Len(t) = (i - 1) + (n - i)
          /\ \A k \in 1..((i - 1) + (n - i)) :
               t[k] = IF k <= i - 1 THEN SubSeq(queue, 1, i - 1)[k]
                                    ELSE SubSeq(queue, i + 1, n)[k - (i - 1)]
      <4> DEFINE a == SubSeq(queue, 1, i - 1)
                 b == SubSeq(queue, i + 1, n)
      <4>1. a \in Seq(Calls) /\ b \in Seq(Calls) /\ Len(a) = i - 1 /\ Len(b) = n - i /\ t = a \o b
        BY <2>2, <2>3, <2>4
      <4> HIDE DEF a, b
      <4>2. /\ a \o b \in Seq(Calls) /\ Len(a \o b) = Len(a) + Len(b)
            /\ \A k \in 1..(Len(a) + Len(b)) :
                 (a \o b)[k] = IF k <= Len(a) THEN a[k] ELSE b[k - Len(a)]
        BY <4>1, ConcatProperties
      <4> QED BY <4>1, <4>2 DEF a, b
    <3> QED BY <2>1, <2>3, <2>4, <3>1
  <2>6. Distinct(t)
    <3>1. SUFFICES ASSUME NEW j \in 1..(n - 1), NEW k \in 1..(n - 1), t[j] = t[k]
                   PROVE  j = k
      BY <2>5 DEF Distinct
    <3>2. queue[IF j < i THEN j ELSE j + 1] = queue[IF k < i THEN k ELSE k + 1]
      BY <2>5, <3>1
    <3>3. (IF j < i THEN j ELSE j + 1) \in 1..n /\ (IF k < i THEN k ELSE k + 1) \in 1..n
      BY <2>1
    <3>4. (IF j < i THEN j ELSE j + 1) = (IF k < i THEN k ELSE k + 1)
      BY <3>2, <3>3 DEF Distinct
    <3> QED BY <2>1, <3>4
  <2>7. \A k \in 1..n : k # i => queue[k] # r /\ queue[k] = t[IF k < i THEN k ELSE k - 1]
    BY <2>1, <2>5 DEF Distinct
  <2>8. \A x \in Elements(t) : x \in Queued \ {r}
    <3>1. SUFFICES ASSUME NEW k \in 1..(n - 1) PROVE t[k] \in Queued \ {r}
      BY <2>5 DEF Elements
    <3>2. t[k] = queue[IF k < i THEN k ELSE k + 1]
      BY <2>5
    <3>3. (IF k < i THEN k ELSE k + 1) \in 1..n /\ (IF k < i THEN k ELSE k + 1) # i
      BY <2>1
    <3> QED BY <2>7, <3>2, <3>3 DEF Queued
  <2>9. \A x \in Queued \ {r} : x \in Elements(t)
    <3>1. SUFFICES ASSUME NEW k \in 1..n, k # i PROVE queue[k] \in Elements(t)
      BY <2>1 DEF Queued
    <3>2. (IF k < i THEN k ELSE k - 1) \in 1..(n - 1)
      BY <2>1, <3>1
    <3> QED BY <2>5, <2>7, <3>1, <3>2 DEF Elements
  <2> QED BY <2>5, <2>6, <2>8, <2>9 DEF t
<1> QED BY <1>1, <1>2

----------------------------------------------------------------------------
(* What a step does to the calls is one of these.                          *)

Same == UNCHANGED <<queue, job, answer, starts, count>>
Refuse(r, x) ==
    /\ answer[r] = "new" /\ answer' = [answer EXCEPT ![r] = x]
    /\ UNCHANGED <<queue, job, starts, count>>
Begin(r, w) ==
    /\ answer[r] = "new" /\ Admitted(r) /\ w \in Fresh
    /\ Dispatch(w, r) /\ CountIn(r) /\ UNCHANGED queue
Join(r) ==
    /\ answer[r] = "new" /\ Admitted(r)
    /\ queue' = Append(queue, r) /\ CountIn(r) /\ UNCHANGED <<job, starts>>
Hand(w) ==
    /\ queue # <<>> /\ w \in Fresh
    /\ Dispatch(w, Head(queue)) /\ queue' = Tail(queue) /\ UNCHANGED <<answer, count>>
GiveUp(r, x) ==
    /\ r \in Queued \/ answer[r] = "open"
    /\ queue' = Without(r) /\ Tell({r}, x) /\ UNCHANGED <<job, starts>>
Finish(w, x) ==
    /\ job' = [job EXCEPT ![w] = None] /\ Tell(Held(w), x) /\ UNCHANGED <<queue, starts>>
Flush(x) ==
    /\ queue' = <<>> /\ Tell(Queued, x) /\ UNCHANGED <<job, starts>>

CallStep ==
    \/ Same
    \/ \E r \in Calls, x \in Answers : Refuse(r, x) \/ GiveUp(r, x)
    \/ \E r \in Calls, w \in Workers : Begin(r, w)
    \/ \E r \in Calls : Join(r)
    \/ \E w \in Workers : Hand(w)
    \/ \E w \in Workers, x \in Answers : Finish(w, x)
    \/ \E x \in Answers : Flush(x)

LEMMA Steps == ASSUME [Next]_vars PROVE CallStep
<1> USE DEF vars, processVars, callVars, ownerVars
<1>1. ASSUME NEW r \in Calls, Call(r) PROVE CallStep
  <2>1. CASE CallRefused(r)
    <3>1. Refuse(r, "refused")
      BY <2>1 DEF CallRefused, Refuse
    <3> QED BY <3>1 DEF CallStep, Answers
  <2>2. CASE CallUnavailable(r)
    <3>1. Refuse(r, "unavailable")
      BY <2>2 DEF CallUnavailable, Refuse
    <3> QED BY <3>1 DEF CallStep, Answers
  <2>3. CASE CallBounced(r)
    <3>1. Refuse(r, "refused")
      BY <2>3 DEF CallBounced, Refuse
    <3> QED BY <3>1 DEF CallStep, Answers
  <2>4. CASE CallQueued(r)
    <3>1. Join(r)
      BY <2>4 DEF CallQueued, Join
    <3> QED BY <3>1 DEF CallStep
  <2>5. ASSUME NEW w \in Workers, CallServed(r, w) PROVE CallStep
    <3>1. Begin(r, w)
      BY <2>5 DEF CallServed, Begin
    <3> QED BY <3>1 DEF CallStep
  <2> QED BY <1>1, <2>1, <2>2, <2>3, <2>4, <2>5 DEF Call
<1>2. ASSUME NEW r \in Calls, AcquireTimeout(r) \/ AbortQueued(r) PROVE CallStep
  <2>1. GiveUp(r, "acquire_timeout") \/ GiveUp(r, "aborted")
    BY <1>2 DEF AcquireTimeout, AbortQueued, GiveUp
  <2> QED BY <2>1 DEF CallStep, Answers
<1>3. ASSUME NEW w \in Workers,
             \/ Result(w) \/ AbortRunning(w) \/ Timer(w) \/ ChildExits(w) \/ HealthFails(w)
      PROVE  CallStep
  <2>1. \/ Finish(w, "served") \/ Finish(w, "aborted") \/ Finish(w, "timeout")
        \/ Finish(w, "crashed")
    BY <1>3 DEF Result, AbortRunning, Timer, ExecutionTimeout, ShutdownTimeout, ChildExits,
                HealthFails, Kill, Finish
  <2> QED BY <2>1 DEF CallStep, Answers
<1>4. ASSUME NEW w \in Workers,
             \/ KilledExits(w) \/ TreeUnverified(w) \/ SpawnReady(w) \/ SpawnDies(w)
             \/ Expire(w) \/ CheckHealth(w)
      PROVE  CallStep
  <2>1. Same
    BY <1>4 DEF KilledExits, TreeUnverified, SpawnReady, SpawnDies, Expire, CheckHealth, Same
  <2> QED BY <2>1 DEF CallStep
<1>5. ASSUME NEW w \in Workers, SpawnFails(w) PROVE CallStep
  <2>1. Flush("unavailable")
    BY <1>5 DEF SpawnFails, Flush
  <2> QED BY <2>1 DEF CallStep, Answers
<1>6. ASSUME Shutdown PROVE CallStep
  <2>1. Flush("shutdown")
    BY <1>6 DEF Shutdown, Flush
  <2> QED BY <2>1 DEF CallStep, Answers
<1>7. ASSUME HealthOk \/ RetrySpawn \/ LateExit \/ ServeDone \/ UNCHANGED vars PROVE CallStep
  <2>1. Same
    BY <1>7 DEF HealthOk, RetrySpawn, LateExit, ServeDone, Same
  <2> QED BY <2>1 DEF CallStep
<1>8. ASSUME NEW w \in Workers, ServeNext(w) PROVE CallStep
  <2>1. Hand(w)
    BY <1>8 DEF ServeNext, Hand
  <2> QED BY <2>1 DEF CallStep
<1> QED BY <1>1, <1>2, <1>3, <1>4, <1>5, <1>6, <1>7, <1>8
        DEF Next, ServeQueue, Turn, Timer, Exit, Start

----------------------------------------------------------------------------
(* Calls.                                                                  *)

CallsOK ==
    /\ queue \in Seq(Calls)
    /\ job \in [Workers -> Calls \cup {None}]
    /\ answer \in [Calls -> Answers \cup {"new", "open"}]
    /\ starts \in [Calls -> Nat]
    /\ CallsInv

\* The same, with the queue's own facts named.
LEMMA CallsShape ==
    CallsOK <=> /\ queue \in Seq(Calls) /\ Distinct(queue)
                /\ job \in [Workers -> Calls \cup {None}]
                /\ answer \in [Calls -> Answers \cup {"new", "open"}]
                /\ starts \in [Calls -> Nat]
                /\ \A r \in Elements(queue) : answer[r] = "open" /\ starts[r] = 0
                /\ \A w \in Workers : job[w] # None => starts[job[w]] = 1
                /\ \A v, w \in Workers : job[v] = job[w] /\ job[v] # None => v = w
                /\ \A r \in Calls :
                     /\ answer[r] = "new" => starts[r] = 0
                     /\ answer[r] = "open"
                          => r \in Elements(queue) \/ \E w \in Workers : job[w] = r
BY DEF CallsOK, CallsInv, Queued, Distinct, Elements

LEMMA CallsShapeNext ==
    CallsOK' <=> /\ queue' \in Seq(Calls) /\ Distinct(queue')
                 /\ job' \in [Workers -> Calls \cup {None}]
                 /\ answer' \in [Calls -> Answers \cup {"new", "open"}]
                 /\ starts' \in [Calls -> Nat]
                 /\ \A r \in Elements(queue') : answer'[r] = "open" /\ starts'[r] = 0
                 /\ \A w \in Workers : job'[w] # None => starts'[job'[w]] = 1
                 /\ \A v, w \in Workers : job'[v] = job'[w] /\ job'[v] # None => v = w
                 /\ \A r \in Calls :
                      /\ answer'[r] = "new" => starts'[r] = 0
                      /\ answer'[r] = "open"
                           => r \in Elements(queue') \/ \E w \in Workers : job'[w] = r
BY DEF CallsOK, CallsInv, Queued, Distinct, Elements

LEMMA QueuedIsElements == Queued = Elements(queue)
BY DEF Queued, Elements

Progress == Service!Next \/ UNCHANGED <<answer, starts>>

LEMMA CallsKept ==
    ASSUME CallsOK, \A w \in Fresh : w \in Workers /\ job[w] = None, CallStep
    PROVE  CallsOK' /\ Progress
<1> DEFINE Q == Elements(queue)
           Q2 == Elements(queue')
<1>q. /\ queue \in Seq(Calls) /\ Distinct(queue)
      /\ job \in [Workers -> Calls \cup {None}]
      /\ answer \in [Calls -> Answers \cup {"new", "open"}]
      /\ starts \in [Calls -> Nat]
      /\ \A r \in Q : answer[r] = "open" /\ starts[r] = 0
      /\ \A w \in Workers : job[w] # None => starts[job[w]] = 1
      /\ \A v, w \in Workers : job[v] = job[w] /\ job[v] # None => v = w
      /\ \A r \in Calls :
           /\ answer[r] = "new" => starts[r] = 0
           /\ answer[r] = "open" => r \in Q \/ \E w \in Workers : job[w] = r
  BY CallsShape
<1>s. /\ Q \subseteq Calls
      /\ "new" \notin Answers /\ "open" \notin Answers
  <2>1. \A j \in 1..Len(queue) : queue[j] \in Calls
    BY <1>q, ElementOfSeq
  <2> QED BY <2>1 DEF Elements, Answers
<1> USE DEF Progress, Service!Next, Service!Unanswered
<1>1. ASSUME Same PROVE CallsOK' /\ Progress
  BY <1>1, <1>q, CallsShapeNext DEF Same
<1>2. ASSUME NEW r \in Calls, NEW x \in Answers, Refuse(r, x) PROVE CallsOK' /\ Progress
  <2>1. answer' = [answer EXCEPT ![r] = x] /\ UNCHANGED <<queue, job, starts>>
        /\ answer[r] = "new"
    BY <1>2 DEF Refuse
  <2>2. r \notin Q
    BY <1>q, <2>1
  <2>3. CallsOK'
    BY <1>q, <1>s, <2>1, <2>2, CallsShapeNext
  <2>4. Service!Next
    BY <1>q, <1>s, <2>1
  <2> QED BY <2>3, <2>4
<1>3. ASSUME NEW r \in Calls, NEW w \in Workers, Begin(r, w) PROVE CallsOK' /\ Progress
  <2>1. /\ job[w] = None /\ answer[r] = "new" /\ queue' = queue
        /\ answer' = [answer EXCEPT ![r] = "open"]
        /\ job' = [job EXCEPT ![w] = r]
        /\ starts' = [starts EXCEPT ![r] = @ + 1]
    BY <1>3 DEF Begin, Dispatch, CountIn
  <2>2. starts[r] = 0 /\ r \notin Q /\ \A v \in Workers : job[v] # r
    BY <1>q, <2>1
  <2>3. CallsOK'
    BY <1>q, <1>s, <2>1, <2>2, CallsShapeNext
  <2>4. Service!Next
    BY <1>q, <2>1, <2>2
  <2> QED BY <2>3, <2>4
<1>4. ASSUME NEW r \in Calls, Join(r) PROVE CallsOK' /\ Progress
  <2>1. /\ answer[r] = "new" /\ queue' = Append(queue, r)
        /\ answer' = [answer EXCEPT ![r] = "open"] /\ UNCHANGED <<job, starts>>
    BY <1>4 DEF Join, CountIn
  <2>2. r \notin Q /\ starts[r] = 0
    BY <1>q, <2>1
  <2>3. queue' \in Seq(Calls) /\ Distinct(queue') /\ Q2 = Q \cup {r}
    BY <1>q, <2>1, <2>2, AppendQueue
  <2> HIDE DEF Q, Q2
  <2>4. CallsOK'
    BY <1>q, <1>s, <2>1, <2>2, <2>3, CallsShapeNext DEF Q2
  <2>5. Service!Next
    BY <1>q, <2>1, <2>2
  <2> QED BY <2>4, <2>5
<1>5. ASSUME NEW w \in Workers, Hand(w) PROVE CallsOK' /\ Progress
  <2> DEFINE r == Head(queue)
  <2>1. /\ r \in Calls /\ r \in Q /\ queue' \in Seq(Calls) /\ Distinct(queue')
        /\ Q2 = Q \ {r}
    BY <1>5, <1>q, TailQueue DEF Hand
  <2>2. /\ job[w] = None /\ answer' = answer
        /\ job' = [job EXCEPT ![w] = r]
        /\ starts' = [starts EXCEPT ![r] = @ + 1]
    BY <1>5 DEF Hand, Dispatch
  <2> HIDE DEF Q, Q2, r
  <2>3. starts[r] = 0 /\ answer[r] = "open" /\ \A v \in Workers : job[v] # r
    BY <1>q, <2>1
  <2>4. CallsOK'
    BY <1>q, <1>s, <2>1, <2>2, <2>3, CallsShapeNext DEF Q2
  <2>5. Service!Next
    BY <1>q, <2>1, <2>2, <2>3
  <2> QED BY <2>4, <2>5
<1>6. ASSUME NEW r \in Calls, NEW x \in Answers, GiveUp(r, x) PROVE CallsOK' /\ Progress
  <2>1. queue' \in Seq(Calls) /\ Distinct(queue') /\ Q2 = Q \ {r}
    BY <1>6, <1>q, WithoutQueue, QueuedIsElements DEF GiveUp
  <2>2. answer[r] = "open" /\ UNCHANGED <<job, starts>>
        /\ answer' = [c \in Calls |-> IF c \in Waiting({r}) THEN x ELSE answer[c]]
    BY <1>6, <1>q, QueuedIsElements DEF GiveUp, Tell
  <2>3. Waiting({r}) = {r}
    BY <2>2 DEF Waiting
  <2> HIDE DEF Q, Q2
  <2>4. CallsOK'
    BY <1>q, <1>s, <2>1, <2>2, <2>3, CallsShapeNext DEF Q2
  <2>5. Service!Next
    BY <1>q, <1>s, <2>2, <2>3
  <2> QED BY <2>4, <2>5
<1>7. ASSUME NEW w \in Workers, NEW x \in Answers, Finish(w, x) PROVE CallsOK' /\ Progress
  <2>1. /\ job' = [job EXCEPT ![w] = None] /\ UNCHANGED <<queue, starts>>
        /\ answer' = [c \in Calls |-> IF c \in Waiting(Held(w)) THEN x ELSE answer[c]]
    BY <1>7 DEF Finish, Tell
  <2>2. \A c \in Calls : c \in Waiting(Held(w)) <=> c = job[w] /\ answer[c] = "open"
    BY DEF Waiting, Held
  <2> HIDE DEF Q, Q2
  <2>3. \A c \in Q : c # job[w]
    <3>1. SUFFICES ASSUME NEW c \in Q, c = job[w] PROVE FALSE
      OBVIOUS
    <3>2. job[w] # None
      BY <1>s, <3>1
    <3> QED BY <1>q, <3>1, <3>2
  <2>4. CallsOK'
    BY <1>q, <1>s, <2>1, <2>2, <2>3, CallsShapeNext DEF Q
  <2>5. Service!Next
    BY <1>q, <1>s, <2>1, <2>2
  <2> QED BY <2>4, <2>5
<1>8. ASSUME NEW x \in Answers, Flush(x) PROVE CallsOK' /\ Progress
  <2>1. /\ queue' = <<>> /\ UNCHANGED <<job, starts>>
        /\ answer' = [c \in Calls |-> IF c \in Waiting(Queued) THEN x ELSE answer[c]]
    BY <1>8 DEF Flush, Tell
  <2>2. Waiting(Queued) = Q
    BY <1>q, QueuedIsElements DEF Waiting
  <2>3. queue' \in Seq(Calls) /\ Distinct(queue') /\ Q2 = {}
    BY <2>1, EmptySeq DEF Distinct, Elements
  <2> HIDE DEF Q, Q2
  <2>4. CallsOK'
    BY <1>q, <1>s, <2>1, <2>2, <2>3, CallsShapeNext DEF Q2
  <2>5. Service!Next
    BY <1>q, <1>s, <2>1, <2>2
  <2> QED BY <2>4, <2>5
<1> QED BY <1>1, <1>2, <1>3, <1>4, <1>5, <1>6, <1>7, <1>8 DEF CallStep

----------------------------------------------------------------------------
(* Workers.                                                                *)

WorkersOK ==
    /\ CapacityOK
    /\ job \in [Workers -> Calls \cup {None}]
    /\ handlers \in [Workers -> SUBSET Calls]
    /\ checked \in Workers \cup {None}
    /\ WorkersInv

\* One worker of the pool changes, the others and the pool's aims do not.
Moves(w, x, j, h) ==
    /\ state[w] # "absent" /\ x \in WorkerState \ {"absent", "starting"}
    /\ j \in Calls \cup {None} /\ h \in SUBSET Calls /\ \A y, z \in h : y = z
    /\ j # None => x \in {"busy", "draining"} /\ h = {j}
    /\ x = "idle" => h = {}
    /\ state' = [state EXCEPT ![w] = x] /\ job' = [job EXCEPT ![w] = j]
    /\ handlers' = [handlers EXCEPT ![w] = h]
    /\ checked' \in {checked, None} /\ UNCHANGED <<desired, recovery>>

LEMMA OneWorker ==
    ASSUME WorkersOK, NEW w \in Workers, NEW x, NEW j, NEW h, Moves(w, x, j, h)
    PROVE  WorkersOK'
<1>1. CapacityOK'
  BY MoveKeeps DEF WorkersOK, Moves
<1> QED BY <1>1 DEF WorkersOK, WorkersInv, CapacityOK, Moves

\* The pool grows, from workers that are as they were or from all but one of them.
LEMMA PoolGrows ==
    ASSUME WorkersOK, NEW s, Grown(s), CapacityOK',
           \A v \in Workers : /\ s[v] \in {state[v], "absent"}
                              /\ s[v] # state[v] => job'[v] = None /\ handlers'[v] = {},
           \A v \in Workers : /\ job'[v] = job[v] \/ job'[v] = None
                              /\ handlers'[v] = handlers[v]
                                 \/ (job'[v] = None /\ handlers'[v] = {}),
           job' \in [Workers -> Calls \cup {None}], handlers' \in [Workers -> SUBSET Calls],
           checked' \in {checked, None},
           checked' # None => s[checked'] = state[checked']
    PROVE  WorkersOK'
<1>1. checked' # None => state'[checked'] \notin {"absent", "starting"}
  BY DEF WorkersOK, WorkersInv, Grown
<1>2. ASSUME NEW v \in Workers
      PROVE  /\ job'[v] # None => state'[v] \in {"busy", "draining"} /\ handlers'[v] = {job'[v]}
             /\ state'[v] \in {"absent", "idle", "starting"} => handlers'[v] = {}
             /\ \A x, y \in handlers'[v] : x = y
  BY DEF WorkersOK, WorkersInv, Grown
<1> QED BY <1>1, <1>2 DEF WorkersOK, WorkersInv

LEMMA DispatchKeeps ==
    ASSUME WorkersOK, NEW w \in Fresh, NEW r \in Calls, Dispatch(w, r),
           UNCHANGED <<checked, desired, recovery>>
    PROVE  WorkersOK'
<1>1. w \in Workers /\ state[w] = "idle" /\ handlers[w] = {}
  BY DEF Fresh, WorkersOK, WorkersInv
<1>2. handlers' = [handlers EXCEPT ![w] = {r}]
  BY <1>1 DEF Dispatch
<1>3. Moves(w, "busy", r, {r})
  BY <1>1, <1>2 DEF Dispatch, Moves, WorkerState
<1> QED BY <1>1, <1>3, OneWorker

LEMMA KillKeeps ==
    ASSUME WorkersOK, NEW w \in Workers, state[w] # "absent", Kill(w), UNCHANGED handlers,
           checked' \in {checked, None}, UNCHANGED <<desired, recovery>>
    PROVE  WorkersOK'
<1>1. /\ handlers' = [handlers EXCEPT ![w] = handlers[w]] /\ handlers[w] \in SUBSET Calls
      /\ \A y, z \in handlers[w] : y = z
  BY DEF WorkersOK, WorkersInv
<1>2. Moves(w, "stopped", None, handlers[w])
  BY <1>1 DEF Kill, Moves, WorkerState
<1> QED BY <1>2, OneWorker

LEMMA RemoveKeeps ==
    ASSUME WorkersOK, NEW w \in Workers, Remove(w),
           job' = [job EXCEPT ![w] = None], handlers' = [handlers EXCEPT ![w] = {}]
    PROVE  WorkersOK'
<1> DEFINE s == [state EXCEPT ![w] = "absent"]
<1>1. CapacityOK' /\ Grown(s)
  BY RemoveGrows DEF WorkersOK
<1>2. checked' = IF checked = w THEN None ELSE checked
  BY DEF Remove, Forget
<1>3. /\ job' \in [Workers -> Calls \cup {None}] /\ handlers' \in [Workers -> SUBSET Calls]
      /\ \A v \in Workers : /\ v # w => s[v] = state[v] /\ job'[v] = job[v]
                                          /\ handlers'[v] = handlers[v]
                            /\ v = w => s[v] = "absent" /\ job'[v] = None
                                          /\ handlers'[v] = {}
  BY DEF WorkersOK, CapacityOK
<1>4. checked \in Workers \cup {None}
  BY DEF WorkersOK
<1> HIDE DEF s
<1> QED BY <1>1, <1>2, <1>3, <1>4, PoolGrows

\* The pool asks for workers and nothing else changes.
LEMMA AskKeeps ==
    ASSUME WorkersOK, CapacityOK', Grown(state), UNCHANGED <<job, handlers, checked>>
    PROVE  WorkersOK'
BY DEF WorkersOK, WorkersInv, CapacityOK, Grown

LEMMA AskForOne == Size < Max => Size + 1 \in Nat /\ Size + 1 <= Max
BY SizeFinite DEF Size

LEMMA CallKeepsWorkers ==
    ASSUME WorkersOK, NEW r \in Calls, Call(r)
    PROVE  WorkersOK'
<1> USE DEF processVars, callVars, ownerVars
<1>1. CASE CallRefused(r) \/ CallBounced(r)
  BY <1>1 DEF CallRefused, CallBounced, WorkersOK, WorkersInv, CapacityOK, CapacityBound, Size
<1>2. CASE CallUnavailable(r)
  <2>1. Recover(state, 1) /\ UNCHANGED <<job, handlers, checked>>
    BY <1>2 DEF CallUnavailable
  <2>2. CapacityOK' /\ Grown(state)
    BY <2>1, RecoverGrows DEF WorkersOK, CapacityOK, CapacityBound, Size
  <2> QED BY <2>1, <2>2, AskKeeps
<1>3. CASE CallQueued(r)
  <2>1. UNCHANGED <<job, handlers, checked>>
    BY <1>3 DEF CallQueued
  <2>2. CASE Size < Max
    <3>1. Recover(state, Size + 1)
      BY <1>3, <2>2 DEF CallQueued
    <3>2. CapacityOK' /\ Grown(state)
      BY <2>2, <3>1, AskForOne, RecoverGrows DEF WorkersOK, CapacityOK, CapacityBound, Size
    <3> QED BY <2>1, <3>2, AskKeeps
  <2>3. CASE ~(Size < Max)
    <3>1. UNCHANGED <<state, recovery, desired>>
      BY <1>3, <2>3 DEF CallQueued
    <3> QED BY <2>1, <3>1 DEF WorkersOK, WorkersInv, CapacityOK, CapacityBound, Size
  <2> QED BY <2>2, <2>3
<1>4. ASSUME NEW w \in Workers, CallServed(r, w) PROVE WorkersOK'
  BY <1>4, DispatchKeeps DEF CallServed
<1> QED BY <1>1, <1>2, <1>3, <1>4 DEF Call

LEMMA ServeKeepsWorkers ==
    ASSUME WorkersOK, queue \in Seq(Calls), ServeQueue
    PROVE  WorkersOK'
<1>1. CASE ServeDone
  BY <1>1 DEF ServeDone, WorkersOK, WorkersInv, CapacityOK, CapacityBound, Size
<1>2. ASSUME NEW w \in Workers, ServeNext(w) PROVE WorkersOK'
  <2>1. /\ w \in Fresh /\ Dispatch(w, Head(queue)) /\ queue # <<>>
        /\ UNCHANGED <<checked, desired, recovery>>
    BY <1>2 DEF ServeNext, ownerVars
  <2>2. Head(queue) \in Calls
    BY <2>1, HeadTailProperties
  <2> QED BY <2>1, <2>2, DispatchKeeps
<1> QED BY <1>1, <1>2 DEF ServeQueue

LEMMA WorkerKeepsWorkers ==
    ASSUME WorkersOK, NEW w \in Workers,
           Result(w) \/ AbortRunning(w) \/ Timer(w) \/ HealthFails(w)
    PROVE  WorkersOK'
<1>1. CASE Result(w)
  <2>1. handlers[w] \ {job[w]} = {} /\ state[w] # "absent"
    BY <1>1 DEF Result, WorkersOK, WorkersInv
  <2>2. handlers' = [handlers EXCEPT ![w] = {}]
    BY <1>1, <2>1 DEF Result
  <2>3. Moves(w, "idle", None, {})
    BY <1>1, <2>1, <2>2 DEF Result, Moves, WorkerState
  <2> QED BY <2>3, OneWorker
<1>2. CASE AbortRunning(w) \/ Timer(w) \/ HealthFails(w)
  <2>1. /\ Kill(w) /\ UNCHANGED <<handlers, desired, recovery>> /\ checked' \in {checked, None}
        /\ state[w] # "absent"
    BY <1>2 DEF AbortRunning, Timer, ExecutionTimeout, ShutdownTimeout, HealthFails,
                WorkersOK, WorkersInv
  <2> QED BY <2>1, KillKeeps
<1> QED BY <1>1, <1>2

LEMMA ExitKeepsWorkers ==
    ASSUME WorkersOK, NEW w \in Workers, Exit(w) \/ SpawnDies(w)
    PROVE  WorkersOK'
<1> USE DEF processVars, callVars, ownerVars
<1>1. CASE ChildExits(w)
  BY <1>1, RemoveKeeps DEF ChildExits
<1>2. CASE KilledExits(w)
  <2>1. job' = [job EXCEPT ![w] = None]
    BY <1>2 DEF KilledExits, WorkersOK, WorkersInv
  <2> QED BY <1>2, <2>1, RemoveKeeps DEF KilledExits
<1>3. CASE TreeUnverified(w)
  BY <1>3 DEF TreeUnverified, WorkersOK, WorkersInv, CapacityOK, CapacityBound, Size
<1>4. CASE SpawnDies(w)
  <2>1. job' = [job EXCEPT ![w] = None] /\ handlers' = [handlers EXCEPT ![w] = {}]
    BY <1>4 DEF SpawnDies, WorkersOK, WorkersInv
  <2> QED BY <1>4, <2>1, RemoveKeeps DEF SpawnDies
<1> QED BY <1>1, <1>2, <1>3, <1>4 DEF Exit

LEMMA StartKeepsWorkers ==
    ASSUME WorkersOK, NEW w \in Workers, SpawnReady(w) \/ SpawnFails(w)
    PROVE  WorkersOK'
<1>0. handlers[w] = {} /\ job[w] = None /\ checked # w /\ state[w] = "starting"
  BY DEF SpawnReady, SpawnFails, WorkersOK, WorkersInv
<1>1. CASE SpawnReady(w)
  <2> DEFINE s == [state EXCEPT ![w] = "idle"]
  <2>1. /\ Maintain(s, desired) /\ UNCHANGED <<job, handlers, checked, desired>>
    BY <1>1 DEF SpawnReady
  <2>2. s \in [Workers -> WorkerState] /\ Cardinality(In(s)) <= Max
    <3>1. Cardinality(In(s)) <= Cardinality(In(state))
      BY <1>0, SizeKept DEF WorkersOK, CapacityOK
    <3> QED BY <3>1, SizeFinite DEF WorkersOK, CapacityOK, CapacityBound, Size, WorkerState
  <2>3. CapacityOK' /\ Grown(s)
    BY <2>1, <2>2, MaintainGrows DEF WorkersOK, CapacityOK
  <2>4. \A v \in Workers : s[v] = IF v = w THEN "idle" ELSE state[v]
    BY DEF WorkersOK, CapacityOK
  <2> HIDE DEF s
  <2> QED BY <1>0, <2>1, <2>3, <2>4 DEF WorkersOK, WorkersInv, Grown
<1>2. CASE SpawnFails(w)
  <2>1. /\ state' = [state EXCEPT ![w] = "absent"] /\ recovery' = "waiting"
        /\ UNCHANGED <<job, handlers, desired>>
        /\ checked' = checked
    BY <1>0, <1>2 DEF SpawnFails, Forget
  <2>2. Cardinality(In(state')) <= Cardinality(In(state))
    BY <2>1, SizeKept DEF WorkersOK, CapacityOK
  <2>3. CapacityOK'
    BY <2>1, <2>2, SizeFinite DEF WorkersOK, CapacityOK, CapacityBound, Size, WorkerState
  <2> QED BY <1>0, <2>1, <2>3 DEF WorkersOK, WorkersInv, CapacityOK
<1> QED BY <1>1, <1>2

LEMMA OwnerKeepsWorkers ==
    ASSUME WorkersOK,
           \/ HealthOk \/ RetrySpawn \/ LateExit \/ Shutdown
           \/ \E w \in Workers : Expire(w) \/ CheckHealth(w)
           \/ \E r \in Calls : AcquireTimeout(r) \/ AbortQueued(r)
           \/ UNCHANGED vars
    PROVE  WorkersOK'
<1> USE DEF processVars, callVars, ownerVars
<1>1. CASE HealthOk \/ UNCHANGED vars \/ \E w \in Workers : Expire(w) \/ CheckHealth(w)
  BY <1>1 DEF HealthOk, vars, Expire, CheckHealth, WorkersOK, WorkersInv, CapacityOK,
              CapacityBound, Size
<1>2. CASE \E r \in Calls : AcquireTimeout(r) \/ AbortQueued(r)
  BY <1>2 DEF AcquireTimeout, AbortQueued, WorkersOK, WorkersInv, CapacityOK,
              CapacityBound, Size
<1>3. CASE RetrySpawn
  <2>1. Maintain(state, desired) /\ UNCHANGED <<job, handlers, checked, desired>>
    BY <1>3 DEF RetrySpawn
  <2>2. CapacityOK' /\ Grown(state)
    BY <2>1, MaintainGrows DEF WorkersOK, CapacityOK, CapacityBound, Size
  <2> QED BY <2>1, <2>2, AskKeeps
<1>4. CASE LateExit
  <2>1. UNCHANGED <<job, handlers, checked>>
    BY <1>4 DEF LateExit
  <2>2. CASE ~closing /\ Size < Min
    <3>1. Recover(state, Min)
      BY <1>4, <2>2 DEF LateExit
    <3>2. CapacityOK' /\ Grown(state)
      BY <3>1, RecoverGrows DEF WorkersOK, CapacityOK, CapacityBound, Size
    <3> QED BY <2>1, <3>2, AskKeeps
  <2>3. CASE ~(~closing /\ Size < Min)
    <3>1. UNCHANGED <<state, recovery, desired>>
      BY <1>4, <2>3 DEF LateExit
    <3> QED BY <2>1, <3>1 DEF WorkersOK, WorkersInv, CapacityOK, CapacityBound, Size
  <2> QED BY <2>2, <2>3
<1>5. CASE Shutdown
  <2>1. /\ state' = [w \in Workers |-> IF state[w] = "busy" THEN "draining" ELSE state[w]]
        /\ UNCHANGED <<job, handlers, checked, desired, recovery>>
    BY <1>5 DEF Shutdown
  <2>2. Cardinality(In(state')) <= Cardinality(In(state))
    BY <2>1, SizeKept
  <2>3. CapacityOK'
    BY <2>1, <2>2, SizeFinite DEF WorkersOK, CapacityOK, CapacityBound, Size, WorkerState
  <2> QED BY <2>1, <2>3 DEF WorkersOK, WorkersInv, CapacityOK
<1> QED BY <1>1, <1>2, <1>3, <1>4, <1>5

LEMMA WorkersKept ==
    ASSUME WorkersOK, queue \in Seq(Calls), [Next]_vars
    PROVE  WorkersOK'
BY CallKeepsWorkers, ServeKeepsWorkers, WorkerKeepsWorkers, ExitKeepsWorkers,
   StartKeepsWorkers, OwnerKeepsWorkers
   DEF Next, Turn, Start

----------------------------------------------------------------------------
(* The count of a plugin's calls.                                          *)

CountOK ==
    /\ count \in [Plugins -> Nat]
    /\ answer \in [Calls -> Answers \cup {"new", "open"}]
    /\ CountedIsOpen

OpenOf(p) == {r \in Calls : answer[r] = "open" /\ Plugin[r] = p}

LEMMA CountShape ==
    CountedIsOpen <=> \A p \in Plugins : count[p] = Cardinality(OpenOf(p)) /\ count[p] <= PerPlugin
<1>1. \A p \in Plugins : {r \in Waiting(Calls) : Plugin[r] = p} = OpenOf(p)
  BY DEF Waiting, OpenOf
<1> QED BY <1>1 DEF CountedIsOpen

LEMMA CountShapeNext ==
    CountedIsOpen'
      <=> \A p \in Plugins : count'[p] = Cardinality(OpenOf(p)') /\ count'[p] <= PerPlugin
<1>1. \A p \in Plugins : {r \in Waiting(Calls)' : Plugin[r] = p} = OpenOf(p)'
  BY DEF Waiting, OpenOf
<1> QED BY <1>1 DEF CountedIsOpen

LEMMA OpenFinite ==
    ASSUME NEW p PROVE IsFiniteSet(OpenOf(p)) /\ Cardinality(OpenOf(p)) \in Nat
<1>1. OpenOf(p) \in SUBSET Calls
  BY DEF OpenOf
<1> QED BY <1>1, FS_Subset, FS_CardinalityType

LEMMA CountInKeeps ==
    ASSUME CountOK, NEW r \in Calls, answer[r] = "new", Admitted(r), CountIn(r)
    PROVE  CountOK'
<1>1. /\ answer' = [answer EXCEPT ![r] = "open"]
      /\ count' = [count EXCEPT ![Plugin[r]] = @ + 1]
      /\ Plugin[r] \in Plugins /\ count[Plugin[r]] < PerPlugin
  BY DEF CountIn, Admitted
<1>2. ASSUME NEW p \in Plugins
      PROVE  count'[p] = Cardinality(OpenOf(p)') /\ count'[p] <= PerPlugin
  <2>1. count[p] = Cardinality(OpenOf(p)) /\ count[p] <= PerPlugin /\ count[p] \in Nat
    BY CountShape DEF CountOK
  <2>2. CASE p = Plugin[r]
    <3>1. OpenOf(p)' = OpenOf(p) \cup {r} /\ r \notin OpenOf(p)
      BY <1>1, <2>2 DEF OpenOf, CountOK
    <3>2. Cardinality(OpenOf(p) \cup {r}) = Cardinality(OpenOf(p)) + 1
      BY <3>1, OpenFinite, FS_AddElement
    <3> QED BY <1>1, <2>1, <2>2, <3>1, <3>2 DEF CountOK
  <2>3. CASE p # Plugin[r]
    <3>1. OpenOf(p)' = OpenOf(p)
      BY <1>1, <2>3 DEF OpenOf, CountOK
    <3> QED BY <1>1, <2>1, <2>3, <3>1 DEF CountOK
  <2> QED BY <2>2, <2>3
<1> QED BY <1>1, <1>2, CountShapeNext DEF CountOK

LEMMA TellKeeps ==
    ASSUME CountOK, NEW rs \in SUBSET Calls, NEW x \in Answers, Tell(rs, x)
    PROVE  CountOK'
<1>1. /\ answer' = [r \in Calls |-> IF r \in Waiting(rs) THEN x ELSE answer[r]]
      /\ count' = [p \in Plugins |->
                      count[p] - Cardinality({r \in Waiting(rs) : Plugin[r] = p})]
  BY DEF Tell
<1>2. answer' \in [Calls -> Answers \cup {"new", "open"}]
  BY <1>1 DEF CountOK
<1>3. ASSUME NEW p \in Plugins
      PROVE  count'[p] \in Nat /\ count'[p] = Cardinality(OpenOf(p)') /\ count'[p] <= PerPlugin
  <2> DEFINE O == OpenOf(p)
             T == {r \in Waiting(rs) : Plugin[r] = p}
  <2>1. count[p] = Cardinality(O) /\ count[p] <= PerPlugin /\ count[p] \in Nat
    BY CountShape DEF CountOK
  <2>2. T \subseteq O /\ OpenOf(p)' = O \ T
    BY <1>1 DEF OpenOf, Waiting, Answers
  <2>3. IsFiniteSet(O)
    BY OpenFinite
  <2>4. count'[p] = count[p] - Cardinality(T)
    BY <1>1
  <2> HIDE DEF O, T
  <2>5. O \cap T = T
    BY <2>2
  <2>6. IsFiniteSet(O \ T) /\ Cardinality(O \ T) = Cardinality(O) - Cardinality(O \cap T)
    BY <2>3, FS_Difference
  <2>7. Cardinality(O \ T) \in Nat /\ Cardinality(T) \in Nat
    BY <2>2, <2>3, <2>6, FS_Subset, FS_CardinalityType
  <2> QED BY <2>1, <2>2, <2>4, <2>5, <2>6, <2>7
<1>4. count' \in [Plugins -> Nat]
  BY <1>1, <1>3
<1> QED BY <1>2, <1>3, <1>4, CountShapeNext DEF CountOK

LEMMA CountKept == ASSUME CountOK, CallsOK, CallStep PROVE CountOK'
<1>1. ASSUME UNCHANGED <<answer, count>> PROVE CountOK'
  BY <1>1, CountShape, CountShapeNext DEF CountOK, OpenOf
<1>2. ASSUME NEW r \in Calls, NEW x \in Answers, Refuse(r, x) PROVE CountOK'
  <2>1. answer[r] = "new" /\ answer' = [answer EXCEPT ![r] = x] /\ count' = count
    BY <1>2 DEF Refuse
  <2>2. \A p \in Plugins : OpenOf(p)' = OpenOf(p)
    BY <2>1 DEF OpenOf, CountOK, Answers
  <2> QED BY <2>1, <2>2, CountShape, CountShapeNext DEF CountOK
<1>3. ASSUME NEW r \in Calls, Join(r) \/ \E w \in Workers : Begin(r, w) PROVE CountOK'
  BY <1>3, CountInKeeps DEF Join, Begin
<1>4. ASSUME NEW rs \in SUBSET Calls, NEW x \in Answers, Tell(rs, x) PROVE CountOK'
  BY <1>4, TellKeeps
<1>5. Queued \in SUBSET Calls
  <2>1. \A i \in 1..Len(queue) : queue[i] \in Calls
    BY ElementOfSeq DEF CallsOK
  <2> QED BY <2>1 DEF Queued
<1>6. \A w : Held(w) \in SUBSET Calls
  BY DEF Held
<1> QED BY <1>1, <1>2, <1>3, <1>4, <1>5, <1>6
        DEF CallStep, Same, Hand, GiveUp, Finish, Flush

----------------------------------------------------------------------------
(* The workers that are told to leave.                                     *)

LeavingOK ==
    /\ expired \in SUBSET Workers /\ leaving \in SUBSET Workers
    /\ closing \in BOOLEAN
    /\ LeavingInv

\* Nobody leaves anew, or only expired workers do, or a worker is forgotten.
LeavingStep ==
    \/ /\ \E met \in SUBSET Tired : leaving' = leaving \cup met
       /\ expired' = expired /\ closing' = closing
       /\ queue' = queue \/ queue # <<>> \/ ~closing
    \/ /\ \E w \in Workers : Forget(w)
       /\ closing' = closing /\ (queue' = queue \/ queue' = <<>>)
    \/ /\ \E w \in Workers : expired' = expired \cup {w}
       /\ UNCHANGED <<leaving, closing, queue>>
    \/ /\ closing' = TRUE /\ queue' = <<>> /\ expired' = expired
       /\ leaving' \subseteq leaving \cup Workers

LEMMA LeavingSteps == ASSUME CallsOK, [Next]_vars PROVE LeavingStep
<1> USE DEF vars, processVars, callVars, ownerVars
<1>0. leaving' = leaving <=> leaving' = leaving \cup {}
  OBVIOUS
<1>1. ASSUME NEW r \in Calls, Call(r) PROVE LeavingStep
  <2>1. CASE CallRefused(r) \/ CallUnavailable(r)
    <3>1. UNCHANGED <<leaving, expired, closing, queue>>
      BY <2>1 DEF CallRefused, CallUnavailable
    <3> QED BY <1>0, <3>1 DEF LeavingStep
  <2>2. CASE CallBounced(r) \/ CallQueued(r)
    <3>1. leaving' = leaving \cup Tired /\ UNCHANGED <<expired, closing>>
          /\ (queue' = queue \/ ~closing)
      BY <2>2 DEF CallBounced, CallQueued, Admitted
    <3> QED BY <3>1 DEF LeavingStep
  <2>3. ASSUME NEW w \in Workers, CallServed(r, w) PROVE LeavingStep
    <3>1. /\ \E met \in SUBSET Tired : leaving' = leaving \cup met
          /\ UNCHANGED <<expired, closing, queue>>
      BY <2>3 DEF CallServed
    <3> QED BY <3>1 DEF LeavingStep
  <2> QED BY <1>1, <2>1, <2>2, <2>3 DEF Call
<1>2. ASSUME ServeQueue PROVE LeavingStep
  <2>1. CASE ServeDone
    <3>1. /\ leaving' = leaving \/ leaving' = leaving \cup Tired
          /\ UNCHANGED <<expired, closing, queue>>
      BY <2>1 DEF ServeDone
    <3> QED BY <1>0, <3>1 DEF LeavingStep
  <2>2. ASSUME NEW w \in Workers, ServeNext(w) PROVE LeavingStep
    <3>1. /\ \E met \in SUBSET Tired : leaving' = leaving \cup met
          /\ UNCHANGED <<expired, closing>> /\ queue # <<>>
      BY <2>2 DEF ServeNext
    <3> QED BY <3>1 DEF LeavingStep
  <2> QED BY <1>2, <2>1, <2>2 DEF ServeQueue
<1>3. ASSUME NEW r \in Calls, AcquireTimeout(r) \/ AbortQueued(r) PROVE LeavingStep
  <2>1. UNCHANGED <<leaving, expired, closing>> /\ queue' = Without(r)
    BY <1>3 DEF AcquireTimeout, AbortQueued
  <2>2. queue = <<>> => Queued = {}
    BY EmptySeq DEF Queued
  <2>3. queue = <<>> => queue' = queue
    BY <2>1, <2>2 DEF Without
  <2> QED BY <1>0, <2>1, <2>3 DEF LeavingStep
<1>4. ASSUME NEW w \in Workers,
             \/ Result(w) \/ AbortRunning(w) \/ Timer(w) \/ TreeUnverified(w) \/ SpawnReady(w)
             \/ CheckHealth(w) \/ HealthFails(w)
      PROVE  LeavingStep
  <2>1. UNCHANGED <<leaving, expired, closing, queue>>
    BY <1>4 DEF Result, AbortRunning, Timer, ExecutionTimeout, ShutdownTimeout, TreeUnverified,
                SpawnReady, CheckHealth, HealthFails
  <2> QED BY <1>0, <2>1 DEF LeavingStep
<1>5. ASSUME NEW w \in Workers,
             ChildExits(w) \/ KilledExits(w) \/ SpawnFails(w) \/ SpawnDies(w)
      PROVE  LeavingStep
  <2>1. Forget(w) /\ closing' = closing /\ (queue' = queue \/ queue' = <<>>)
    BY <1>5 DEF ChildExits, KilledExits, SpawnFails, SpawnDies, Remove
  <2> QED BY <2>1 DEF LeavingStep
<1>6. ASSUME NEW w \in Workers, Expire(w) PROVE LeavingStep
  BY <1>6 DEF Expire, LeavingStep
<1>7. ASSUME Shutdown PROVE LeavingStep
  BY <1>7, <1>0 DEF Shutdown, LeavingStep
<1>8. ASSUME HealthOk \/ RetrySpawn \/ LateExit \/ UNCHANGED vars PROVE LeavingStep
  <2>1. UNCHANGED <<leaving, expired, closing, queue>>
    BY <1>8 DEF HealthOk, RetrySpawn, LateExit
  <2> QED BY <1>0, <2>1 DEF LeavingStep
<1> QED BY <1>1, <1>2, <1>3, <1>4, <1>5, <1>6, <1>7, <1>8 DEF Next, Turn, Exit, Start

LEMMA LeavingKept == ASSUME LeavingOK, LeavingStep PROVE LeavingOK'
<1>1. Tired \subseteq expired /\ Tired \subseteq Workers
  BY DEF Tired
<1> USE DEF LeavingOK, LeavingInv
<1>2. CASE /\ \E met \in SUBSET Tired : leaving' = leaving \cup met
           /\ expired' = expired /\ closing' = closing
           /\ queue' = queue \/ queue # <<>> \/ ~closing
  BY <1>1, <1>2
<1>3. CASE /\ \E w \in Workers : Forget(w)
           /\ closing' = closing /\ (queue' = queue \/ queue' = <<>>)
  BY <1>3 DEF Forget
<1>4. CASE /\ \E w \in Workers : expired' = expired \cup {w}
           /\ UNCHANGED <<leaving, closing, queue>>
  BY <1>4
<1>5. CASE /\ closing' = TRUE /\ queue' = <<>> /\ expired' = expired
           /\ leaving' \subseteq leaving \cup Workers
  BY <1>5
<1> QED BY <1>2, <1>3, <1>4, <1>5 DEF LeavingStep

----------------------------------------------------------------------------
(* The invariant.                                                          *)

RestOK ==
    /\ unverified \in SUBSET Workers /\ viaQueue \in SUBSET Calls
    /\ gone \in Nat /\ deaths \in Nat /\ loop \in {"free", "queue"}

LEMMA RestKept == ASSUME RestOK, [Next]_vars PROVE RestOK'
<1> USE DEF RestOK, vars, processVars, callVars, ownerVars
<1>1. ASSUME NEW r \in Calls, Call(r) \/ AcquireTimeout(r) \/ AbortQueued(r) PROVE RestOK'
  BY <1>1 DEF Call, CallRefused, CallUnavailable, CallBounced, CallQueued, CallServed,
              AcquireTimeout, AbortQueued
<1>2. ASSUME NEW w \in Workers,
             Result(w) \/ AbortRunning(w) \/ Timer(w) \/ HealthFails(w) \/ SpawnReady(w)
      PROVE  RestOK'
  BY <1>2 DEF Result, AbortRunning, Timer, ExecutionTimeout, ShutdownTimeout, HealthFails,
              SpawnReady, WakeAfter, Dies
<1>3. ASSUME NEW w \in Workers, Exit(w) \/ SpawnFails(w) \/ SpawnDies(w) PROVE RestOK'
  BY <1>3 DEF Exit, ChildExits, KilledExits, TreeUnverified, SpawnFails, SpawnDies, Remove, Dies
<1>4. ASSUME NEW w \in Workers, Expire(w) \/ CheckHealth(w) \/ ServeNext(w) PROVE RestOK'
  BY <1>4 DEF Expire, CheckHealth, ServeNext
<1>5. ASSUME HealthOk \/ RetrySpawn \/ LateExit \/ Shutdown \/ ServeDone \/ UNCHANGED vars
      PROVE  RestOK'
  BY <1>5 DEF HealthOk, RetrySpawn, LateExit, Shutdown, ServeDone
<1> QED BY <1>1, <1>2, <1>3, <1>4, <1>5 DEF Next, ServeQueue, Turn, Start

LEMMA PoolShape ==
    PoolInv <=> CallsOK /\ WorkersOK /\ CountOK /\ LeavingOK /\ RestOK
BY DEF PoolInv, TypeOK, CallsOK, WorkersOK, CapacityOK, CountOK, LeavingOK, RestOK

LEMMA PoolStarts == Init => CallsOK /\ WorkersOK /\ CountOK /\ LeavingOK /\ RestOK
<1> SUFFICES ASSUME Init PROVE CallsOK /\ WorkersOK /\ CountOK /\ LeavingOK /\ RestOK
  OBVIOUS
<1>1. CallsOK
  <2>1. <<>> \in Seq(Calls) /\ Len(<<>>) = 0
    BY EmptySeq
  <2> QED BY <2>1 DEF Init, CallsOK, CallsInv, Queued
<1>2. WorkersOK
  <2>1. In(state) = First
    BY DEF Init, In
  <2>2. CapacityOK
    BY <2>1 DEF Init, CapacityOK, CapacityBound, Size, WorkerState
  <2> QED BY <2>2 DEF Init, WorkersOK, WorkersInv
<1>3. CountOK
  <2>1. \A p \in Plugins : OpenOf(p) = {}
    BY DEF Init, OpenOf
  <2>2. \A p \in Plugins : Cardinality(OpenOf(p)) = 0
    BY <2>1, FS_EmptySet
  <2>3. 0 <= PerPlugin
    OBVIOUS
  <2>4. \A p \in Plugins : count[p] = Cardinality(OpenOf(p)) /\ count[p] <= PerPlugin
    BY <2>2, <2>3 DEF Init
  <2>5. CountedIsOpen
    BY <2>4, CountShape
  <2> QED BY <2>5 DEF Init, CountOK
<1>4. LeavingOK /\ RestOK
  BY DEF Init, LeavingOK, LeavingInv, RestOK
<1> QED BY <1>1, <1>2, <1>3, <1>4

LEMMA FreshIsFree == ASSUME WorkersOK PROVE \A w \in Fresh : w \in Workers /\ job[w] = None
BY DEF Fresh, WorkersOK, WorkersInv

LEMMA PoolStep ==
    PoolInv /\ [Next]_vars => PoolInv' /\ Progress
<1> SUFFICES ASSUME PoolInv, [Next]_vars PROVE PoolInv' /\ Progress
  OBVIOUS
<1>1. CallsOK /\ WorkersOK /\ CountOK /\ LeavingOK /\ RestOK
  BY PoolShape
<1>2. CallStep /\ LeavingStep
  BY <1>1, Steps, LeavingSteps
<1>3. CallsOK' /\ Progress
  BY <1>1, <1>2, FreshIsFree, CallsKept
<1>4. WorkersOK'
  BY <1>1, WorkersKept DEF CallsOK
<1>5. CountOK' /\ LeavingOK' /\ RestOK'
  BY <1>1, <1>2, CountKept, LeavingKept, RestKept
<1>6. CallsOK' /\ WorkersOK' /\ CountOK' /\ LeavingOK' /\ RestOK' => PoolInv'
  BY PoolShape, PTL
<1> QED BY <1>3, <1>4, <1>5, <1>6

\* The inductive invariant of the pool: types, workers, calls, counts, capacity and
\* leaving workers.
THEOREM PoolInductive == Spec => []PoolInv
<1>1. Init => PoolInv
  BY PoolStarts, PoolShape
<1> QED BY <1>1, PoolStep, PTL DEF Spec

\* A call whose caller waits is in one place, whatever timers, aborts, exits and health
\* checks do.
THEOREM NoCallIsLost == Spec => []OpenCallIsHeld
<1>1. PoolInv => OpenCallIsHeld
  <2> SUFFICES ASSUME PoolInv PROVE OpenCallIsHeld
    OBVIOUS
  <2>1. \A i \in 1..Len(queue) : queue[i] \in Calls
    BY ElementOfSeq DEF PoolInv, TypeOK
  <2>2. Queued \subseteq Waiting(Calls)
    BY <2>1 DEF PoolInv, CallsInv, Queued, Waiting
  <2>3. ASSUME NEW r \in Waiting(Calls)
        PROVE  LET holders == {w \in Workers : job[w] = r} IN
               IF r \in Queued THEN holders = {} /\ starts[r] = 0
               ELSE \E w \in holders : /\ holders = {w}
                                       /\ state[w] \in {"busy", "draining"}
    <3>1. r \in Calls /\ answer[r] = "open" /\ r # None
      BY DEF Waiting
    <3> QED BY <3>1 DEF PoolInv, CallsInv, WorkersInv
  <2> QED BY <2>2, <2>3 DEF OpenCallIsHeld, PoolInv, CallsInv
<1> QED BY <1>1, PoolInductive, PTL

\* A child process executes one call at a time, and none when its worker is taken for idle.
THEOREM ProcessesRunOneCall == Spec => []OneHandler
<1>1. PoolInv => OneHandler
  <2> SUFFICES ASSUME PoolInv, NEW w \in Workers PROVE Cardinality(handlers[w]) <= 1
    BY DEF OneHandler, PoolInv, WorkersInv
  <2>1. CASE handlers[w] = {}
    BY <2>1, FS_EmptySet
  <2>2. CASE handlers[w] # {}
    <3>1. PICK x \in handlers[w] : TRUE
      BY <2>2
    <3>2. handlers[w] = {x}
      BY <3>1 DEF PoolInv, WorkersInv
    <3> QED BY <3>2, FS_Singleton
  <2> QED BY <2>1, <2>2
<1> QED BY <1>1, PoolInductive, PTL

\* The calls of a plugin are counted exactly, and processes stay within their maximum.
THEOREM CallsAreCounted == Spec => []CountedIsOpen
<1>1. PoolInv => CountedIsOpen
  BY DEF PoolInv
<1> QED BY <1>1, PoolInductive, PTL

THEOREM PoolIsBounded == Spec => []CapacityBound
<1>1. PoolInv => CapacityBound
  BY DEF PoolInv
<1> QED BY <1>1, PoolInductive, PTL

\* No call goes to a child that was told to shut down.
THEOREM LeaversGetNothing == Spec => LeavingGetNothing
<1>1. PoolInv /\ [Next]_vars
        => [\A w \in leaving \cap leaving' : handlers'[w] \subseteq handlers[w]]_vars
  <2> SUFFICES ASSUME PoolInv, [Next]_vars, NEW w \in leaving
               PROVE  handlers'[w] \subseteq handlers[w]
    OBVIOUS
  <2>0. w \in Workers /\ handlers \in [Workers -> SUBSET Calls]
    BY DEF PoolInv, TypeOK
  <2> USE <2>0 DEF vars, processVars, callVars, ownerVars
  <2>1. ASSUME NEW v \in Workers, NEW r, v \in Fresh, ~closing, Dispatch(v, r)
        PROVE  handlers'[w] \subseteq handlers[w]
    <3>1. v # w
      BY <2>1 DEF Fresh, PoolInv, LeavingInv
    <3> QED BY <2>1, <3>1 DEF Dispatch
  <2>2. ASSUME NEW r \in Calls, Call(r) PROVE handlers'[w] \subseteq handlers[w]
    <3>1. ASSUME NEW v \in Workers, CallServed(r, v) PROVE handlers'[w] \subseteq handlers[w]
      BY <2>1, <3>1 DEF CallServed, Admitted
    <3> QED BY <2>2, <3>1 DEF Call, CallRefused, CallUnavailable, CallBounced, CallQueued
  <2>3. ASSUME ServeQueue PROVE handlers'[w] \subseteq handlers[w]
    <3>1. ASSUME NEW v \in Workers, ServeNext(v) PROVE handlers'[w] \subseteq handlers[w]
      <4>1. ~closing
        BY <3>1 DEF ServeNext, PoolInv, TypeOK, LeavingInv
      <4> QED BY <2>1, <3>1, <4>1 DEF ServeNext
    <3> QED BY <2>3, <3>1 DEF ServeQueue, ServeDone
  <2>4. ASSUME NEW v \in Workers,
               \/ Result(v) \/ AbortRunning(v) \/ Timer(v) \/ Exit(v) \/ Start(v)
               \/ Expire(v) \/ CheckHealth(v) \/ HealthFails(v)
        PROVE  handlers'[w] \subseteq handlers[w]
    BY <2>4 DEF Result, AbortRunning, Timer, ExecutionTimeout, ShutdownTimeout, Exit,
                ChildExits, KilledExits, TreeUnverified, Start, SpawnReady, SpawnFails,
                SpawnDies, Expire, CheckHealth, HealthFails
  <2>5. ASSUME \/ HealthOk \/ RetrySpawn \/ LateExit \/ Shutdown \/ UNCHANGED vars
               \/ \E r \in Calls : AcquireTimeout(r) \/ AbortQueued(r)
        PROVE  handlers'[w] \subseteq handlers[w]
    BY <2>5 DEF HealthOk, RetrySpawn, LateExit, Shutdown, AcquireTimeout, AbortQueued
  <2> QED BY <2>2, <2>3, <2>4, <2>5 DEF Next, Turn
<1> QED BY <1>1, PoolInductive, PTL DEF Spec, LeavingGetNothing

\* The pool implements CallService: one answer a call, its work begun at most once and
\* not after the answer.
THEOREM PoolServes == Spec => KeepsService
<1>1. Init => Service!Init
  BY DEF Init, Service!Init
<1>2. PoolInv /\ [Next]_vars => [Service!Next]_<<answer, starts>>
  BY PoolStep DEF Progress
<1> QED BY <1>1, <1>2, PoolInductive, PTL DEF Spec, KeepsService, Service!Spec
=============================================================================
