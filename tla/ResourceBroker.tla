---------------------------- MODULE ResourceBroker ----------------------------
(***************************************************************************)
(* The resource broker: requests for rate-limited resources wait in one    *)
(* queue, in the order of their priorities; one loop asks the limiter for  *)
(* the head's capacity, takes it off the queue and executes it, with       *)
(* retries.  Other users reserve capacity of the same resources without    *)
(* queueing (tryAcquire).  The limiter is the in-memory one, which the     *)
(* runtime installs; its answer is awaited, so other turns of the event    *)
(* loop come between the loop's look at the head and its dequeue.          *)
(*                                                                         *)
(* An attempt is a race of the executor with a timer.  The timer does not  *)
(* stop the executor: when it wins, the run of executeItem goes on to its  *)
(* retry or its end, and the executor works on with nobody waiting for it. *)
(***************************************************************************)
EXTENDS Integers, Sequences, FiniteSets

CONSTANTS
    Calls,       \* requests given to enqueue
    Users,       \* callers of tryAcquire
    Resources,
    Resource,    \* the resource of each call and user
    Level,       \* priority of each call: 1 high, 2 normal, 3 low
    Slots,       \* maxConcurrentRequests
    Rate,        \* requests the limits allow in one window
    MaxRetries,
    Slow,        \* calls whose executor may work on after its timeout
    Faults,      \* "unregister"
    None

ASSUME BrokerAssumption ==
    /\ IsFiniteSet(Calls) /\ IsFiniteSet(Users)
    /\ Resource \in [Calls \cup Users -> Resources]
    /\ Level \in [Calls -> 1..3]
    /\ Slow \subseteq Calls
    /\ Slots \in Nat \ {0} /\ Rate \in Nat \ {0} /\ MaxRetries \in Nat
    /\ \A r \in Calls, allowed \in BOOLEAN : None # [item |-> r, allowed |-> allowed]

VARIABLES
    queue,      \* the three lists of PriorityQueue, one behind the other
    hand,       \* the loop: the item it looked at and what the limiter said, or None
    exec,       \* the runs of executeItem under way, each in one of its attempts
    stray,      \* attempts that timed out and whose executor works on
    active,     \* the limiter's activeRequests
    used,       \* the limiter's requests of the current window
    user,       \* what a user of tryAcquire holds
    answer,     \* a call: "new", "open", or what its caller was told
    starts,     \* history: how often executeItem was begun for a call
    registered, \* the resources
    closing     \* shuttingDown

limits == <<active, used>>
vars == <<queue, hand, exec, stray, limits, user, answer, starts, registered, closing>>

Answers == {"done", "failed", "refused", "rejected", "shutdown"}
Runs == [call : Calls, nth : Nat, attempt : 0..MaxRetries, phase : {"running", "backoff"}]

Init ==
    /\ queue = <<>> /\ hand = None /\ exec = {} /\ stray = {}
    /\ active = [s \in Resources |-> 0] /\ used = [s \in Resources |-> 0]
    /\ user = [u \in Users |-> "new"]
    /\ answer = [r \in Calls |-> "new"] /\ starts = [r \in Calls |-> 0]
    /\ registered = Resources /\ closing = FALSE

----------------------------------------------------------------------------
(* The limiter                                                             *)

Free(s) == active[s] < Slots /\ used[s] < Rate

Reserve(s) ==
    /\ active' = [active EXCEPT ![s] = @ + 1]
    /\ used' = [used EXCEPT ![s] = @ + 1]

Release(s) == active' = [active EXCEPT ![s] = IF @ > 0 THEN @ - 1 ELSE 0]

NewWindow(s) ==
    /\ used[s] > 0
    /\ used' = [used EXCEPT ![s] = 0]
    /\ UNCHANGED <<queue, hand, exec, stray, active, user, answer, starts, registered, closing>>

----------------------------------------------------------------------------
(* The queue and its loop                                                  *)

\* A request goes to the end of the list of its priority: behind all it may not overtake.
Before(r) == Cardinality({i \in 1..Len(queue) : Level[queue[i]] <= Level[r]})
Insert(r) == SubSeq(queue, 1, Before(r)) \o <<r>>
             \o SubSeq(queue, Before(r) + 1, Len(queue))
Waiting == {queue[i] : i \in 1..Len(queue)}

\* How many items at the head of q have a resource that is gone.
Gone(q) == Cardinality({n \in 1..Len(q) : \A i \in 1..n : Resource[q[i]] \notin registered})

\* What the loop does from its condition to the next await, with queue q and the answers
\* told so far: it rejects the items of unregistered resources, looks at the next and asks
\* the limiter for it.
Loop(q, told) ==
    IF closing \/ Gone(q) = Len(q) THEN
      /\ hand' = None
      /\ queue' = IF closing THEN q ELSE <<>>
      /\ answer' = [r \in Calls |-> IF ~closing /\ \E i \in 1..Len(q) : q[i] = r
                                    THEN "rejected" ELSE told[r]]
      /\ UNCHANGED limits
    ELSE
      LET n == Gone(q)  item == q[n + 1]  s == Resource[item] IN
      /\ queue' = SubSeq(q, n + 1, Len(q))
      /\ answer' = [r \in Calls |-> IF \E i \in 1..n : q[i] = r THEN "rejected" ELSE told[r]]
      /\ hand' = [item |-> item, allowed |-> Free(s)]
      /\ IF Free(s) THEN Reserve(s) ELSE UNCHANGED limits

Admitted(r) == ~closing /\ Resource[r] \in registered

EnqueueRefused(r) ==
    /\ answer[r] = "new" /\ ~Admitted(r)
    /\ answer' = [answer EXCEPT ![r] = "refused"]
    /\ UNCHANGED <<queue, hand, exec, stray, limits, user, starts, registered, closing>>

\* `processing` is the loop's: it is idle when it holds nothing.
Enqueue(r) ==
    /\ answer[r] = "new" /\ Admitted(r)
    /\ LET told == [answer EXCEPT ![r] = "open"] IN
       IF hand = None THEN Loop(Insert(r), told)
       ELSE queue' = Insert(r) /\ answer' = told /\ UNCHANGED <<hand, limits>>
    /\ UNCHANGED <<exec, stray, user, starts, registered, closing>>

\* mutant: the item is left in the queue.
GrantedKeeping ==
    /\ hand # None /\ hand.allowed
    /\ LET r == hand.item IN
       /\ starts' = [starts EXCEPT ![r] = @ + 1]
       /\ exec' = exec \cup {[call |-> r, nth |-> starts[r] + 1, attempt |-> 0,
                              phase |-> "running"]}
    /\ Loop(queue, answer)
    /\ UNCHANGED <<stray, user, registered, closing>>

\* The limiter allowed it: whatever is the head by now leaves the queue, and the item the
\* loop looked at is executed.
Granted ==
    /\ hand # None /\ hand.allowed
    /\ LET r == hand.item IN
       /\ starts' = [starts EXCEPT ![r] = @ + 1]
       /\ exec' = exec \cup {[call |-> r, nth |-> starts[r] + 1, attempt |-> 0,
                              phase |-> "running"]}
    /\ Loop(IF queue = <<>> THEN <<>> ELSE Tail(queue), answer)
    /\ UNCHANGED <<stray, user, registered, closing>>

\* mutant: the loop ends when it is denied.
DeniedStops ==
    /\ hand # None /\ ~hand.allowed
    /\ hand' = None
    /\ UNCHANGED <<queue, exec, stray, limits, user, answer, starts, registered, closing>>

\* The limiter did not: the loop sleeps and looks again.
Denied ==
    /\ hand # None /\ ~hand.allowed
    /\ Loop(queue, answer)
    /\ UNCHANGED <<exec, stray, user, starts, registered, closing>>

----------------------------------------------------------------------------
(* executeItem                                                             *)

Answer(r, what) ==
    answer' = IF answer[r] = "open" THEN [answer EXCEPT ![r] = what] ELSE answer

Succeed(e) ==
    /\ e.phase = "running"
    /\ exec' = exec \ {e}
    /\ Answer(e.call, "done")
    /\ Release(Resource[e.call])
    /\ UNCHANGED <<queue, hand, stray, used, user, starts, registered, closing>>

\* The timeout wins the race: the executor of the attempt is left to itself.
TimesOut(e) == e.call \in Slow /\ stray' = stray \cup {e}

\* What it does in the end, nobody is told.
StrayEnds(x) ==
    /\ stray' = stray \ {x}
    /\ UNCHANGED <<queue, hand, exec, limits, user, answer, starts, registered, closing>>

\* The executor fails, or the last attempt times out.  The slot is given back either way.
FailForGood(e) ==
    /\ e.phase = "running"
    /\ UNCHANGED stray \/ (e.attempt = MaxRetries /\ TimesOut(e))
    /\ exec' = exec \ {e}
    /\ Answer(e.call, "failed")
    /\ Release(Resource[e.call])
    /\ UNCHANGED <<queue, hand, used, user, starts, registered, closing>>

\* mutant: one retry too many.
FailAgainOnce(e) ==
    /\ e.phase = "running" /\ e.attempt <= MaxRetries
    /\ UNCHANGED stray \/ TimesOut(e)
    /\ exec' = (exec \ {e}) \cup {[e EXCEPT !.phase = "backoff"]}
    /\ UNCHANGED <<queue, hand, limits, user, answer, starts, registered, closing>>

\* mutant: the slot is given back after every attempt.
FailAgainReleasing(e) ==
    /\ e.phase = "running" /\ e.attempt < MaxRetries
    /\ UNCHANGED stray \/ TimesOut(e)
    /\ exec' = (exec \ {e}) \cup {[e EXCEPT !.phase = "backoff"]}
    /\ Release(Resource[e.call])
    /\ UNCHANGED <<queue, hand, used, user, answer, starts, registered, closing>>

\* It fails or times out, and there is a retry to come; the slot is kept.
FailAgain(e) ==
    /\ e.phase = "running" /\ e.attempt < MaxRetries
    /\ UNCHANGED stray \/ TimesOut(e)
    /\ exec' = (exec \ {e}) \cup {[e EXCEPT !.phase = "backoff"]}
    /\ UNCHANGED <<queue, hand, limits, user, answer, starts, registered, closing>>

\* After its delay a retry asks the limiter once more, and goes on whatever it says: what
\* it is given here nobody gives back.
Retry(e) ==
    /\ e.phase = "backoff"
    /\ exec' = (exec \ {e})
                 \cup {[e EXCEPT !.phase = "running", !.attempt = e.attempt + 1]}
    /\ IF Free(Resource[e.call]) THEN Reserve(Resource[e.call]) ELSE UNCHANGED limits
    /\ UNCHANGED <<queue, hand, stray, user, answer, starts, registered, closing>>

----------------------------------------------------------------------------
(* tryAcquire, unregister, shutdown                                        *)

TryAcquire(u) ==
    /\ user[u] = "new" /\ Resource[u] \in registered
    /\ IF ~closing /\ Free(Resource[u])
         THEN Reserve(Resource[u]) /\ user' = [user EXCEPT ![u] = "holding"]
         ELSE UNCHANGED limits /\ user' = [user EXCEPT ![u] = "denied"]
    /\ UNCHANGED <<queue, hand, exec, stray, answer, starts, registered, closing>>

\* release may be called any number of times.
ReleaseUser(u) ==
    /\ user[u] \in {"holding", "released"}
    /\ user' = [user EXCEPT ![u] = "released"]
    /\ IF user[u] = "holding" THEN Release(Resource[u]) ELSE UNCHANGED active
    /\ UNCHANGED <<queue, hand, exec, stray, used, answer, starts, registered, closing>>

Unregister(s) ==
    /\ "unregister" \in Faults
    /\ registered' = registered \ {s}
    /\ UNCHANGED <<queue, hand, exec, stray, limits, user, answer, starts, closing>>

Shutdown ==
    /\ closing' = TRUE
    /\ UNCHANGED <<queue, hand, exec, stray, limits, user, answer, starts, registered>>

\* mutant: the queue is emptied and nobody told.
ShutdownTimeoutSilent ==
    /\ closing /\ queue # <<>>
    /\ hand # None => ~hand.allowed
    /\ queue' = <<>>
    /\ UNCHANGED <<hand, exec, stray, limits, user, answer, starts, registered, closing>>

\* shutdown has slept out its timeout: no answer of the limiter is on its way then.
ShutdownTimeout ==
    /\ closing /\ queue # <<>>
    /\ hand # None => ~hand.allowed
    /\ queue' = <<>>
    /\ answer' = [r \in Calls |-> IF r \in Waiting THEN "shutdown" ELSE answer[r]]
    /\ UNCHANGED <<hand, exec, stray, limits, user, starts, registered, closing>>

----------------------------------------------------------------------------
Next ==
    \/ \E r \in Calls : EnqueueRefused(r) \/ Enqueue(r)
    \/ Granted \/ Denied
    \/ \E e \in exec : Succeed(e) \/ FailForGood(e) \/ FailAgain(e) \/ Retry(e)
    \/ \E x \in stray : StrayEnds(x)
    \/ \E u \in Users : TryAcquire(u) \/ ReleaseUser(u)
    \/ \E s \in Resources : NewWindow(s) \/ Unregister(s)
    \/ Shutdown \/ ShutdownTimeout

Spec == Init /\ [][Next]_vars

\* The loop goes on, runs end (each attempt has a timeout), windows pass, and users give
\* back what they hold, as tryAcquire asks of them.  An executor left to itself may never
\* end.
Fairness ==
    /\ WF_vars(Granted) /\ WF_vars(Denied) /\ WF_vars(ShutdownTimeout)
    /\ WF_vars(\E e \in exec : Succeed(e) \/ FailForGood(e) \/ FailAgain(e) \/ Retry(e))
    /\ \A s \in Resources : WF_vars(NewWindow(s))
    /\ \A u \in Users : WF_vars(ReleaseUser(u) /\ user[u] = "holding")
FairSpec == Spec /\ Fairness

----------------------------------------------------------------------------
(* Properties                                                              *)

Working(s) == {e \in exec : Resource[e.call] = s}
Holding(s) == {u \in Users : Resource[u] = s /\ user[u] = "holding"}
Promised(s) == IF hand # None /\ hand.allowed /\ Resource[hand.item] = s THEN 1 ELSE 0

\* The values the variables take.
TypeOK ==
    /\ queue \in Seq(Calls)
    /\ hand = None \/ (hand \in [item : Calls, allowed : BOOLEAN])
    /\ exec \subseteq Runs /\ stray \subseteq Runs
    /\ active \in [Resources -> 0..Slots] /\ used \in [Resources -> 0..Rate]
    /\ user \in [Users -> {"new", "holding", "released", "denied"}]
    /\ answer \in [Calls -> Answers \cup {"new", "open"}]
    /\ starts \in [Calls -> Nat]
    /\ registered \subseteq Resources /\ closing \in BOOLEAN

\* A request whose caller still waits is in one place: once in the queue and not yet
\* begun, or being executed.  None is lost on the way, and none is executed twice.
OpenIsSomewhere ==
    /\ \A i, j \in 1..Len(queue) : queue[i] = queue[j] => i = j
    /\ \A r \in Calls : answer[r] = "open" =>
         IF r \in Waiting THEN starts[r] = 0 ELSE \E e \in exec : e.call = r

\* Every run of executeItem, every user of tryAcquire and what the limiter has promised
\* the loop hold a slot of their own, through all retries, and the slots stay within
\* maxConcurrentRequests: no slot is given back twice or while its run goes on.  It counts
\* what is awaited.  Executors left to themselves hold no slot, so that more executors
\* than slots may be at work.
RunsHoldSlots ==
    \A s \in Resources :
      /\ Cardinality(Working(s)) + Cardinality(Holding(s)) + Promised(s) <= active[s]
      /\ active[s] <= Slots

\* maxConcurrentRequests is documented as the "Maximum concurrent requests" of a model's
\* GPU or CPU (types.ts:43).  Executors left to themselves count for that too; it is
\* violated by two requests, one of which times out and is retried beside its executor
\* (resource-broker.ts 368-398).
ExecutorsWithinSlots ==
    \A s \in Resources :
      Cardinality({e \in exec : e.phase = "running" /\ Resource[e.call] = s})
        + Cardinality({x \in stray : Resource[x.call] = s}) <= Slots

\* A run is one of those begun for its call, and a retry follows only while there are any.
RunsOK ==
    /\ IsFiniteSet(exec)
    /\ \A e \in exec :
         /\ 1 <= e.nth /\ e.nth <= starts[e.call]
         /\ e.phase = "backoff" => e.attempt < MaxRetries

\* An execution of a call makes one attempt after another.  An executor that is left is of
\* an earlier attempt than the one under way, or of the one that waits for its retry: no
\* attempt has two executors, although several attempts may be at work together.
OneExecutorEach ==
    /\ \A e, f \in exec : e.call = f.call /\ e.nth = f.nth => e = f
    /\ \A x \in stray :
         /\ x.nth <= starts[x.call]
         /\ \A e \in exec : e.call = x.call /\ e.nth = x.nth =>
              x.attempt < e.attempt \/ (x.attempt = e.attempt /\ e.phase = "backoff")

\* With one priority nothing overtakes: what the loop looked at is still the head when it
\* takes the head off, everything queued is open and not begun, everything else that is
\* open is being executed.
OnePriority == \A q, r \in Calls : Level[q] = Level[r]
InOrder ==
    /\ OpenIsSomewhere
    /\ \A i \in 1..Len(queue) : answer[queue[i]] = "open" /\ starts[queue[i]] = 0
    /\ hand # None /\ (hand.allowed \/ ~closing) => queue # <<>> /\ queue[1] = hand.item
    /\ \A r \in Calls : answer[r] = "new" => starts[r] = 0

\* The inductive invariant.
BrokerInv ==
    TypeOK /\ RunsOK /\ RunsHoldSlots /\ OneExecutorEach /\ (OnePriority => InOrder)

\* The broker is a service: one answer a request, its work begun once, before the answer.
Service == INSTANCE CallService
KeepsService == Service!Spec

\* Every request is answered, unless retries have left the limiter of some resource
\* without a slot that anybody would give back.
Exhausted ==
    \E s \in Resources :
      active[s] >= Slots /\ Working(s) = {} /\ Holding(s) = {} /\ Promised(s) = 0
RequestsAreAnswered ==
    \A r \in Calls : answer[r] = "open" ~> answer[r] # "open" \/ Exhausted
=============================================================================
