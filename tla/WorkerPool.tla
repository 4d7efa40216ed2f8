----------------------------- MODULE WorkerPool ------------------------------
(***************************************************************************)
(* The worker pool of plugin-execution-factory: calls get a child process  *)
(* at once or wait in a bounded queue; processes are started, recycled,    *)
(* checked, killed and replaced meanwhile.  One Node process owns all the  *)
(* state, so an action is one turn of its event loop; processQueue, whose  *)
(* loop ends the turn, takes one step for each call it hands out.          *)
(*                                                                         *)
(* A worker id is reused once its worker has left the pool's map.          *)
(***************************************************************************)
EXTENDS Integers, Sequences, FiniteSets

CONSTANTS
    Calls, Plugins,
    Plugin,      \* the plugin each call belongs to
    Workers,     \* worker ids
    First,       \* the workers that startInitialWorkers started
    Min, Max,    \* config.min, config.max
    MaxQueue,    \* config.maxQueueSize
    PerPlugin,   \* config.maxConcurrentPerPlugin
    MaxDeaths,   \* bound on crashes, failed starts and failed health checks
    Faults,      \* "abort", "unready" (a child exits before it is ready), "tree"
    None

ASSUME PoolAssumption ==
    /\ Plugin \in [Calls -> Plugins] /\ None \notin Calls /\ None \notin Workers
    /\ IsFiniteSet(Workers) /\ IsFiniteSet(Calls)
    /\ {Min, Max, MaxQueue, PerPlugin, MaxDeaths} \subseteq Nat
    /\ Min <= Max /\ 0 < Max /\ Max < Cardinality(Workers)
    /\ First \in SUBSET Workers /\ Cardinality(First) = Min

VARIABLES
    state,      \* a worker's state; "absent": not in the pool's map
    job,        \* the call whose promise the worker keeps (pendingRequests)
    handlers,   \* the calls the child process is executing
    expired,    \* workers past their request or uptime limit
    leaving,    \* workers whose child was told to shut down
    unverified, \* killed workers whose process tree was not verified gone
    queue,      \* calls waiting for a worker
    viaQueue,   \* calls that were queued: their acquire timer runs until the answer
    answer,     \* a call: "new", "open", or what its caller was told
    starts,     \* history: how often a call was handed to a worker
    count,      \* pluginConcurrency
    recovery,   \* maintainMinimumWorkers: "off", "spawning" or "waiting" to retry
    desired,    \* desiredWorkerCount
    checked,    \* the worker that runHealthChecks awaits
    closing,    \* isShuttingDown
    loop,       \* "queue" while processQueue runs
    gone,       \* starts that were given up and whose process has yet to exit
    deaths

processVars == <<state, job, handlers, expired, leaving, unverified>>
callVars    == <<queue, viaQueue, answer, starts, count>>
ownerVars   == <<recovery, desired, checked, closing, loop, gone, deaths>>
vars        == <<processVars, callVars, ownerVars>>

WorkerState == {"absent", "starting", "idle", "busy", "draining", "stopped"}
Answers == {"served", "refused", "unavailable", "acquire_timeout", "timeout",
            "aborted", "crashed", "shutdown"}

In(s) == {w \in Workers : s[w] # "absent"}
Size  == Cardinality(In(state))

\* getAvailableWorker: an idle worker within its limits is returned, the others that
\* the search meets are recycled.
Fresh == {w \in Workers : state[w] = "idle" /\ w \notin expired}
Tired == {w \in Workers : state[w] = "idle" /\ w \in expired}

Init ==
    /\ state = [w \in Workers |-> IF w \in First THEN "idle" ELSE "absent"]
    /\ job = [w \in Workers |-> None] /\ handlers = [w \in Workers |-> {}]
    /\ expired = {} /\ leaving = {} /\ unverified = {}
    /\ queue = <<>> /\ viaQueue = {}
    /\ answer = [r \in Calls |-> "new"] /\ starts = [r \in Calls |-> 0]
    /\ count = [p \in Plugins |-> 0]
    /\ recovery = "off" /\ desired = Min
    /\ checked = None /\ closing = FALSE /\ loop = "free" /\ gone = 0 /\ deaths = 0

----------------------------------------------------------------------------
(* Parts of the handlers.                                                  *)

\* The callers in rs that still wait are told, and `finally` counts them out.
Waiting(rs) == {r \in rs : answer[r] = "open"}

\* mutant: whoever was answered before is counted out again.
TellAgain(rs, what) ==
    /\ answer' = [r \in Calls |-> IF r \in Waiting(rs) THEN what ELSE answer[r]]
    /\ count' = [p \in Plugins |-> count[p] - Cardinality({r \in rs : Plugin[r] = p})]

Tell(rs, what) ==
    /\ answer' = [r \in Calls |-> IF r \in Waiting(rs) THEN what ELSE answer[r]]
    /\ count' = [p \in Plugins |->
                   count[p] - Cardinality({r \in Waiting(rs) : Plugin[r] = p})]

Held(w) == {r \in Calls : r = job[w]}
Queued == {queue[i] : i \in 1..Len(queue)}

\* worker.execute: the promise is recorded and the child is sent the call.
Dispatch(w, r) ==
    /\ state' = [state EXCEPT ![w] = "busy"]
    /\ job' = [job EXCEPT ![w] = r]
    /\ handlers' = [handlers EXCEPT ![w] = @ \cup {r}]
    /\ starts' = [starts EXCEPT ![r] = @ + 1]

\* spawnWorker puts a new worker into the map, which is s so far.
Spawn(s) ==
    LET w == CHOOSE v \in Workers : s[v] = "absent" IN state' = [s EXCEPT ![w] = "starting"]

\* The condition of maintainMinimumWorkers' loop, on entry and after each turn.
Maintain(s, goal) ==
    IF ~closing /\ Cardinality(In(s)) < goal
      THEN Spawn(s) /\ recovery' = "spawning"
      ELSE state' = s /\ recovery' = "off"

\* scheduleCapacityRecovery: one loop at a time, whoever asks.
Recover(s, target) ==
    /\ desired' = IF target > desired THEN target ELSE desired
    /\ IF recovery = "off" THEN Maintain(s, desired')
                           ELSE state' = s /\ UNCHANGED recovery

\* Worker w is no longer in the map: nothing of it is left, and a check that still
\* waits for it can do no harm.
Forget(w) ==
    /\ expired' = expired \ {w} /\ leaving' = leaving \ {w}
    /\ checked' = IF checked = w THEN None ELSE checked

\* mutant: a worker that is gone is not replaced.
RemoveOnly(w) ==
    /\ state' = [state EXCEPT ![w] = "absent"]
    /\ UNCHANGED <<recovery, desired>>
    /\ Forget(w)
    /\ loop' = "queue"

\* handleWorkerExit, for a worker whose end is verified.
Remove(w) ==
    LET s == [state EXCEPT ![w] = "absent"] IN
    /\ IF ~closing /\ Cardinality(In(s)) < Min
         THEN Recover(s, Min)
         ELSE state' = s /\ UNCHANGED <<recovery, desired>>
    /\ Forget(w)
    /\ loop' = "queue"

\* Worker.kill: the promise is rejected at once, the process ends later.
Kill(w) ==
    /\ state' = [state EXCEPT ![w] = "stopped"]
    /\ job' = [job EXCEPT ![w] = None]

\* Once the execution of a queued call is over, processQueue runs; the end of a call
\* that found its worker at once wakes nobody.
WakeAfter(rs) == loop' = IF rs \cap viaQueue # {} THEN "queue" ELSE loop

Dies == deaths < MaxDeaths /\ deaths' = deaths + 1

----------------------------------------------------------------------------
(* WorkerPool.execute                                                      *)

Admitted(r) == ~closing /\ count[Plugin[r]] < PerPlugin
CountIn(r) ==
    /\ answer' = [answer EXCEPT ![r] = "open"]
    /\ count' = [count EXCEPT ![Plugin[r]] = @ + 1]

CallRefused(r) ==
    /\ answer[r] = "new" /\ ~Admitted(r)
    /\ answer' = [answer EXCEPT ![r] = "refused"]
    /\ UNCHANGED <<processVars, queue, viaQueue, starts, count, ownerVars>>

CallServed(r, w) ==
    /\ answer[r] = "new" /\ Admitted(r)
    /\ w \in Fresh
    /\ Dispatch(w, r)
    /\ \E met \in SUBSET Tired : leaving' = leaving \cup met
    /\ CountIn(r)
    /\ UNCHANGED <<expired, unverified, queue, viaQueue, ownerVars>>

\* An empty pool starts to recover; the call is not kept waiting for it.
CallUnavailable(r) ==
    /\ answer[r] = "new" /\ Admitted(r)
    /\ In(state) = {}
    /\ Recover(state, 1)
    /\ answer' = [answer EXCEPT ![r] = "unavailable"]
    /\ UNCHANGED <<job, handlers, expired, leaving, unverified, queue, viaQueue, starts,
                   count, checked, closing, loop, gone, deaths>>

CallBounced(r) ==
    /\ answer[r] = "new" /\ Admitted(r)
    /\ Fresh = {} /\ In(state) # {}
    /\ Len(queue) >= MaxQueue
    /\ leaving' = leaving \cup Tired
    /\ answer' = [answer EXCEPT ![r] = "refused"]
    /\ UNCHANGED <<state, job, handlers, expired, unverified, queue, viaQueue, starts,
                   count, ownerVars>>

CallQueued(r) ==
    /\ answer[r] = "new" /\ Admitted(r)
    /\ Fresh = {} /\ In(state) # {}
    /\ Len(queue) < MaxQueue
    /\ leaving' = leaving \cup Tired
    /\ IF Size < Max THEN Recover(state, Size + 1)
                     ELSE UNCHANGED <<state, recovery, desired>>
    /\ queue' = Append(queue, r)
    /\ viaQueue' = viaQueue \cup {r}
    /\ CountIn(r)
    /\ UNCHANGED <<job, handlers, expired, unverified, starts, checked, closing, loop,
                   gone, deaths>>

----------------------------------------------------------------------------
(* PoolQueueManager                                                        *)

ServeNext(w) ==
    /\ loop = "queue" /\ queue # <<>>
    /\ w \in Fresh
    /\ Dispatch(w, Head(queue))
    /\ queue' = Tail(queue)
    /\ \E met \in SUBSET Tired : leaving' = leaving \cup met
    /\ UNCHANGED <<expired, unverified, viaQueue, answer, count, ownerVars>>

ServeDone ==
    /\ loop = "queue"
    /\ \/ queue = <<>> /\ UNCHANGED leaving
       \/ queue # <<>> /\ Fresh = {} /\ leaving' = leaving \cup Tired
    /\ loop' = "free"
    /\ UNCHANGED <<state, job, handlers, expired, unverified, callVars, recovery, desired,
                   checked, closing, gone, deaths>>

\* findIndex and splice.
Without(r) ==
    LET i == CHOOSE i \in 1..Len(queue) : queue[i] = r IN
    IF r \in Queued THEN SubSeq(queue, 1, i - 1) \o SubSeq(queue, i + 1, Len(queue))
                    ELSE queue

\* mutant: the call stays in the queue.
AcquireTimeoutOnly(r) ==
    /\ r \in viaQueue /\ answer[r] = "open"
    /\ Tell({r}, "acquire_timeout")
    /\ UNCHANGED <<processVars, queue, viaQueue, starts, ownerVars>>

\* The acquire timer: nothing stops it when the call is handed to a worker.
AcquireTimeout(r) ==
    /\ r \in viaQueue /\ answer[r] = "open"
    /\ queue' = Without(r)
    /\ Tell({r}, "acquire_timeout")
    /\ UNCHANGED <<processVars, viaQueue, starts, ownerVars>>

\* The caller's signal: a waiting call leaves the queue, a running one is killed with
\* its worker.
AbortQueued(r) ==
    /\ "abort" \in Faults
    /\ r \in Queued
    /\ queue' = Without(r)
    /\ Tell({r}, "aborted")
    /\ UNCHANGED <<processVars, viaQueue, starts, ownerVars>>

AbortRunning(w) ==
    /\ "abort" \in Faults
    /\ job[w] # None
    /\ Kill(w)
    /\ Tell(Held(w), "aborted")
    /\ WakeAfter(Held(w))
    /\ UNCHANGED <<handlers, expired, leaving, unverified, queue, viaQueue, starts,
                   recovery, desired, checked, closing, gone, deaths>>

----------------------------------------------------------------------------
(* Worker                                                                  *)

\* The result message resolves the promise and frees the worker.
Result(w) ==
    /\ job[w] # None
    /\ state' = [state EXCEPT ![w] = "idle"]
    /\ job' = [job EXCEPT ![w] = None]
    /\ handlers' = [handlers EXCEPT ![w] = @ \ {job[w]}]
    /\ Tell(Held(w), "served")
    /\ WakeAfter(Held(w))
    /\ UNCHANGED <<expired, leaving, unverified, queue, viaQueue, starts,
                   recovery, desired, checked, closing, gone, deaths>>

\* mutant: the promise is given up and the process left alone.
ExecutionTimeoutIdle(w) ==
    /\ job[w] # None
    /\ state' = [state EXCEPT ![w] = "idle"]
    /\ job' = [job EXCEPT ![w] = None]
    /\ Tell(Held(w), "timeout")
    /\ WakeAfter(Held(w))
    /\ UNCHANGED <<handlers, expired, leaving, unverified, queue, viaQueue, starts,
                   recovery, desired, checked, closing, gone, deaths>>

\* The execution timer rejects the promise and kills the worker.
ExecutionTimeout(w) ==
    /\ job[w] # None
    /\ Kill(w)
    /\ Tell(Held(w), "timeout")
    /\ WakeAfter(Held(w))
    /\ UNCHANGED <<handlers, expired, leaving, unverified, queue, viaQueue, starts,
                   recovery, desired, checked, closing, gone, deaths>>

\* The request limit or the uptime limit is reached.
Expire(w) ==
    /\ state[w] \in {"idle", "busy"} /\ w \notin expired
    /\ expired' = expired \cup {w}
    /\ UNCHANGED <<state, job, handlers, leaving, unverified, callVars, ownerVars>>

\* mutant: the pending promise is dropped with the process.
ChildExitsSilently(w) ==
    /\ state[w] \in {"idle", "busy", "draining"}
    /\ \/ w \in leaving /\ UNCHANGED deaths
       \/ w \notin leaving /\ Dies
    /\ job' = [job EXCEPT ![w] = None]
    /\ handlers' = [handlers EXCEPT ![w] = {}]
    /\ Remove(w)
    /\ UNCHANGED <<unverified, queue, viaQueue, answer, count, starts, closing, gone>>

\* The child exits by itself: it crashed, or it was told to shut down.
ChildExits(w) ==
    /\ state[w] \in {"idle", "busy", "draining"}
    /\ \/ w \in leaving /\ UNCHANGED deaths
       \/ w \notin leaving /\ Dies
    /\ job' = [job EXCEPT ![w] = None]
    /\ handlers' = [handlers EXCEPT ![w] = {}]
    /\ Tell(Held(w), "crashed")
    /\ Remove(w)
    /\ UNCHANGED <<unverified, queue, viaQueue, starts, closing, gone>>

\* A killed process is gone, and its descendants with it ...
KilledExits(w) ==
    /\ state[w] = "stopped" /\ w \notin unverified
    /\ handlers' = [handlers EXCEPT ![w] = {}]
    /\ Remove(w)
    /\ UNCHANGED <<job, unverified, callVars, closing, gone, deaths>>

\* ... or that could not be verified, and the worker keeps its place.
TreeUnverified(w) ==
    /\ "tree" \in Faults
    /\ state[w] = "stopped" /\ w \notin unverified
    /\ handlers' = [handlers EXCEPT ![w] = {}]
    /\ unverified' = unverified \cup {w}
    /\ loop' = "queue"
    /\ UNCHANGED <<state, job, expired, leaving, callVars, recovery, desired, checked,
                   closing, gone, deaths>>

\* A child that ignores its shutdown message is killed.
ShutdownTimeout(w) ==
    /\ w \in leaving /\ state[w] \in {"idle", "busy", "draining"}
    /\ Kill(w)
    /\ Tell(Held(w), "crashed")
    /\ WakeAfter(Held(w))
    /\ UNCHANGED <<handlers, expired, leaving, unverified, queue, viaQueue, starts,
                   recovery, desired, checked, closing, gone, deaths>>

----------------------------------------------------------------------------
(* WorkerLifecycleManager                                                  *)

SpawnReady(w) ==
    /\ state[w] = "starting"
    /\ Maintain([state EXCEPT ![w] = "idle"], desired)
    /\ loop' = "queue"
    /\ UNCHANGED <<job, handlers, expired, leaving, unverified, callVars, desired, checked,
                   closing, gone, deaths>>

\* A start that fails empties the queue: whoever waits is told so.  If the start timer
\* gave it up, its process is killed and exits later.
SpawnFails(w) ==
    /\ state[w] = "starting"
    /\ Dies
    /\ state' = [state EXCEPT ![w] = "absent"]
    /\ recovery' = "waiting"
    /\ queue' = <<>>
    /\ Tell(Queued, "unavailable")
    /\ Forget(w)
    /\ gone' \in {gone, gone + 1}
    /\ UNCHANGED <<job, handlers, unverified, viaQueue, starts, desired, closing, loop>>

\* handleWorkerExit of a worker that is no longer in the map.
LateExit ==
    /\ gone > 0 /\ gone' = gone - 1
    /\ IF ~closing /\ Size < Min THEN Recover(state, Min)
                               ELSE UNCHANGED <<state, recovery, desired>>
    /\ loop' = "queue"
    /\ UNCHANGED <<job, handlers, expired, leaving, unverified, callVars, checked, closing,
                   deaths>>

\* The exit of a child that never was ready clears the start timer and settles nothing:
\* maintainMinimumWorkers awaits spawn() for ever.
SpawnDies(w) ==
    /\ "unready" \in Faults
    /\ state[w] = "starting"
    /\ Dies
    /\ Remove(w)
    /\ UNCHANGED <<job, handlers, unverified, callVars, closing, gone>>

RetrySpawn ==
    /\ recovery = "waiting"
    /\ Maintain(state, desired)
    /\ UNCHANGED <<job, handlers, expired, leaving, unverified, callVars, desired, checked,
                   closing, loop, gone, deaths>>

\* runHealthChecks looks at one idle worker at a time ...
CheckHealth(w) ==
    /\ checked = None /\ ~closing
    /\ state[w] = "idle"
    /\ checked' = w
    /\ UNCHANGED <<processVars, callVars, recovery, desired, closing, loop, gone, deaths>>

HealthOk ==
    /\ checked # None
    /\ checked' = None
    /\ UNCHANGED <<processVars, callVars, recovery, desired, closing, loop, gone, deaths>>

\* mutant: the check settles nothing of what the worker was doing.
HealthFailsSilently(w) ==
    /\ checked = w
    /\ checked' = None
    /\ Dies
    /\ Kill(w)
    /\ UNCHANGED <<handlers, expired, leaving, unverified, callVars,
                   recovery, desired, closing, loop, gone>>

\* ... and kills it if it does not answer, whatever it has been given to do meanwhile.
HealthFails(w) ==
    /\ checked = w
    /\ checked' = None
    /\ Dies
    /\ Kill(w)
    /\ Tell(Held(w), "crashed")
    /\ WakeAfter(Held(w))
    /\ UNCHANGED <<handlers, expired, leaving, unverified, queue, viaQueue, starts,
                   recovery, desired, closing, gone>>

Shutdown ==
    /\ ~closing
    /\ closing' = TRUE
    /\ queue' = <<>>
    /\ Tell(Queued, "shutdown")
    /\ state' = [w \in Workers |-> IF state[w] = "busy" THEN "draining" ELSE state[w]]
    /\ leaving' = leaving \cup {w \in Workers : state[w] \notin {"absent", "stopped"}}
    /\ UNCHANGED <<job, handlers, expired, unverified, viaQueue, starts, recovery, desired,
                   checked, loop, gone, deaths>>

----------------------------------------------------------------------------
ServeQueue == ServeDone \/ \E w \in Workers : ServeNext(w)

Call(r) == \/ CallRefused(r) \/ CallUnavailable(r) \/ CallBounced(r) \/ CallQueued(r)
           \/ \E w \in Workers : CallServed(r, w)

Timer(w) == ExecutionTimeout(w) \/ ShutdownTimeout(w)
Exit(w) == ChildExits(w) \/ KilledExits(w) \/ TreeUnverified(w)
Start(w) == SpawnReady(w) \/ SpawnFails(w) \/ SpawnDies(w)

Turn ==
    \/ \E r \in Calls : Call(r) \/ AcquireTimeout(r) \/ AbortQueued(r)
    \/ \E w \in Workers : \/ Result(w) \/ AbortRunning(w) \/ Timer(w) \/ Exit(w) \/ Start(w)
                          \/ Expire(w) \/ CheckHealth(w) \/ HealthFails(w)
    \/ HealthOk \/ RetrySpawn \/ LateExit \/ Shutdown

Next == ServeQueue \/ (loop = "free" /\ Turn)

Spec == Init /\ [][Next]_vars

\* The loop runs to completion; timers fire; a child that is started, killed or told to
\* leave comes to that.  No call, abort, limit or health check need ever happen.
Fairness ==
    /\ WF_vars(ServeQueue)
    /\ WF_vars(loop = "free" /\ RetrySpawn)
    /\ \A r \in Calls : WF_vars(loop = "free" /\ AcquireTimeout(r))
    /\ \A w \in Workers : /\ WF_vars(loop = "free" /\ Timer(w))
                          /\ WF_vars(loop = "free" /\ Exit(w) /\ state[w] = "stopped")
                          /\ WF_vars(loop = "free" /\ Start(w))
FairSpec == Spec /\ Fairness

----------------------------------------------------------------------------
(* Properties                                                              *)

\* The values the variables take.
TypeOK ==
    /\ state \in [Workers -> WorkerState]
    /\ job \in [Workers -> Calls \cup {None}]
    /\ handlers \in [Workers -> SUBSET Calls]
    /\ {expired, leaving, unverified} \subseteq SUBSET Workers
    /\ queue \in Seq(Calls) /\ viaQueue \in SUBSET Calls
    /\ answer \in [Calls -> Answers \cup {"new", "open"}]
    /\ starts \in [Calls -> Nat]
    /\ count \in [Plugins -> Nat]
    /\ recovery \in {"off", "spawning", "waiting"}
    /\ {desired, gone, deaths} \subseteq Nat
    /\ checked \in Workers \cup {None}
    /\ closing \in BOOLEAN /\ loop \in {"free", "queue"}

\* A call whose caller still waits is in exactly one place: once in the queue, or held by
\* one worker that is executing it.  Timers, aborts, exits and the queue's own loop all
\* take calls from one place to another.
OpenCallIsHeld ==
    /\ \A i, j \in 1..Len(queue) : queue[i] = queue[j] => i = j
    /\ Queued \subseteq Waiting(Calls)
    /\ \A r \in Waiting(Calls) :
         LET holders == {w \in Workers : job[w] = r} IN
         IF r \in Queued THEN holders = {} /\ starts[r] = 0
         ELSE \E w \in holders : /\ holders = {w}
                                 /\ state[w] \in {"busy", "draining"}

\* A child process executes at most one call, and none at all while the pool takes its
\* worker for idle: a call that was given up must take its process with it.
OneHandler ==
    \A w \in Workers :
      /\ Cardinality(handlers[w]) <= 1
      /\ state[w] \in {"absent", "idle", "starting"} => handlers[w] = {}
      /\ job[w] # None => handlers[w] = {job[w]}

\* maxConcurrentPerPlugin counts the calls whose callers wait: every way out of execute
\* gives its place back, once.
CountedIsOpen ==
    \A p \in Plugins :
      /\ count[p] = Cardinality({r \in Waiting(Calls) : Plugin[r] = p})
      /\ count[p] <= PerPlugin

\* Requests, exits and recycling all ask for workers, and one loop starts them: there
\* are never more processes than the maximum.
CapacityBound == Size <= Max

\* The strengthening that makes these inductive.  A worker executes what its promise is
\* for, and a check waits for a worker of the pool; a queued call is open and unbegun, a
\* held one begun once and by one worker; recovery aims at no more than the maximum; and
\* the workers told to leave are the expired ones, or all of them when no call waits.
WorkersInv ==
    /\ \A w \in Workers :
         /\ job[w] # None => state[w] \in {"busy", "draining"} /\ handlers[w] = {job[w]}
         /\ state[w] \in {"absent", "idle", "starting"} => handlers[w] = {}
         /\ \A x, y \in handlers[w] : x = y
    /\ checked # None => state[checked] \notin {"absent", "starting"}
CallsInv ==
    /\ \A i, j \in 1..Len(queue) : queue[i] = queue[j] => i = j
    /\ \A r \in Queued : answer[r] = "open" /\ starts[r] = 0
    /\ \A w \in Workers : job[w] # None => starts[job[w]] = 1
    /\ \A v, w \in Workers : job[v] = job[w] /\ job[v] # None => v = w
    /\ \A r \in Calls : /\ answer[r] = "new" => starts[r] = 0
                        /\ answer[r] = "open" => r \in Queued \/ \E w \in Workers : job[w] = r
LeavingInv ==
    /\ ~closing => leaving \subseteq expired
    /\ closing => queue = <<>>
PoolInv ==
    /\ TypeOK /\ WorkersInv /\ CallsInv /\ CountedIsOpen
    /\ CapacityBound /\ desired <= Max /\ LeavingInv

\* A worker whose child was told to shut down, and so ignores what it is sent, is given
\* no further call.
LeavingGetNothing ==
    [][\A w \in leaving \cap leaving' : handlers'[w] \subseteq handlers[w]]_vars

\* The pool is a service: one answer a call, its work begun at most once, and not after
\* the answer.
Service == INSTANCE CallService
KeepsService == Service!Spec

\* An acquire timeout tells its caller that no worker was found in time: the call was not
\* handed to one.
TimedOutNeverRan == \A r \in Calls : answer[r] = "acquire_timeout" => starts[r] = 0

\* Every call is answered.
CallsAreAnswered == \A r \in Calls : answer[r] = "open" ~> answer[r] # "open"

\* The pool gets back to its minimum, unless a start never settles.
Stuck == recovery = "spawning" /\ \A w \in Workers : state[w] # "starting"
Recovers == <>[](closing \/ Stuck \/ Size >= Min)
=============================================================================
