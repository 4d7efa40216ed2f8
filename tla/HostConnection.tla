--------------------------- MODULE HostConnection ---------------------------
(***************************************************************************)
(* One execution host of the gateway: the life of its WebSocket            *)
(* connections (ws-handler.ts), the record the registry keeps of it in the *)
(* cache (registry.ts), the table of sockets and pending calls of the      *)
(* dispatcher (dispatcher.ts) and the executions sent to it.               *)
(*                                                                         *)
(* The registry changes the record by reading it, awaiting, and writing a  *)
(* modified copy, so that operations of one host may overlap. Whether they *)
(* do depends on the cache: prompt says that every call of it is answered  *)
(* before the next event of the process (the in-memory adapter).           *)
(* Executions are attempted once (routes.ts passes no retry config), and   *)
(* the registry has a persistent store.                                    *)
(***************************************************************************)
EXTENDS Naturals

CONSTANTS
    Conns,   \* connections the host opens, one after the other
    Calls,   \* POST /api/v1/execute
    None,
    Paces    \* the values of prompt to consider

ASSUME ConnAssumption == None \notin Conns /\ Paces \subseteq BOOLEAN

VARIABLES
    prompt,
    link,      \* of each connection: "new", "open", "cut" (the gateway has not
               \* noticed yet), "shut" (the 'close' event was emitted)
    at,        \* where wsHandler is for each connection
    record,    \* host:registry:<namespace>:<host>
    ops,       \* registry operations that have read the record, not yet written
    grace,     \* is the reconnect timer armed?
    socketOf,  \* the dispatcher's socket of the host
    newest,    \* the connection registered last
    call,      \* the answers to the executions
    via,       \* the connection each execution was sent over
    pending,   \* executions in the dispatcher's table of pending calls
    reached    \* executions whose message came to the host

vars == <<prompt, link, at, record, ops, grace, socketOf, newest, call, via,
          pending, reached>>
registry == <<record, ops, grace>>
dispatch == <<call, via, pending, reached>>

Offline == [status |-> "offline", conns |-> {}]

Init ==
    /\ prompt \in Paces
    /\ link = [k \in Conns |-> "new"] /\ at = [k \in Conns |-> "new"]
    /\ record = Offline /\ ops = {} /\ grace = FALSE
    /\ socketOf = None /\ newest = None
    /\ call = [c \in Calls |-> "new"] /\ via = [c \in Calls |-> None]
    /\ pending = {} /\ reached = {}

Quiet ==
    /\ ops = {}
    /\ \A k \in Conns : at[k] \notin {"online", "register", "flush", "arming"}

\* An event of the process: with a prompt cache it finds nothing under way.
Event == prompt => Quiet

Goes(k, from, to) == at[k] = from /\ at' = [at EXCEPT ![k] = to]

\* The read of a registry operation, and its end.
Begins(name, k) == ops' = ops \cup {[op |-> name, by |-> k, saw |-> record]}
Ends(o) == o \in ops /\ ops' = ops \ {o}
-----------------------------------------------------------------------------
\* GatewayClient.doConnect: the host opens a connection when it has none, and
\* wsHandler starts to check its token.
Connect(k) ==
    /\ Event /\ link[k] = "new"
    /\ \A j \in Conns : link[j] # "open"
    /\ link' = [link EXCEPT ![k] = "open"]
    /\ Goes(k, "new", "token")
    /\ UNCHANGED <<prompt, registry, socketOf, newest, dispatch>>

\* The host loses its connection; the gateway does not know yet.
Cut(k) ==
    /\ link[k] = "open"
    /\ link' = [link EXCEPT ![k] = "cut"]
    /\ UNCHANGED <<prompt, at, registry, socketOf, newest, dispatch>>

\* The token and the hello are in order: setOnline reads the record and stops
\* the reconnect timer. The socket may have closed since the hello came.
Admit(k) ==
    /\ Event /\ Goes(k, "token", "online")
    /\ Begins("online", k)
    /\ grace' = FALSE
    /\ UNCHANGED <<prompt, link, record, socketOf, newest, dispatch>>

SetOnline(o) ==
    /\ o.op = "online" /\ Ends(o)
    /\ Goes(o.by, "online", "register")
    /\ record' = [status |-> "online", conns |-> {o.by}]
    /\ UNCHANGED <<prompt, link, grace, socketOf, newest, dispatch>>

Register(k) ==
    /\ Goes(k, "register", "flush")
    /\ socketOf' = k /\ newest' = k
    /\ UNCHANGED <<prompt, link, registry, dispatch>>

\* buffer.flush has returned and the listeners are installed: a socket that
\* closed before is never heard of again.
Listen(k) ==
    /\ Goes(k, "flush", IF link[k] = "shut" THEN "deaf" ELSE "up")
    /\ UNCHANGED <<prompt, link, registry, socketOf, newest, dispatch>>

Running == {c \in Calls : call[c] = "running"}

\* mutant: the executions are left to run; they are not of this connection
\* any more when the host is back.
CloseHandledSparing(k) ==
    /\ Goes(k, "up", "closed")
    /\ socketOf' = None
    /\ Begins("offline", k)
    /\ UNCHANGED <<prompt, record, grace, newest, dispatch>>

\* The 'close' listener: the dispatcher forgets the host, whichever socket it
\* has, every execution on the host is cancelled, setOffline reads the record.
CloseHandled(k) ==
    /\ Goes(k, "up", "closed")
    /\ socketOf' = None
    /\ call' = [c \in Calls |-> IF c \in Running THEN "cancelled" ELSE call[c]]
    /\ Begins("offline", k)
    /\ UNCHANGED <<prompt, record, grace, newest, via, pending, reached>>

\* Before the listeners exist nobody hears the event, except that a handshake
\* without its hello ends.
CloseUnheard(k) ==
    /\ at[k] \in {"token", "online", "register", "flush"}
    /\ \/ UNCHANGED at
       \/ Goes(k, "token", "done")
    /\ UNCHANGED <<prompt, registry, socketOf, newest, dispatch>>

SocketCloses(k) ==
    /\ Event /\ link[k] \in {"open", "cut"}
    /\ link' = [link EXCEPT ![k] = "shut"]
    /\ CloseHandled(k) \/ CloseUnheard(k)

\* mutant: the last disconnect takes the host offline whatever connections
\* the record has.
SetOfflineAnyway(o) ==
    /\ o.op = "offline" /\ Ends(o)
    /\ record' = [status |-> "reconnecting", conns |-> {}]
    /\ Goes(o.by, "closed", "arming")
    /\ UNCHANGED <<prompt, link, grace, socketOf, newest, dispatch>>

SetOffline(o) ==
    LET left == o.saw.conns \ {o.by} IN
    /\ o.op = "offline" /\ Ends(o)
    /\ \/ /\ left # {}
          /\ record' = [status |-> "online", conns |-> left]
          /\ Goes(o.by, "closed", "done")
       \/ /\ left = {}
          /\ record' = [status |-> "reconnecting", conns |-> {}]
          /\ Goes(o.by, "closed", "arming")
    /\ UNCHANGED <<prompt, link, grace, socketOf, newest, dispatch>>

\* mutant: no timer is armed when the host has another connection open.
ArmGraceOnce(k) ==
    /\ Goes(k, "arming", "done")
    /\ grace' = (newest = k)
    /\ UNCHANGED <<prompt, link, record, ops, socketOf, newest, dispatch>>

\* After the record is saved the reconnect timer is (re)started.
ArmGrace(k) ==
    /\ Goes(k, "arming", "done")
    /\ grace' = TRUE
    /\ UNCHANGED <<prompt, link, record, ops, socketOf, newest, dispatch>>

GraceFires ==
    /\ Event /\ grace /\ grace' = FALSE
    /\ Begins("grace", None)
    /\ UNCHANGED <<prompt, link, at, record, socketOf, newest, dispatch>>

SetGone(o) ==
    /\ o.op = "grace" /\ Ends(o)
    /\ record' = IF o.saw.status = "reconnecting"
                 THEN [o.saw EXCEPT !.status = "offline"] ELSE record
    /\ UNCHANGED <<prompt, link, at, grace, socketOf, newest, dispatch>>

\* A heartbeat message, and the interval of the watchdog that misses them. Both
\* come every 30 s: one of them is under way at a time (a bound of the model).
Beating == \E o \in ops : o.op \in {"heartbeat", "watchdog"}

Heartbeat(k) ==
    /\ Event /\ ~Beating /\ link[k] = "open" /\ at[k] = "up"
    /\ Begins("heartbeat", k)
    /\ UNCHANGED <<prompt, link, at, record, grace, socketOf, newest, dispatch>>

Watchdog(k) ==
    /\ Event /\ ~Beating /\ at[k] \in {"up", "deaf"}
    /\ Begins("watchdog", k)
    /\ UNCHANGED <<prompt, link, at, record, grace, socketOf, newest, dispatch>>

SetSeen(o) ==
    /\ o.op = "heartbeat" /\ Ends(o)
    /\ record' = o.saw
    /\ UNCHANGED <<prompt, link, at, grace, socketOf, newest, dispatch>>

SetDegraded(o) ==
    /\ o.op = "watchdog" /\ Ends(o)
    /\ record' = IF o.saw.status # "degraded"
                 THEN [o.saw EXCEPT !.status = "degraded"] ELSE record
    /\ UNCHANGED <<prompt, link, at, grace, socketOf, newest, dispatch>>

\* The gateway's process is replaced: its sockets, timers, tables and requests
\* are gone, and restore writes every host offline.
Restart ==
    /\ \E k \in Conns : at[k] \notin {"new", "done"}
    /\ link' = [k \in Conns |-> IF link[k] = "new" THEN "new" ELSE "shut"]
    /\ at' = [k \in Conns |-> IF at[k] = "new" THEN "new" ELSE "done"]
    /\ record' = Offline /\ ops' = {} /\ grace' = FALSE
    /\ socketOf' = None /\ newest' = None
    /\ call' = [c \in Calls |-> IF c \in Running THEN "lost" ELSE call[c]]
    /\ pending' = {}
    /\ UNCHANGED <<prompt, via, reached>>
-----------------------------------------------------------------------------
\* POST /execute and HostCallDispatcher.call. A message to a socket that is
\* cut or shut gets lost.
Execute(c) ==
    /\ call[c] = "new"
    /\ \/ /\ socketOf = None
          /\ call' = [call EXCEPT ![c] = "refused"]
          /\ UNCHANGED <<via, pending, reached>>
       \/ /\ socketOf # None
          /\ call' = [call EXCEPT ![c] = "running"]
          /\ via' = [via EXCEPT ![c] = socketOf]
          /\ pending' = pending \cup {c}
          /\ reached' = IF link[socketOf] = "open" THEN reached \cup {c} ELSE reached
    /\ UNCHANGED <<prompt, link, at, registry, socketOf, newest>>

\* What the caller is told when the dispatcher settles: nothing after an abort.
Settles(c, answer) ==
    /\ c \in pending /\ pending' = pending \ {c}
    /\ call' = IF c \in Running THEN [call EXCEPT ![c] = answer] ELSE call
    /\ UNCHANGED <<prompt, link, at, registry, socketOf, newest, via, reached>>

\* mutant: the result of an aborted execution is still written to the caller.
HostAnswersLate(c) ==
    /\ c \in pending \cap reached
    /\ \E k \in Conns : link[k] = "open" /\ at[k] = "up"
    /\ pending' = pending \ {c}
    /\ call' = [call EXCEPT ![c] = "done"]
    /\ UNCHANGED <<prompt, link, at, registry, socketOf, newest, via, reached>>

\* The host answers over the connection it has then; the call is found by its
\* requestId, whatever connection it went out on.
HostAnswers(c) ==
    /\ c \in reached
    /\ \E k \in Conns : link[k] = "open" /\ at[k] = "up"
    /\ Settles(c, "done") \/ Settles(c, "failed")

\* mutant: the timeout only cleans up the table of pending calls.
CallTimesOutSilently(c) ==
    /\ c \in pending /\ pending' = pending \ {c}
    /\ UNCHANGED <<prompt, link, at, registry, socketOf, newest, call, via, reached>>

CallTimesOut(c) == Settles(c, "failed")

\* POST /execute/:id/cancel, or the caller hangs up. The pending call stays.
Cancel(c) ==
    /\ c \in Running
    /\ call' = [call EXCEPT ![c] = "cancelled"]
    /\ UNCHANGED <<prompt, link, at, registry, socketOf, newest, via, pending, reached>>

RegistryWrites ==
    \E o \in ops :
        SetOnline(o) \/ SetOffline(o) \/ SetGone(o) \/ SetSeen(o) \/ SetDegraded(o)

Next ==
    \/ \E k \in Conns :
         \/ Connect(k) \/ Cut(k) \/ Admit(k) \/ Register(k) \/ Listen(k)
         \/ SocketCloses(k) \/ ArmGrace(k) \/ Heartbeat(k) \/ Watchdog(k)
    \/ RegistryWrites \/ GraceFires \/ Restart
    \/ \E c \in Calls : Execute(c) \/ HostAnswers(c) \/ CallTimesOut(c) \/ Cancel(c)

\* The timers of calls fire; the cache answers; the handshake goes on; and the
\* reconnect timer fires though other events come before it.
Fairness ==
    /\ \A c \in Calls : WF_vars(CallTimesOut(c))
    /\ WF_vars(RegistryWrites)
    /\ \A k \in Conns : WF_vars(Register(k)) /\ WF_vars(Listen(k)) /\ WF_vars(ArmGrace(k))
    /\ SF_vars(GraceFires)

Spec == Init /\ [][Next]_vars /\ Fairness
-----------------------------------------------------------------------------
Statuses == {"online", "offline", "degraded", "reconnecting"}
Record == [status : Statuses, conns : SUBSET Conns]
Stages == {"new", "token", "online", "register", "flush", "up", "deaf",
           "closed", "arming", "done"}

\* The values the variables take; a registry operation is on behalf of a connection,
\* except the one of the timer.
TypeOK ==
    /\ prompt \in BOOLEAN
    /\ link \in [Conns -> {"new", "open", "cut", "shut"}]
    /\ at \in [Conns -> Stages]
    /\ record \in Record
    /\ ops \subseteq [op : {"online", "offline", "heartbeat", "watchdog"},
                      by : Conns, saw : Record]
                     \cup [op : {"grace"}, by : {None}, saw : Record]
    /\ grace \in BOOLEAN
    /\ {socketOf, newest} \subseteq Conns \cup {None}
    /\ call \in [Calls -> {"new", "running", "refused", "done", "failed",
                           "cancelled", "lost"}]
    /\ via \in [Calls -> Conns \cup {None}]
    /\ pending \subseteq Calls /\ reached \subseteq Calls

\* A handler that has registered its socket and not seen it close.
Live == {"flush", "up", "deaf"}

\* No execution goes on over a connection whose end the gateway has seen, in
\* whatever order closes, reconnects and restarts come: it is cancelled with
\* the connection, not left to its timeout. (ws-handler.ts 314-339)
NoOrphans ==
    \A c \in Running : via[c] # None /\ at[via[c]] \in Live

\* With a prompt cache one handler or one timer is busy at a time, and what it
\* read is still what the record says.
Busy == {"online", "register", "flush", "closed", "arming"}
OneAtATime ==
    /\ \A j, k \in Conns : at[j] \in Busy /\ at[k] \in Busy => j = k
    /\ \A o, q \in ops : o = q
    /\ \A o \in ops :
         /\ o.saw = record
         /\ o.op = "online" => at[o.by] = "online"
         /\ o.op = "offline" => at[o.by] = "closed"
         /\ \A k \in Conns :
              at[k] \in Busy => o.by = k /\ o.op \in {"online", "offline"}
    /\ \A k \in Conns : at[k] \in {"online", "closed"} => ops # {}

\* The newest connection, while its handler is at one of these stages.
Newest(stages) == {k \in Conns : k = newest /\ at[k] \in stages}

\* What the record says between two steps of a prompt registry: which connection,
\* with which status, and who ends a wait.
NamesNewest ==
    /\ newest # None => at[newest] \in {"flush", "up", "deaf", "closed", "arming", "done"}
    /\ \A k \in Conns : at[k] = "register" => record.conns = {k}
    /\ \/ \E k \in Conns : at[k] = "register"
       \/ record.conns = Newest({"flush", "up", "deaf", "closed"})
StatusFits ==
    IF record.conns = {} THEN record.status # "online"
    ELSE record.status \in {"online", "degraded"}
IsAwaited ==
    record.status = "reconnecting" =>
        \/ grace
        \/ \E k \in Conns : at[k] = "arming"
        \/ \E o \in ops : o.op \in {"grace", "online"}
RecordFollows == NamesNewest /\ StatusFits /\ IsAwaited

\* The strengthening that makes NoOrphans and RecordIsExact inductive: the
\* dispatcher's socket belongs to a handler that has not seen its end, whatever was
\* sent was sent over some connection, and a prompt registry does one thing at a
\* time. (dispatcher.ts 40-106, registry.ts 73-166)
HostInv ==
    /\ TypeOK
    /\ prompt => OneAtATime /\ RecordFollows
    /\ socketOf # None => at[socketOf] \in Live
    /\ \A c \in Calls :
         /\ via[c] = None <=> call[c] \in {"new", "refused"}
         /\ call[c] = "running" => at[via[c]] \in Live
         /\ c \in pending => via[c] # None

\* With a prompt cache the record is exact between events: it names the newest
\* connection until its end is seen and no other, however late the ends of
\* older ones are seen, is online only with one, and a host that is waited for
\* has its timer. (registry.ts 109-166)
RecordIsExact ==
    prompt /\ Quiet =>
        /\ record.conns = Newest({"up", "deaf"})
        /\ StatusFits
        /\ record.status = "reconnecting" => grace

\* Every execution is answered once, cancelled or not, and no answer follows
\* its cancellation; its message is sent once at most. (retry-executor.ts
\* 42-113, dispatcher.ts 75-138)
Service == INSTANCE CallService WITH
    answer <- [c \in Calls |-> IF c \in Running THEN "open" ELSE call[c]],
    starts <- [c \in Calls |-> IF via[c] = None THEN 0 ELSE 1]
KeepsService == Service!Spec

\* Every execution ends, even one that was sent into a dead socket.
\* (dispatcher.ts 90-93)
ExecutionsEnd == \A c \in Calls : c \in Running ~> c \notin Running

\* With a prompt cache no host stays "reconnecting": it comes back or goes
\* offline. (registry.ts 144-166)
GraceEnds ==
    prompt /\ record.status = "reconnecting" ~> record.status # "reconnecting"

-----------------------------------------------------------------------------
(* What a test says and the code does not do.                              *)

\* A host that the registry has online can be called: "stays online when
\* disconnected connectionId is not the current one" (registry.test.ts 120),
\* and resolve-host hands such a host out.
OnlineIsReachable ==
    prompt /\ Quiet /\ record.status = "online" => socketOf # None
=============================================================================
