----------------------- MODULE HostConnection_proofs -----------------------
(***************************************************************************)
(* For any number of connections and executions, and caches prompt or not: *)
(* no execution outlives the connection it was sent over, and the gateway  *)
(* implements CallService.                                                 *)
(***************************************************************************)
EXTENDS HostConnection, TLAPS

USE ConnAssumption

\* HostInv without the registry.
DispatchInv ==
    /\ at \in [Conns -> Stages]
    /\ socketOf \in Conns \cup {None}
    /\ socketOf # None => at[socketOf] \in Live
    /\ call \in [Calls -> {"new", "running", "refused", "done", "failed",
                           "cancelled", "lost"}]
    /\ via \in [Calls -> Conns \cup {None}]
    /\ \A c \in Calls :
         /\ via[c] = None <=> call[c] \in {"new", "refused"}
         /\ call[c] = "running" => at[via[c]] \in Live
         /\ c \in pending => via[c] # None

LEMMA HostInit == Init => DispatchInv
BY DEF Init, DispatchInv, Stages

\* The registry's writes and its timers concern the record, and stages no
\* execution depends on.
LEMMA WriteKeeps ==
    ASSUME DispatchInv, RegistryWrites
    PROVE  DispatchInv' /\ UNCHANGED <<call, via>>
<1>1. PICK o \in ops : SetOnline(o) \/ SetOffline(o) \/ SetGone(o) \/ SetSeen(o)
                       \/ SetDegraded(o)
  BY DEF RegistryWrites
<1>2. CASE SetOnline(o)
  <2> DEFINE k == o.by
  <2>1. at[k] = "online" /\ at' = [at EXCEPT ![k] = "register"]
    BY <1>2 DEF SetOnline, Goes
  <2>2. UNCHANGED <<socketOf, call, via, pending>>
    BY <1>2 DEF SetOnline, dispatch
  <2> HIDE DEF k
  <2> QED BY <2>1, <2>2 DEF DispatchInv, Live, Stages
<1>3. CASE SetOffline(o)
  <2> DEFINE k == o.by
  <2>1. at[k] = "closed"
        /\ (at' = [at EXCEPT ![k] = "done"] \/ at' = [at EXCEPT ![k] = "arming"])
    BY <1>3 DEF SetOffline, Goes
  <2>2. UNCHANGED <<socketOf, call, via, pending>>
    BY <1>3 DEF SetOffline, dispatch
  <2> HIDE DEF k
  <2> QED BY <2>1, <2>2 DEF DispatchInv, Live, Stages
<1>4. CASE SetGone(o) \/ SetSeen(o) \/ SetDegraded(o)
  <2>1. UNCHANGED <<at, socketOf, call, via, pending>>
    BY <1>4 DEF SetGone, SetSeen, SetDegraded, dispatch
  <2> QED BY <2>1 DEF DispatchInv
<1> QED BY <1>1, <1>2, <1>3, <1>4

\* The steps of a handler that send or cancel nothing.
LEMMA HandlerKeeps ==
    ASSUME DispatchInv, NEW k \in Conns,
           \/ Connect(k) \/ Cut(k) \/ Admit(k) \/ Register(k) \/ Listen(k)
           \/ ArmGrace(k) \/ Heartbeat(k) \/ Watchdog(k)
    PROVE  DispatchInv' /\ UNCHANGED <<call, via>>
<1> USE DEF DispatchInv, Live, Stages, Goes, dispatch
<1>1. CASE Connect(k) \/ Admit(k) \/ ArmGrace(k)
  BY <1>1 DEF Connect, Admit, ArmGrace
<1>2. CASE Cut(k) \/ Heartbeat(k) \/ Watchdog(k)
  BY <1>2 DEF Cut, Heartbeat, Watchdog
<1>3. CASE Register(k) BY <1>3 DEF Register
<1>4. CASE Listen(k) BY <1>4 DEF Listen
<1> QED BY <1>1, <1>2, <1>3, <1>4

\* The close of a socket: whatever socket the dispatcher had is forgotten and
\* whatever ran is cancelled, so that nothing depends on the stage any more.
LEMMA CloseKeeps ==
    ASSUME DispatchInv, NEW k \in Conns, SocketCloses(k)
    PROVE  DispatchInv' /\ via' = via /\
           call' = [c \in Calls |-> IF call[c] = "running" /\ call' # call
                                    THEN "cancelled" ELSE call[c]]
<1> USE DEF DispatchInv, Live, Stages, Goes
<1>1. CASE CloseHandled(k)
  BY <1>1 DEF CloseHandled, Running
<1>2. CASE CloseUnheard(k)
  BY <1>2 DEF CloseUnheard, dispatch
<1> QED BY <1>1, <1>2 DEF SocketCloses

LEMMA CallKeeps ==
    ASSUME DispatchInv, NEW c \in Calls,
           Execute(c) \/ HostAnswers(c) \/ CallTimesOut(c) \/ Cancel(c)
    PROVE  DispatchInv'
<1> USE DEF DispatchInv, Live, Running
<1>1. CASE Execute(c) BY <1>1 DEF Execute
<1>2. CASE HostAnswers(c) \/ CallTimesOut(c)
  BY <1>2 DEF HostAnswers, CallTimesOut, Settles
<1>3. CASE Cancel(c) BY <1>3 DEF Cancel
<1> QED BY <1>1, <1>2, <1>3

LEMMA RestartKeeps == DispatchInv /\ Restart => DispatchInv'
BY DEF DispatchInv, Live, Stages, Restart, Running

LEMMA DispatchInductive == Spec => []DispatchInv
<1>1. DispatchInv /\ [Next]_vars => DispatchInv'
  <2> SUFFICES ASSUME DispatchInv, [Next]_vars PROVE DispatchInv'
    OBVIOUS
  <2>1. CASE UNCHANGED vars
    BY <2>1 DEF DispatchInv, vars
  <2>2. CASE GraceFires
    BY <2>2 DEF GraceFires, DispatchInv, dispatch
  <2> QED BY <2>1, <2>2, WriteKeeps, HandlerKeeps, CloseKeeps, CallKeeps, RestartKeeps
          DEF Next
<1> QED BY <1>1, HostInit, PTL DEF Spec

\* The registry's part of the type invariant: the record and what has read it.
RegistryOK ==
    /\ prompt \in BOOLEAN /\ grace \in BOOLEAN
    /\ link \in [Conns -> {"new", "open", "cut", "shut"}]
    /\ record \in Record
    /\ ops \subseteq [op : {"online", "offline", "heartbeat", "watchdog"},
                      by : Conns, saw : Record]
                     \cup [op : {"grace"}, by : {None}, saw : Record]
    /\ newest \in Conns \cup {None}
    /\ pending \subseteq Calls /\ reached \subseteq Calls

PromptInv == prompt => OneAtATime /\ RecordFollows

LEMMA Split == HostInv <=> RegistryOK /\ DispatchInv /\ PromptInv
BY DEF HostInv, TypeOK, RegistryOK, DispatchInv, PromptInv

LEMMA BeginTyped ==
    ASSUME RegistryOK, NEW k \in Conns,
           NEW name \in {"online", "offline", "heartbeat", "watchdog"}, Begins(name, k)
    PROVE  ops' \subseteq [op : {"online", "offline", "heartbeat", "watchdog"},
                           by : Conns, saw : Record]
                          \cup [op : {"grace"}, by : {None}, saw : Record]
BY DEF RegistryOK, Begins

LEMMA WriteTyped == ASSUME RegistryOK, RegistryWrites PROVE RegistryOK'
<1>1. PICK o \in ops : SetOnline(o) \/ SetOffline(o) \/ SetGone(o) \/ SetSeen(o)
                       \/ SetDegraded(o)
  BY DEF RegistryWrites
<1>2. o.saw \in Record /\ (o.op # "grace" => o.by \in Conns)
  BY DEF RegistryOK
<1>3. ops' = ops \ {o} /\ UNCHANGED <<prompt, link, grace, newest, pending, reached>>
  BY <1>1 DEF SetOnline, SetOffline, SetGone, SetSeen, SetDegraded, Ends, dispatch
<1>4. record' \in Record
  <2>1. CASE SetOnline(o)
    BY <1>2, <2>1 DEF SetOnline, Record, Statuses
  <2>2. CASE SetOffline(o)
    BY <1>2, <2>2 DEF SetOffline, Record, Statuses
  <2>3. CASE SetGone(o) \/ SetSeen(o) \/ SetDegraded(o)
    BY <1>2, <2>3 DEF SetGone, SetSeen, SetDegraded, RegistryOK, Record, Statuses
  <2> QED BY <1>1, <2>1, <2>2, <2>3
<1> QED BY <1>3, <1>4 DEF RegistryOK

LEMMA HandlerTyped ==
    ASSUME RegistryOK, NEW k \in Conns,
           \/ Connect(k) \/ Cut(k) \/ Admit(k) \/ Register(k) \/ Listen(k)
           \/ SocketCloses(k) \/ ArmGrace(k) \/ Heartbeat(k) \/ Watchdog(k)
    PROVE  RegistryOK'
<1>1. CASE Connect(k) \/ Cut(k) \/ Register(k) \/ Listen(k) \/ ArmGrace(k)
  BY <1>1 DEF Connect, Cut, Register, Listen, ArmGrace, RegistryOK, registry, dispatch
<1>2. CASE Admit(k)
  BY <1>2, BeginTyped DEF Admit, RegistryOK, dispatch
<1>3. CASE Heartbeat(k) \/ Watchdog(k)
  BY <1>3, BeginTyped DEF Heartbeat, Watchdog, RegistryOK, dispatch
<1>4. CASE SocketCloses(k)
  <2>1. link' \in [Conns -> {"new", "open", "cut", "shut"}]
    BY <1>4 DEF SocketCloses, RegistryOK
  <2>2. CASE CloseHandled(k)
    BY <2>1, <2>2, BeginTyped DEF CloseHandled, RegistryOK
  <2>3. CASE CloseUnheard(k)
    BY <2>1, <2>3 DEF CloseUnheard, RegistryOK, registry, dispatch
  <2> QED BY <1>4, <2>2, <2>3 DEF SocketCloses
<1> QED BY <1>1, <1>2, <1>3, <1>4

LEMMA RegistryInductive == Spec => []RegistryOK
<1>1. Init => RegistryOK
  <2>1. Offline \in Record
    BY DEF Record, Statuses, Offline
  <2>2. prompt \in Paces => prompt \in BOOLEAN
    OBVIOUS
  <2> QED BY <2>1, <2>2 DEF Init, RegistryOK
<1>2. RegistryOK /\ [Next]_vars => RegistryOK'
  <2> SUFFICES ASSUME RegistryOK, [Next]_vars PROVE RegistryOK'
    OBVIOUS
  <2>1. CASE UNCHANGED vars
    BY <2>1 DEF RegistryOK, vars
  <2>2. CASE GraceFires
    <3>1. ops' = ops \cup {[op |-> "grace", by |-> None, saw |-> record]}
      BY <2>2 DEF GraceFires, Begins
    <3>2. [op |-> "grace", by |-> None, saw |-> record]
            \in [op : {"grace"}, by : {None}, saw : Record]
      BY DEF RegistryOK
    <3>3. UNCHANGED <<prompt, link, record, newest, pending, reached>> /\ grace' = FALSE
      BY <2>2 DEF GraceFires, dispatch
    <3> QED BY <3>1, <3>2, <3>3 DEF RegistryOK
  <2>3. CASE Restart
    BY <2>3 DEF Restart, RegistryOK, Record, Statuses, Offline
  <2>4. ASSUME NEW c \in Calls,
               Execute(c) \/ HostAnswers(c) \/ CallTimesOut(c) \/ Cancel(c)
        PROVE  RegistryOK'
    BY <2>4 DEF Execute, HostAnswers, CallTimesOut, Settles, Cancel, RegistryOK, registry
  <2> QED BY <2>1, <2>2, <2>3, <2>4, WriteTyped, HandlerTyped DEF Next
<1> QED BY <1>1, <1>2, PTL DEF Spec

\* What the lemmas on a prompt cache start from.
Prompt == prompt /\ RegistryOK /\ DispatchInv /\ OneAtATime /\ RecordFollows

\* Nothing is under way when an event comes, and what reads the record then is
\* alone with it.
LEMMA BeginsAlone ==
    ASSUME Prompt, Quiet, NEW name, NEW k, Begins(name, k)
    PROVE  /\ ops' = {[op |-> name, by |-> k, saw |-> record]}
           /\ \A j \in Conns : at[j] \notin Busy
BY DEF Prompt, Quiet, Begins, OneAtATime, Busy

LEMMA EventKeeps ==
    ASSUME Prompt, NEW k \in Conns,
           Connect(k) \/ Admit(k) \/ Heartbeat(k) \/ Watchdog(k)
    PROVE  OneAtATime' /\ RecordFollows'
<1> USE DEF Prompt, DispatchInv, Stages, Busy
<1>0. Quiet BY DEF Connect, Admit, Heartbeat, Watchdog, Event
<1>1. CASE Connect(k)
  <2>1. /\ at[k] = "new" /\ at' = [at EXCEPT ![k] = "token"]
        /\ UNCHANGED <<record, ops, grace, newest>>
    BY <1>1 DEF Connect, Goes, registry
  <2>2. OneAtATime' BY <2>1 DEF OneAtATime
  <2>3. RecordFollows'
    BY <2>1 DEF RecordFollows, NamesNewest, StatusFits, IsAwaited, Newest
  <2> QED BY <2>2, <2>3
<1>2. CASE Admit(k)
  <2>1. /\ at[k] = "token" /\ at' = [at EXCEPT ![k] = "online"]
        /\ UNCHANGED <<record, newest>> /\ Begins("online", k)
    BY <1>2 DEF Admit, Goes
  <2>2. /\ ops' = {[op |-> "online", by |-> k, saw |-> record]}
        /\ \A j \in Conns : at[j] \notin Busy
    BY <1>0, <2>1, BeginsAlone
  <2>3. OneAtATime' BY <2>1, <2>2 DEF OneAtATime
  <2>4. RecordFollows'
    BY <2>1, <2>2 DEF RecordFollows, NamesNewest, StatusFits, IsAwaited, Newest
  <2> QED BY <2>3, <2>4
<1>3. CASE Heartbeat(k) \/ Watchdog(k)
  <2>1. PICK name \in {"heartbeat", "watchdog"} :
            UNCHANGED <<at, record, grace, newest>> /\ Begins(name, k)
    BY <1>3 DEF Heartbeat, Watchdog
  <2>2. /\ ops' = {[op |-> name, by |-> k, saw |-> record]}
        /\ \A j \in Conns : at[j] \notin Busy
    BY <1>0, <2>1, BeginsAlone
  <2>3. OneAtATime' BY <2>1, <2>2 DEF OneAtATime
  <2>4. RecordFollows'
    BY <1>0, <2>1, <2>2 DEF RecordFollows, NamesNewest, StatusFits, IsAwaited, Newest,
                            Quiet
  <2> QED BY <2>3, <2>4
<1> QED BY <1>1, <1>2, <1>3

\* The rest of a handshake, and the timer that follows a disconnect.
LEMMA HandshakeKeeps ==
    ASSUME Prompt, NEW k \in Conns, Register(k) \/ Listen(k) \/ ArmGrace(k)
    PROVE  OneAtATime' /\ RecordFollows'
<1> USE DEF Prompt, DispatchInv, Stages, Busy, Goes
<1>1. ops = {} /\ ops' = {} /\ record' = record
  <2>1. at[k] \in {"register", "flush", "arming"}
    BY DEF Register, Listen, ArmGrace
  <2>2. ops' = ops /\ record' = record
    BY DEF Register, Listen, ArmGrace, registry
  <2> QED BY <2>1, <2>2 DEF OneAtATime
<1>2. CASE Register(k)
  <2>1. OneAtATime' BY <1>1, <1>2 DEF OneAtATime, Register
  <2>2. RecordFollows'
    BY <1>1, <1>2 DEF OneAtATime, RecordFollows, NamesNewest, StatusFits, IsAwaited,
                      Newest, Register, registry
  <2> QED BY <2>1, <2>2
<1>3. CASE Listen(k)
  <2>1. OneAtATime' BY <1>1, <1>3 DEF OneAtATime, Listen
  <2>2. RecordFollows'
    BY <1>1, <1>3 DEF OneAtATime, RecordFollows, NamesNewest, StatusFits, IsAwaited,
                      Newest, Listen, registry
  <2> QED BY <2>1, <2>2
<1>4. CASE ArmGrace(k)
  <2>1. OneAtATime' BY <1>1, <1>4 DEF OneAtATime, ArmGrace
  <2>2. RecordFollows'
    BY <1>1, <1>4 DEF OneAtATime, RecordFollows, NamesNewest, StatusFits, IsAwaited,
                      Newest, ArmGrace
  <2> QED BY <2>1, <2>2
<1> QED BY <1>2, <1>3, <1>4

LEMMA ClosePromptKeeps ==
    ASSUME Prompt, NEW k \in Conns, SocketCloses(k)
    PROVE  OneAtATime' /\ RecordFollows'
<1> USE DEF Prompt, DispatchInv, Stages, Busy, Goes
<1>0. Quiet BY DEF SocketCloses, Event
<1>1. CASE CloseHandled(k)
  <2>1. /\ at[k] = "up" /\ at' = [at EXCEPT ![k] = "closed"]
        /\ UNCHANGED <<record, grace, newest>> /\ Begins("offline", k)
    BY <1>1 DEF CloseHandled
  <2>2. /\ ops' = {[op |-> "offline", by |-> k, saw |-> record]}
        /\ \A j \in Conns : at[j] \notin Busy
    BY <1>0, <2>1, BeginsAlone
  <2>3. OneAtATime' BY <2>1, <2>2 DEF OneAtATime
  <2>4. RecordFollows'
    BY <1>0, <2>1, <2>2 DEF RecordFollows, NamesNewest, StatusFits, IsAwaited, Newest,
                            Quiet
  <2> QED BY <2>3, <2>4
<1>2. CASE CloseUnheard(k)
  <2>1. UNCHANGED <<record, ops, grace, newest>> BY <1>2 DEF CloseUnheard, registry
  <2>2. CASE UNCHANGED at
    BY <2>1, <2>2 DEF OneAtATime, RecordFollows, NamesNewest, StatusFits, IsAwaited,
                      Newest
  <2>3. CASE at[k] = "token" /\ at' = [at EXCEPT ![k] = "done"]
    <3>1. OneAtATime' BY <2>1, <2>3 DEF OneAtATime
    <3>2. RecordFollows'
      BY <2>1, <2>3 DEF RecordFollows, NamesNewest, StatusFits, IsAwaited, Newest
    <3> QED BY <3>1, <3>2
  <2> QED BY <1>2, <2>2, <2>3 DEF CloseUnheard
<1> QED BY <1>1, <1>2 DEF SocketCloses

LEMMA WritePromptKeeps ==
    ASSUME Prompt, RegistryWrites
    PROVE  OneAtATime' /\ RecordFollows'
<1> USE DEF Prompt, DispatchInv, Stages, Busy, Goes
<1>1. PICK o \in ops : SetOnline(o) \/ SetOffline(o) \/ SetGone(o) \/ SetSeen(o)
                       \/ SetDegraded(o)
  BY DEF RegistryWrites
<1>2. o.saw = record /\ ops = {o} /\ ops' = {} /\ UNCHANGED <<grace, newest>>
  <2>1. ops' = ops \ {o} /\ UNCHANGED <<grace, newest>>
    BY <1>1 DEF SetOnline, SetOffline, SetGone, SetSeen, SetDegraded, Ends
  <2> QED BY <2>1 DEF OneAtATime
<1>3. o.op # "grace" => o.by \in Conns
  BY DEF RegistryOK
<1>4. record \in Record
  BY DEF RegistryOK
<1>5. CASE SetOnline(o)
  <2> DEFINE k == o.by
  <2>1. /\ k \in Conns /\ at[k] = "online" /\ at' = [at EXCEPT ![k] = "register"]
        /\ \A j \in Conns : at[j] \in Busy => j = k
        /\ record' = [status |-> "online", conns |-> {k}]
    BY <1>3, <1>5 DEF SetOnline, OneAtATime
  <2> HIDE DEF k
  <2>2. OneAtATime' BY <1>2, <2>1 DEF OneAtATime
  <2>3. RecordFollows'
    BY <1>2, <2>1 DEF RecordFollows, NamesNewest, StatusFits, IsAwaited, Newest
  <2> QED BY <2>2, <2>3
<1>6. CASE SetOffline(o)
  <2> DEFINE k == o.by
             left == record.conns \ {k}
  <2>1. /\ k \in Conns /\ at[k] = "closed"
        /\ \A j \in Conns : at[j] \in Busy => j = k
        /\ \/ /\ left # {} /\ at' = [at EXCEPT ![k] = "done"]
              /\ record' = [status |-> "online", conns |-> left]
           \/ /\ left = {} /\ at' = [at EXCEPT ![k] = "arming"]
              /\ record' = [status |-> "reconnecting", conns |-> {}]
    BY <1>2, <1>3, <1>6 DEF SetOffline, OneAtATime
  <2> HIDE DEF k
  <2>2. OneAtATime' BY <1>2, <2>1 DEF OneAtATime
  <2>3. record.conns = {j \in Conns : j = newest /\ at[j] \in {"flush", "up", "deaf", "closed"}}
    BY <2>1 DEF RecordFollows, NamesNewest, StatusFits, IsAwaited, Newest
  <2>4. \A j \in Conns : at[j] # "register"
    BY <2>1
  <2>5. CASE left # {}
    <3>1. /\ at' = [at EXCEPT ![k] = "done"]
          /\ record'.status = "online" /\ record'.conns = left
      BY <2>1, <2>5
    <3>2. left = {newest} /\ newest \in Conns /\ newest # k
          /\ at[newest] \in {"flush", "up", "deaf", "closed"}
      BY <2>3, <2>5
    <3>3. \A j \in Conns : j # k => at'[j] = at[j]
      BY <3>1
    <3>4. at'[newest] = at[newest] BY <3>2, <3>3
    <3>5. left = {j \in Conns : j = newest /\ at'[j] \in {"flush", "up", "deaf", "closed"}}
      BY <3>2, <3>4
    <3>6. \A j \in Conns : at'[j] # "register"
      BY <2>1, <2>4, <3>1, <3>3
    <3>7. newest' = newest /\ record'.conns # {}
      BY <1>2, <3>1, <3>2
    <3>8. (record.conns = Newest({"flush", "up", "deaf", "closed"}))'
      BY <3>1, <3>5, <3>7 DEF Newest
    <3>9. at'[newest'] \in {"flush", "up", "deaf", "closed", "arming", "done"}
      BY <3>2, <3>4, <3>7
    <3>a. NamesNewest'
      BY <3>6, <3>8, <3>9 DEF NamesNewest
    <3>b. StatusFits' /\ IsAwaited'
      BY <3>1, <3>7 DEF StatusFits, IsAwaited
    <3> QED BY <2>2, <3>a, <3>b DEF RecordFollows
  <2>6. CASE left = {}
    <3>1. \A j \in Conns : j = newest => at'[j] \notin {"flush", "up", "deaf", "closed"}
      BY <1>2, <2>1, <2>3, <2>6
    <3>2. at'[k] = "arming" /\ record'.conns = {}
          /\ record'.status = "reconnecting"
      BY <2>1, <2>6
    <3>3. \A j \in Conns : at'[j] # "register"
      BY <2>1, <2>4, <2>6
    <3>4. newest # None =>
            at'[newest] \in {"flush", "up", "deaf", "closed", "arming", "done"}
      BY <2>1, <2>6 DEF RecordFollows, NamesNewest, RegistryOK
    <3>5. {j \in Conns : j = newest /\ at'[j] \in {"flush", "up", "deaf", "closed"}} = {}
      BY <3>1
    <3>6. newest' = newest BY <1>2
    <3>7. (record.conns = Newest({"flush", "up", "deaf", "closed"}))'
      BY <3>2, <3>5, <3>6 DEF Newest
    <3>8. NamesNewest'
      BY <3>3, <3>4, <3>6, <3>7 DEF NamesNewest
    <3>9. StatusFits' /\ IsAwaited'
      BY <2>1, <3>2 DEF StatusFits, IsAwaited
    <3> QED BY <2>2, <3>8, <3>9 DEF RecordFollows
  <2> QED BY <2>2, <2>5, <2>6
<1>7. CASE SetGone(o) \/ SetSeen(o) \/ SetDegraded(o)
  <2>1. /\ \A j \in Conns : at[j] \notin Busy /\ at'[j] = at[j]
        /\ at' = at /\ record'.conns = record.conns
        /\ \/ record'.status = record.status
           \/ record.status = "reconnecting" /\ record'.status = "offline"
           \/ record'.status = "degraded"
        /\ o.op = "grace" => record'.status # "reconnecting"
        /\ o.op \notin {"online", "offline"}
    <3>1. o.op \in {"grace", "heartbeat", "watchdog"} /\ at' = at
      BY <1>7 DEF SetGone, SetSeen, SetDegraded
    <3>2. \A j \in Conns : at[j] \notin Busy
      BY <3>1 DEF OneAtATime
    <3>3. record' \in {record, [record EXCEPT !.status = "offline"],
                      [record EXCEPT !.status = "degraded"]}
          /\ (record' = [record EXCEPT !.status = "offline"] =>
                record' = record \/ record.status = "reconnecting")
          /\ (o.op = "grace" => record'.status # "reconnecting")
      BY <1>2, <1>4, <1>7 DEF SetGone, SetSeen, SetDegraded, Record
    <3> QED BY <1>4, <3>1, <3>2, <3>3 DEF Record
  <2>2. OneAtATime' BY <1>2, <2>1 DEF OneAtATime
  <2>3. RecordFollows'
    BY <1>2, <2>1 DEF RecordFollows, NamesNewest, StatusFits, IsAwaited, Newest
  <2> QED BY <2>2, <2>3
<1> QED BY <1>1, <1>5, <1>6, <1>7

LEMMA PromptStep == RegistryOK /\ DispatchInv /\ PromptInv /\ [Next]_vars => PromptInv'
<1> SUFFICES ASSUME RegistryOK, DispatchInv, PromptInv, [Next]_vars, prompt'
             PROVE  OneAtATime' /\ RecordFollows'
  BY DEF PromptInv
<1>1. prompt' = prompt
  BY DEF vars, Next, Connect, Cut, Admit, Register, Listen, SocketCloses, CloseHandled,
         CloseUnheard, ArmGrace, Heartbeat, Watchdog, RegistryWrites, SetOnline,
         SetOffline, SetGone, SetSeen, SetDegraded, GraceFires, Restart, Execute,
         HostAnswers, CallTimesOut, Settles, Cancel
<1>2. Prompt
  BY <1>1 DEF Prompt, PromptInv
<1>3. ASSUME UNCHANGED <<at, record, ops, grace, newest>>
      PROVE  OneAtATime' /\ RecordFollows'
  BY <1>2, <1>3 DEF Prompt, OneAtATime, RecordFollows, NamesNewest, StatusFits, IsAwaited,
                    Newest
<1>4. CASE UNCHANGED vars
  BY <1>3, <1>4 DEF vars
<1>5. ASSUME NEW k \in Conns, Cut(k) PROVE OneAtATime' /\ RecordFollows'
  BY <1>3, <1>5 DEF Cut, registry
<1>6. ASSUME NEW c \in Calls,
             Execute(c) \/ HostAnswers(c) \/ CallTimesOut(c) \/ Cancel(c)
      PROVE  OneAtATime' /\ RecordFollows'
  BY <1>3, <1>6 DEF Execute, HostAnswers, CallTimesOut, Settles, Cancel, registry
<1>7. CASE GraceFires
  <2>1. /\ ops' = {[op |-> "grace", by |-> None, saw |-> record]}
        /\ \A j \in Conns : at[j] \notin Busy
        /\ UNCHANGED <<at, record, newest>>
    BY <1>2, <1>7, BeginsAlone DEF GraceFires, Event, Prompt
  <2>2. OneAtATime' BY <1>2, <2>1 DEF Prompt, OneAtATime, Busy
  <2>3. RecordFollows'
    BY <1>2, <2>1 DEF Prompt, RecordFollows, NamesNewest, StatusFits, IsAwaited, Newest,
                      Busy
  <2> QED BY <2>2, <2>3
<1>8. CASE Restart
  <2>1. /\ \A k \in Conns : at'[k] \in {"new", "done"}
        /\ record' = Offline /\ ops' = {} /\ newest' = None
    BY <1>8 DEF Restart
  <2>2. OneAtATime' BY <2>1 DEF OneAtATime, Busy
  <2>3. RecordFollows'
    BY <2>1 DEF RecordFollows, NamesNewest, StatusFits, IsAwaited, Newest, Offline
  <2> QED BY <2>2, <2>3
<1> QED BY <1>2, <1>4, <1>5, <1>6, <1>7, <1>8, EventKeeps, HandshakeKeeps,
           ClosePromptKeeps, WritePromptKeeps DEF Next

LEMMA PromptInductive == Spec => []PromptInv
<1>1. Init => PromptInv
  BY DEF Init, PromptInv, OneAtATime, RecordFollows, NamesNewest, StatusFits, IsAwaited,
         Newest, Busy, Offline
<1> QED BY <1>1, PromptStep, DispatchInductive, RegistryInductive, PTL DEF Spec

\* The types, and what ties executions and the dispatcher's socket to the handlers of
\* the connections, the record to the newest of them.
THEOREM HostInductive == Spec => []HostInv
BY Split, DispatchInductive, RegistryInductive, PromptInductive, PTL

\* With a prompt cache the record names the newest connection and no other, for
\* any number of connections that open, close and are noticed in any order; over a
\* cache that is not prompt the operations overlap and nothing of it is claimed.
THEOREM RecordExact == Spec => []RecordIsExact
<1>1. RegistryOK /\ PromptInv => RecordIsExact
  <2> SUFFICES ASSUME RegistryOK, OneAtATime, RecordFollows, Quiet
               PROVE  /\ record.conns = Newest({"up", "deaf"})
                      /\ StatusFits
                      /\ record.status = "reconnecting" => grace
    BY DEF PromptInv, RecordIsExact
  <2>1. \A k \in Conns : at[k] \notin Busy
    BY DEF OneAtATime, Quiet, Busy
  <2> QED BY <2>1 DEF RecordFollows, NamesNewest, StatusFits, IsAwaited, Newest, Quiet,
                      Busy
<1> QED BY <1>1, RegistryInductive, PromptInductive, PTL

\* No execution is left running on a connection whose end the gateway has
\* seen, for any number of connections, executions and restarts.
THEOREM ExecutionsGoWithConnection == Spec => []NoOrphans
<1>1. DispatchInv => NoOrphans
  BY DEF DispatchInv, NoOrphans, Running, Live
<1> QED BY <1>1, DispatchInductive, PTL

\* The gateway implements CallService: one answer per execution, and nothing
\* is sent twice or after its answer.
THEOREM GatewayServes == Spec => KeepsService
<1>1. Init => Service!Init
  BY DEF Init, Service!Init, Running
<1>2. DispatchInv /\ [Next]_vars
        => [Service!Next]_<<[c \in Calls |-> IF c \in Running THEN "open" ELSE call[c]],
                            [c \in Calls |-> IF via[c] = None THEN 0 ELSE 1]>>
  <2> SUFFICES ASSUME DispatchInv, [Next]_vars
               PROVE  \/ Service!Next
                      \/ UNCHANGED <<call, via>>
    BY DEF Running
  <2>1. CASE UNCHANGED vars
    BY <2>1 DEF vars
  <2>2. CASE GraceFires
    BY <2>2 DEF GraceFires, dispatch
  <2>3. ASSUME NEW k \in Conns, SocketCloses(k) PROVE Service!Next
    BY <2>3, CloseKeeps DEF DispatchInv, Service!Next, Service!Unanswered, Running
  <2>4. CASE Restart
    BY <2>4 DEF Restart, DispatchInv, Service!Next, Service!Unanswered, Running
  <2>5. ASSUME NEW c \in Calls,
               Execute(c) \/ HostAnswers(c) \/ CallTimesOut(c) \/ Cancel(c)
        PROVE  Service!Next
    <3> USE DEF DispatchInv, Service!Next, Service!Unanswered, Running
    <3>1. CASE Execute(c) BY <3>1 DEF Execute
    <3>2. CASE HostAnswers(c) \/ CallTimesOut(c)
      BY <3>2 DEF HostAnswers, CallTimesOut, Settles
    <3>3. CASE Cancel(c) BY <3>3 DEF Cancel
    <3> QED BY <2>5, <3>1, <3>2, <3>3
  <2> QED BY <2>1, <2>2, <2>3, <2>4, <2>5, WriteKeeps, HandlerKeeps DEF Next
<1> QED BY <1>1, <1>2, DispatchInductive, PTL DEF Spec, KeepsService, Service!Spec
=============================================================================
