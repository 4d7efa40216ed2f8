--------------------------- MODULE JobQueue_proofs ---------------------------
(***************************************************************************)
(* For every number of entries, loops and deaths, a queue whose keys do    *)
(* not expire hands each entry to one loop and loses none that waits.      *)
(***************************************************************************)
EXTENDS JobQueue, TLAPS

LEMMA WaitingIds == \A e : e \in Waiting <=> \E k \in Ranks : \E x \in queue[k] : x.id = e
  BY DEF Waiting

LEMMA WaitingIdsNext ==
  \A e : e \in Waiting' <=> \E k \in Ranks : \E x \in queue'[k] : x.id = e
  BY DEF Waiting

LEMMA InitQueue == Init => QueueInv
<1> SUFFICES ASSUME Init PROVE QueueInv
  OBVIOUS
<1>1. QueueTypeOK
  BY DEF Init, QueueTypeOK, Items, Owning, Ranks, NoneDue
<1>2. LoopsOK
  BY DEF Init, LoopsOK, Owning, Ranks
<1>3. OnePlace
  BY WaitingIds DEF Init, OnePlace, Held
<1>4. ScansOK
  BY DEF Init, ScansOK, Ranks, NoneDue
<1> QED BY <1>1, <1>2, <1>3, <1>4 DEF QueueInv, Init

(***************************************************************************)
(* Typing                                                                  *)
(***************************************************************************)
\* A write of one sorted set.
LEMMA WriteTyped ==
  ASSUME QueueInv, KeyTTL = 0, NEW k \in Ranks, NEW items \in SUBSET Items, Write(k, items)
  PROVE  queue' \in [Ranks -> SUBSET Items] /\ life' = [i \in Ranks |-> 0]
  BY DEF Write, QueueInv, QueueTypeOK

LEMMA QueueTyped ==
  ASSUME QueueInv, KeyTTL = 0, [Next]_queueVars
  PROVE  QueueTypeOK' /\ life' = [k \in Ranks |-> 0]
<1> USE QueueBounds DEF QueueInv, QueueTypeOK, Owning, Move
<1>1. CASE Tick
  BY <1>1 DEF Tick
<1>2. ASSUME NEW e \in Entries, EnqueueJob(e) PROVE QueueTypeOK' /\ life' = [k \in Ranks |-> 0]
  <2>1. PICK k \in Ranks : Write(k, queue[k] \cup {[id |-> e, score |-> now]})
    BY <1>2 DEF EnqueueJob
  <2>2. queue[k] \cup {[id |-> e, score |-> now]} \in SUBSET Items
    BY DEF Items
  <2>3. queue' \in [Ranks -> SUBSET Items] /\ life' = [i \in Ranks |-> 0]
    BY <2>1, <2>2, WriteTyped
  <2> QED BY <1>2, <2>3 DEF EnqueueJob
<1>3. CASE \E k \in Ranks : LockExpires(k)
  BY <1>3 DEF LockExpires
<1>4. ASSUME NEW w \in Loops, LoopStep(w) PROVE QueueTypeOK' /\ life' = [k \in Ranks |-> 0]
  <2>1. CASE DequeueJob(w)
    BY <2>1 DEF DequeueJob, Eligible, Ranks
  <2>n. ASSUME NextRank(w), rank[w] \in Ranks PROVE rank' \in [Loops -> 1..4]
    BY <2>n DEF NextRank, Ranks
  <2>2. CASE Probe(w)
    <3>1. rank[w] \in Ranks
      BY <2>2 DEF Probe, LoopsOK
    <3>2. rank' \in [Loops -> 1..4]
      BY <2>2, <2>n, <3>1 DEF Probe
    <3>3. pc' \in [Loops -> {"idle", "probe", "lock", "dead"} \cup Owning]
      BY <2>2 DEF Probe, NextRank
    <3> QED BY <2>2, <3>2, <3>3 DEF Probe
  <2>3. CASE TakeLock(w)
    BY <2>3 DEF TakeLock
  <2>4. CASE ReadHead(w)
    <3>1. Heads(rank[w]) \subseteq Items
      <4>1. rank[w] \in Ranks
        BY <2>4 DEF ReadHead, LoopsOK
      <4> QED BY <4>1 DEF Heads, Eligible
    <3>2. head' \in [Loops -> SUBSET Items]
      BY <2>4, <3>1 DEF ReadHead
    <3> QED BY <2>4, <3>2 DEF ReadHead
  <2>5. CASE RemoveHead(w)
    <3>1. rank[w] \in Ranks /\ Write(rank[w], queue[rank[w]] \ head[w])
      BY <2>5 DEF RemoveHead, LoopsOK
    <3>2. queue[rank[w]] \ head[w] \in SUBSET Items
      BY <3>1
    <3>3. queue' \in [Ranks -> SUBSET Items] /\ life' = [i \in Ranks |-> 0]
      BY <3>1, <3>2, WriteTyped
    <3>4. due' \in [Loops -> [Ranks -> SUBSET Items]]
      <4>1. \A v \in Loops : [due[v] EXCEPT ![rank[w]] = @ \ head[w]] \in [Ranks -> SUBSET Items]
        <5> TAKE v \in Loops
        <5>1. due[v] \in [Ranks -> SUBSET Items]
          OBVIOUS
        <5> QED BY <3>1, <5>1
      <4> QED BY <2>5, <4>1 DEF RemoveHead
    <3> QED BY <2>5, <3>3, <3>4 DEF RemoveHead
  <2>6. CASE Unlock(w)
    <3>1. rank[w] \in Ranks
      BY <2>6 DEF Unlock, LoopsOK
    <3>2. rank' \in [Loops -> 1..4]
      BY <2>6, <2>n, <3>1 DEF Unlock
    <3>3. pc' \in [Loops -> {"idle", "probe", "lock", "dead"} \cup Owning]
      BY <2>6 DEF Unlock, NextRank
    <3>4. due' \in [Loops -> [Ranks -> SUBSET Items]]
      BY <2>6 DEF Unlock, NoneDue
    <3> QED BY <2>6, <3>1, <3>2, <3>3, <3>4 DEF Unlock
  <2>7. CASE Finish(w)
    BY <2>7 DEF Finish
  <2> QED BY <1>4, <2>1, <2>2, <2>3, <2>4, <2>5, <2>6, <2>7 DEF LoopStep
<1>5. ASSUME NEW w \in Loops, LockTimesOut(w) PROVE QueueTypeOK' /\ life' = [k \in Ranks |-> 0]
  BY <1>5 DEF LockTimesOut, Ranks, NoneDue
<1>6. ASSUME NEW w \in Loops, Reschedule(w) PROVE QueueTypeOK' /\ life' = [k \in Ranks |-> 0]
  <2>1. PICK x \in hand[w], d \in 1..MaxDelay :
          Write(rank[w], queue[rank[w]] \cup {[x EXCEPT !.score = now + d]})
    BY <1>6 DEF Reschedule
  <2>2. rank[w] \in Ranks
    BY <2>1 DEF LoopsOK
  <2>3. queue[rank[w]] \cup {[x EXCEPT !.score = now + d]} \in SUBSET Items
    BY <2>2 DEF Items
  <2>4. queue' \in [Ranks -> SUBSET Items] /\ life' = [i \in Ranks |-> 0]
    BY <2>1, <2>2, <2>3, WriteTyped
  <2> QED BY <1>6, <2>4 DEF Reschedule
<1>7. ASSUME NEW w \in Loops, Die(w) PROVE QueueTypeOK' /\ life' = [k \in Ranks |-> 0]
  BY <1>7 DEF Die, Ranks, NoneDue
<1>8. CASE UNCHANGED queueVars
  BY <1>8 DEF queueVars
<1> QED BY <1>1, <1>2, <1>3, <1>4, <1>5, <1>6, <1>7, <1>8 DEF Next

(***************************************************************************)
(* The loops                                                               *)
(***************************************************************************)
\* Entries are only added to a queue, unless a loop removes its head or keys expire.
LEMMA QueueGrows ==
  ASSUME QueueInv, KeyTTL = 0, [Next]_queueVars, \A w \in Loops : ~RemoveHead(w)
  PROVE  \A k \in Ranks : queue[k] \subseteq queue'[k]
<1> USE DEF QueueInv, QueueTypeOK
<1>1. CASE Tick
  BY <1>1 DEF Tick
<1>2. CASE \E e \in Entries : EnqueueJob(e)
  BY <1>2 DEF EnqueueJob, Write
<1>3. CASE \E w \in Loops : Reschedule(w)
  BY <1>3 DEF Reschedule, Write
<1>4. CASE \E w \in Loops : LoopStep(w)
  BY <1>4 DEF LoopStep, DequeueJob, Probe, TakeLock, ReadHead, Unlock, Finish
<1>5. CASE \E w \in Loops : LockTimesOut(w) \/ Die(w)
  BY <1>5 DEF LockTimesOut, Die
<1>6. CASE (\E k \in Ranks : LockExpires(k)) \/ UNCHANGED queueVars
  BY <1>6 DEF LockExpires, queueVars
<1> QED BY <1>1, <1>2, <1>3, <1>4, <1>5, <1>6 DEF Next

\* What a loop's step leaves of the others.
LEMMA OthersKept ==
  ASSUME QueueInv, [Next]_queueVars,
         NEW v \in Loops, ~(LoopStep(v) \/ LockTimesOut(v) \/ Reschedule(v) \/ Die(v))
  PROVE  UNCHANGED <<pc[v], rank[v], head[v], hand[v]>>
<1> USE DEF QueueInv, QueueTypeOK, Move
<1>1. ASSUME NEW w \in Loops \ {v}, LoopStep(w)
      PROVE  UNCHANGED <<pc[v], rank[v], head[v], hand[v]>>
  BY <1>1 DEF LoopStep, DequeueJob, Probe, NextRank, TakeLock, ReadHead, RemoveHead, Unlock,
              Finish
<1>2. ASSUME NEW w \in Loops \ {v}, LockTimesOut(w) \/ Reschedule(w) \/ Die(w)
      PROVE  UNCHANGED <<pc[v], rank[v], head[v], hand[v]>>
  BY <1>2 DEF LockTimesOut, Reschedule, Die
<1>3. CASE UNCHANGED queueVars \/ Tick \/ (\E e \in Entries : EnqueueJob(e))
             \/ \E k \in Ranks : LockExpires(k)
  BY <1>3 DEF queueVars, Tick, EnqueueJob, LockExpires
<1> QED BY <1>1, <1>2, <1>3 DEF Next

\* The owner of a lock keeps it, and the head it has read, until it acts itself.
LEMMA OwnerKept ==
  ASSUME QueueInv, KeyTTL = 0, [Next]_queueVars, NEW v \in Loops, pc[v] \in Owning,
         ~(LoopStep(v) \/ LockTimesOut(v) \/ Reschedule(v) \/ Die(v))
  PROVE  /\ lock'[rank[v]] = v
         /\ pc[v] = "remove" => head[v] \subseteq queue'[rank[v]]
<1> USE QueueShape DEF QueueInv, QueueTypeOK, LoopsOK, Owning
<1>0. rank[v] \in Ranks /\ lock[rank[v]] = v
  OBVIOUS
<1>1. lock'[rank[v]] = v
  <2>1. ASSUME NEW w \in Loops \ {v}, TakeLock(w) \/ Unlock(w) PROVE lock'[rank[v]] = v
    BY <1>0, <2>1 DEF TakeLock, Unlock
  <2>2. ASSUME NEW k \in Ranks, LockExpires(k) PROVE lock'[rank[v]] = v
    BY <1>0, <2>2 DEF LockExpires
  <2>3. CASE UNCHANGED lock
    BY <1>0, <2>3
  <2> QED BY <2>1, <2>2, <2>3 DEF Next, LoopStep, queueVars, Tick, EnqueueJob, LockTimesOut,
             Reschedule, Die, DequeueJob, Probe, ReadHead, RemoveHead, Finish
<1>2. ASSUME pc[v] = "remove" PROVE head[v] \subseteq queue'[rank[v]]
  <2>1. ASSUME NEW w \in Loops \ {v}, RemoveHead(w) PROVE queue'[rank[v]] = queue[rank[v]]
    BY <1>0, <2>1 DEF RemoveHead, Write
  <2>2. CASE \A w \in Loops : ~RemoveHead(w)
    BY <1>0, <1>2, <2>2, QueueGrows
  <2> QED BY <1>0, <1>2, <2>1, <2>2 DEF LoopStep
<1> QED BY <1>1, <1>2

LEMMA LoopsKeep ==
  ASSUME QueueInv, KeyTTL = 0, [Next]_queueVars
  PROVE  LoopsOK'
<1> DEFINE Fine(v) ==
        /\ rank[v] \in Ranks \/ (pc[v] = "idle" /\ hand[v] = {})
        /\ pc[v] \in Owning => lock[rank[v]] = v
        /\ pc[v] = "remove" => head[v] # {} /\ head[v] \subseteq queue[rank[v]]
        /\ head[v] # {} => pc[v] \in {"remove", "unlock"} /\ hand[v] = {}
        /\ hand[v] # {} => pc[v] = "idle"
        /\ \A x, y \in head[v] \cup hand[v] : x = y
<1> SUFFICES ASSUME NEW v \in Loops PROVE Fine(v)'
  BY DEF LoopsOK
<1>0. Fine(v)
  BY DEF QueueInv, LoopsOK
<1>1. CASE ~(LoopStep(v) \/ LockTimesOut(v) \/ Reschedule(v) \/ Die(v))
  <2>1. UNCHANGED <<pc[v], rank[v], head[v], hand[v]>>
    BY <1>1, OthersKept
  <2>2. pc[v] \in Owning => lock'[rank[v]] = v
    BY <1>1, OwnerKept
  <2>3. pc[v] = "remove" => head[v] \subseteq queue'[rank[v]]
    BY <1>1, OwnerKept DEF Owning
  <2> QED BY <1>0, <2>1, <2>2, <2>3
<1> USE DEF QueueInv, QueueTypeOK, Owning, Move
<1>2. CASE DequeueJob(v)
  BY <1>0, <1>2 DEF DequeueJob, Ranks
<1>3. CASE Probe(v)
  <2>1. rank[v] \in Ranks /\ head[v] = {} /\ hand[v] = {} /\ pc[v] = "probe"
    BY <1>0, <1>3 DEF Probe
  <2>2. CASE NextRank(v)
    <3>1. rank'[v] = rank[v] + 1
      BY <2>2 DEF NextRank
    <3>2. rank[v] # 3 => rank'[v] \in Ranks
      BY <2>1, <3>1 DEF Ranks
    <3> QED BY <1>3, <2>1, <2>2, <3>2 DEF Probe, NextRank
  <2>3. CASE ~NextRank(v)
    BY <1>3, <2>1, <2>3 DEF Probe
  <2> QED BY <2>2, <2>3
<1>4. CASE TakeLock(v)
  BY <1>0, <1>4 DEF TakeLock
<1>5. CASE ReadHead(v)
  <2>1. CASE Eligible(rank[v]) = {}
    BY <1>0, <1>5, <2>1 DEF ReadHead
  <2>2. CASE Eligible(rank[v]) # {}
    <3>1. PICK x \in Heads(rank[v]) : head' = [head EXCEPT ![v] = {x}]
      BY <1>5, <2>2 DEF ReadHead
    <3>2. x \in queue[rank[v]]
      BY <3>1 DEF Heads, Eligible
    <3>3. head'[v] = {x} /\ hand[v] = {}
      BY <1>0, <1>5, <3>1 DEF ReadHead
    <3> QED BY <1>0, <1>5, <2>2, <3>2, <3>3 DEF ReadHead
  <2> QED BY <2>1, <2>2
<1>6. CASE RemoveHead(v)
  BY <1>0, <1>6 DEF RemoveHead
<1>7. CASE Unlock(v)
  <2>2. CASE head[v] = {}
    <3>1. rank[v] \in Ranks /\ rank'[v] = rank[v] + 1
      BY <1>0, <1>7, <2>2 DEF Unlock, NextRank
    <3>2. rank[v] # 3 => rank'[v] \in Ranks
      BY <3>1 DEF Ranks
    <3> QED BY <1>0, <1>7, <2>2, <3>1, <3>2 DEF Unlock, NextRank
  <2>3. CASE head[v] # {}
    BY <1>0, <1>7, <2>3 DEF Unlock
  <2> QED BY <2>2, <2>3
<1>8. CASE Finish(v)
  BY <1>0, <1>8 DEF Finish
<1>9. CASE LockTimesOut(v)
  BY <1>0, <1>9 DEF LockTimesOut, Ranks
<1>10. CASE Reschedule(v)
  BY <1>0, <1>10 DEF Reschedule
<1>11. CASE Die(v)
  BY <1>0, <1>11 DEF Die, Ranks
<1> QED BY <1>1, <1>2, <1>3, <1>4, <1>5, <1>6, <1>7, <1>8, <1>9, <1>10, <1>11 DEF LoopStep

(***************************************************************************)
(* One place for each entry                                                *)
(***************************************************************************)
\* A step that leaves the queues alone and hands out nothing new keeps OnePlace.
LEMMA NothingHandedOut ==
  ASSUME OnePlace, UNCHANGED <<queue, fresh>>, \A w \in Loops : Held(w)' \subseteq Held(w)
  PROVE  OnePlace'
<1>1. Waiting' = Waiting
  BY DEF Waiting
<1> QED BY <1>1 DEF OnePlace

\* The steps of a loop that neither write a queue nor take from one.
LEMMA QuietSteps ==
  ASSUME QueueInv, NEW w \in Loops,
         \/ DequeueJob(w) \/ Probe(w) \/ TakeLock(w) \/ ReadHead(w) \/ Unlock(w)
         \/ LockTimesOut(w)
  PROVE  UNCHANGED <<queue, fresh>> /\ \A v \in Loops : Held(v)' = Held(v)
<1> USE DEF QueueInv, QueueTypeOK, LoopsOK, Move, Owning, Held
<1>1. UNCHANGED <<queue, fresh>>
  BY DEF DequeueJob, Probe, TakeLock, ReadHead, Unlock, LockTimesOut
<1>2. ASSUME NEW v \in Loops PROVE Held(v)' = Held(v)
  <2>1. CASE DequeueJob(w)
    BY <2>1 DEF DequeueJob
  <2>2. CASE Probe(w)
    BY <2>2 DEF Probe, NextRank
  <2>3. CASE TakeLock(w)
    BY <2>3 DEF TakeLock
  <2>4. CASE ReadHead(w)
    <3>1. head[w] = {} /\ hand[w] = {} /\ pc[w] = "read"
      BY <2>4 DEF ReadHead
    <3>2. CASE v = w
      <4>1. hand'[w] = {} /\ (pc'[w] = "unlock" => head'[w] = {})
        BY <2>4, <3>1 DEF ReadHead
      <4> QED BY <3>1, <3>2, <4>1
    <3>3. CASE v # w
      BY <2>4, <3>3 DEF ReadHead
    <3> QED BY <3>2, <3>3
  <2>5. CASE Unlock(w)
    <3>1. pc'[w] # "unlock" /\ \A u \in Loops \ {w} : pc'[u] = pc[u]
      BY <2>5 DEF Unlock, NextRank
    <3> QED BY <2>5, <3>1 DEF Unlock
  <2>6. CASE LockTimesOut(w)
    BY <2>6 DEF LockTimesOut
  <2> QED BY <2>1, <2>2, <2>3, <2>4, <2>5, <2>6
<1> QED BY <1>1, <1>2

\* A loop that is through with its entry, or dead, holds nothing.
LEMMA LettingGo ==
  ASSUME QueueInv, NEW w \in Loops, Finish(w) \/ Die(w)
  PROVE  /\ UNCHANGED <<queue, fresh>>
         /\ Held(w)' = {} /\ \A v \in Loops \ {w} : Held(v)' = Held(v)
<1> USE DEF QueueInv, QueueTypeOK, Move, Held
<1>1. CASE Finish(w)
  BY <1>1 DEF Finish
<1>2. CASE Die(w)
  BY <1>2 DEF Die
<1> QED BY <1>1, <1>2

LEMMA EnqueueKeeps ==
  ASSUME QueueInv, NEW e \in Entries, EnqueueJob(e)
  PROVE  OnePlace'
<1> USE DEF QueueInv, QueueTypeOK
<1> DEFINE item == [id |-> e, score |-> now]
<1>1. PICK k \in Ranks : Write(k, queue[k] \cup {item})
  BY DEF EnqueueJob
<1>2. e \in fresh /\ fresh' = fresh \ {e} /\ UNCHANGED <<pc, head, hand>>
  BY DEF EnqueueJob
<1>3. e \notin Waiting /\ \A w \in Loops : \A x \in Held(w) : x.id # e
  BY <1>2 DEF OnePlace
<1>4. \A l \in Ranks : \A x \in queue'[l] : x \in queue[l] \/ (l = k /\ x = item)
  BY <1>1 DEF Write
<1>5. \A i : i \in Waiting' => i \in Waiting \/ i = e
  BY <1>4, WaitingIds, WaitingIdsNext
<1>6. \A w \in Loops : Held(w)' = Held(w)
  BY <1>2 DEF Held
<1>7. \A l \in Ranks : \A x \in queue[l] : x.id # e
  BY <1>3, WaitingIds
<1>8. (\A l, m \in Ranks : \A x \in queue[l], y \in queue[m] : x.id = y.id => l = m /\ x = y)'
  BY <1>4, <1>7 DEF OnePlace
<1>9. (\A w \in Loops : \A x \in Held(w) : x.id \notin Waiting \cup fresh)'
  BY <1>2, <1>3, <1>5, <1>6 DEF OnePlace
<1>10. (fresh \cap Waiting = {})'
  BY <1>2, <1>5 DEF OnePlace
<1> QED BY <1>6, <1>8, <1>9, <1>10 DEF OnePlace

LEMMA RemoveKeeps ==
  ASSUME QueueInv, NEW w \in Loops, RemoveHead(w)
  PROVE  OnePlace'
<1> USE DEF QueueInv, QueueTypeOK, LoopsOK
<1>1. /\ rank[w] \in Ranks /\ head[w] # {} /\ head[w] \subseteq queue[rank[w]]
      /\ hand[w] = {} /\ \A x, y \in head[w] : x = y
  BY DEF RemoveHead
<1>2. UNCHANGED <<fresh, head, hand>> /\ pc' = [pc EXCEPT ![w] = "unlock"]
  BY DEF RemoveHead, Move
<1>3. \A l \in Ranks : queue'[l] \subseteq queue[l]
  BY DEF RemoveHead, Write
<1>4. queue'[rank[w]] = queue[rank[w]] \ head[w]
  BY <1>1 DEF RemoveHead, Write
<1>5. \A v \in Loops \ {w} : Held(v)' = Held(v)
  BY <1>2 DEF Held
<1>6. Held(w)' = head[w]
  BY <1>2 DEF Held
<1>7. Waiting' \subseteq Waiting
  BY <1>3, WaitingIds, WaitingIdsNext
<1>8. \A x \in head[w] : x.id \in Waiting
  BY <1>1, WaitingIds
<1>9. \A x \in head[w] : x.id \notin Waiting'
  <2> SUFFICES ASSUME NEW x \in head[w], x.id \in Waiting' PROVE FALSE
    OBVIOUS
  <2>0. PICK k \in Ranks : \E z \in queue'[k] : z.id = x.id
    BY WaitingIdsNext
  <2>2. PICK y \in queue'[k] : y.id = x.id
    BY <2>0
  <2>1. k = rank[w] /\ y = x
    BY <1>1, <1>3, <2>2 DEF OnePlace
  <2> QED BY <1>4, <2>1
<1>10. (\A v, u \in Loops : \A x \in Held(v), y \in Held(u) : x.id = y.id => v = u)'
  <2> SUFFICES ASSUME NEW v \in Loops, NEW u \in Loops, NEW x \in Held(v)', NEW y \in Held(u)',
                      x.id = y.id
               PROVE  v = u
    OBVIOUS
  <2>1. \A t \in Loops \ {w} : \A z \in Held(t)' : z.id \notin Waiting
    BY <1>5 DEF OnePlace
  <2>2. CASE v # w /\ u # w
    BY <1>5, <2>2 DEF OnePlace
  <2>3. CASE v = w \/ u = w
    BY <1>6, <1>8, <2>1, <2>3
  <2> QED BY <2>2, <2>3
<1>11. (\A v \in Loops : \A x \in Held(v) : x.id \notin Waiting \cup fresh)'
  <2> SUFFICES ASSUME NEW v \in Loops, NEW x \in Held(v)' PROVE x.id \notin Waiting' \cup fresh'
    OBVIOUS
  <2>1. CASE v = w
    BY <1>2, <1>6, <1>8, <1>9, <2>1 DEF OnePlace
  <2>2. CASE v # w
    BY <1>2, <1>5, <1>7, <2>2 DEF OnePlace
  <2> QED BY <2>1, <2>2
<1>12. (\A l, m \in Ranks : \A x \in queue[l], y \in queue[m] : x.id = y.id => l = m /\ x = y)'
  BY <1>3 DEF OnePlace
<1>13. (fresh \cap Waiting = {})'
  BY <1>2, <1>7 DEF OnePlace
<1> QED BY <1>10, <1>11, <1>12, <1>13 DEF OnePlace

LEMMA RescheduleKeeps ==
  ASSUME QueueInv, NEW w \in Loops, Reschedule(w)
  PROVE  OnePlace'
<1> USE DEF QueueInv, QueueTypeOK, LoopsOK
<1>1. PICK x \in hand[w], d \in 1..MaxDelay :
        Write(rank[w], queue[rank[w]] \cup {[x EXCEPT !.score = now + d]})
  BY DEF Reschedule
<1> DEFINE item == [x EXCEPT !.score = now + d]
<1>2. rank[w] \in Ranks /\ pc[w] = "idle"
  BY <1>1 DEF Reschedule
<1>3. hand' = [hand EXCEPT ![w] = {}] /\ UNCHANGED <<fresh, pc, head>>
  BY DEF Reschedule
<1>4. item.id = x.id
  BY <1>1
<1>5. x \in Held(w) /\ \A y \in Held(w) : y = x
  BY <1>2 DEF Held
<1>6. Held(w)' = {} /\ \A v \in Loops \ {w} : Held(v)' = Held(v)
  BY <1>2, <1>3 DEF Held
<1>7. x.id \notin Waiting /\ x.id \notin fresh /\ \A v \in Loops \ {w} : \A y \in Held(v) : y.id # x.id
  BY <1>5 DEF OnePlace
<1>8. \A l \in Ranks : \A y \in queue'[l] : y \in queue[l] \/ (l = rank[w] /\ y = item)
  BY <1>1, <1>2 DEF Write
<1> HIDE DEF item
<1>9. \A i : i \in Waiting' => i \in Waiting \/ i = x.id
  BY <1>4, <1>8, WaitingIds, WaitingIdsNext
<1>10. \A l \in Ranks : \A y \in queue[l] : y.id # x.id
  BY <1>7, WaitingIds
<1>11. (\A l, m \in Ranks : \A y \in queue[l], z \in queue[m] : y.id = z.id => l = m /\ y = z)'
  BY <1>4, <1>8, <1>10 DEF OnePlace
<1>12. (\A v \in Loops : \A y \in Held(v) : y.id \notin Waiting \cup fresh)'
  <2> SUFFICES ASSUME NEW v \in Loops, NEW y \in Held(v)' PROVE y.id \notin Waiting' \cup fresh'
    OBVIOUS
  <2>1. v # w /\ y \in Held(v)
    BY <1>6
  <2>2. y.id \notin Waiting \cup fresh
    BY <2>1 DEF OnePlace
  <2> QED BY <1>3, <1>7, <1>9, <2>1, <2>2
<1>13. (\A v, u \in Loops : \A y \in Held(v), z \in Held(u) : y.id = z.id => v = u)'
  <2> SUFFICES ASSUME NEW v \in Loops, NEW u \in Loops, NEW y \in Held(v)', NEW z \in Held(u)',
                      y.id = z.id
               PROVE  v = u
    OBVIOUS
  <2>1. y \in Held(v) /\ z \in Held(u)
    BY <1>6
  <2> QED BY <2>1 DEF OnePlace
<1>14. (fresh \cap Waiting = {})'
  BY <1>3, <1>7, <1>9 DEF OnePlace
<1> QED BY <1>11, <1>12, <1>13, <1>14 DEF OnePlace

LEMMA OnePlaceKept ==
  ASSUME QueueInv, KeyTTL = 0, [Next]_queueVars
  PROVE  OnePlace'
<1> USE DEF QueueInv, QueueTypeOK
<1>1. CASE Tick \/ (\E k \in Ranks : LockExpires(k)) \/ UNCHANGED queueVars
  <2>1. UNCHANGED <<queue, fresh, pc, head, hand>>
    BY <1>1 DEF Tick, LockExpires, queueVars
  <2> QED BY <2>1, NothingHandedOut DEF Held
<1>2. CASE \E e \in Entries : EnqueueJob(e)
  BY <1>2, EnqueueKeeps
<1>3. ASSUME NEW w \in Loops, LoopStep(w) \/ LockTimesOut(w) \/ Reschedule(w) \/ Die(w)
      PROVE  OnePlace'
  <2>1. CASE RemoveHead(w)
    BY <2>1, RemoveKeeps
  <2>2. CASE Reschedule(w)
    BY <2>2, RescheduleKeeps
  <2>3. CASE Finish(w) \/ Die(w)
    BY <2>3, LettingGo, NothingHandedOut
  <2>4. CASE ~(RemoveHead(w) \/ Reschedule(w) \/ Finish(w) \/ Die(w))
    BY <1>3, <2>4, QuietSteps, NothingHandedOut DEF LoopStep
  <2> QED BY <2>1, <2>2, <2>3, <2>4
<1> QED BY <1>1, <1>2, <1>3 DEF Next

(***************************************************************************)
(* The scans                                                               *)
(***************************************************************************)
\* What was due stays due: the clock only goes on, and nothing but a removal takes an
\* entry from a queue.
LEMMA DueStays ==
  ASSUME QueueInv, KeyTTL = 0, [Next]_queueVars, \A w \in Loops : ~RemoveHead(w)
  PROVE  \A k \in Ranks : Eligible(k) \subseteq Eligible(k)'
<1>1. \A k \in Ranks : queue[k] \subseteq queue'[k]
  BY QueueGrows
<1>2. now \in Nat /\ now' \in Nat /\ now <= now'
  <2>1. now \in Nat
    BY DEF QueueInv, QueueTypeOK
  <2>2. CASE Tick
    BY <2>1, <2>2 DEF Tick
  <2>3. CASE ~Tick
    <3>1. now' = now
      BY <2>3 DEF Next, queueVars, EnqueueJob, LockExpires, LoopStep, DequeueJob, Probe,
                  TakeLock, ReadHead, RemoveHead, Unlock, Finish, LockTimesOut,
                  Reschedule, Die
    <3> QED BY <2>1, <3>1
  <2> QED BY <2>2, <2>3
<1>3. \A k \in Ranks : \A x \in queue[k] : x.score \in Nat
  BY DEF QueueInv, QueueTypeOK, Items
<1> QED BY <1>1, <1>2, <1>3, QueueBounds DEF Eligible

\* What a scan is to remember, and when it moves on.
Scan(w) == \A k \in Ranks :
    /\ due[w][k] \subseteq Eligible(k)
    /\ k < rank[w] => due[w][k] = {}
    /\ k = rank[w] /\ pc[w] = "unlock" /\ head[w] = {} => due[w][k] = {}

\* A scan goes to the next priority when this one has nothing left of what it found.
LEMMA ScanMovesOn ==
  ASSUME QueueInv, NEW w \in Loops, Scan(w), rank[w] \in Ranks, NextRank(w),
         due[w][rank[w]] = {}, due'[w] = due[w],
         \A k \in Ranks : Eligible(k) \subseteq Eligible(k)'
  PROVE  Scan(w)'
<1>1. rank'[w] = rank[w] + 1 /\ pc'[w] # "unlock"
  BY DEF NextRank, Move, QueueInv, QueueTypeOK
<1>2. \A k \in Ranks : k < rank'[w] => k < rank[w] \/ k = rank[w]
  BY <1>1 DEF Ranks
<1> QED BY <1>1, <1>2 DEF Scan

LEMMA ScanKept ==
  ASSUME QueueInv, KeyTTL = 0, [Next]_queueVars, NEW w \in Loops
  PROVE  Scan(w)'
<1> USE DEF QueueInv, QueueTypeOK, Move
<1>0. Scan(w) /\ (rank[w] \in Ranks \/ pc[w] = "idle")
  BY DEF ScansOK, Scan, LoopsOK
<1>a. ASSUME \A k \in Ranks : due'[w][k] = {}, pc'[w] # "unlock" \/ head'[w] # {}
      PROVE  Scan(w)'
  BY <1>a DEF Scan
<1>1. CASE \E v \in Loops : RemoveHead(v)
  <2>1. PICK v \in Loops : RemoveHead(v)
    BY <1>1
  <2>2. /\ rank[v] \in Ranks /\ pc[v] = "remove" /\ head[v] # {}
        /\ queue' = [queue EXCEPT ![rank[v]] = @ \ head[v]]
        /\ UNCHANGED <<now, rank, head>>
        /\ pc' = [pc EXCEPT ![v] = "unlock"]
    BY <2>1 DEF RemoveHead, Write, LoopsOK
  <2>3. due' = [u \in Loops |-> [due[u] EXCEPT ![rank[v]] = @ \ head[v]]]
    BY <2>1 DEF RemoveHead
  <2>4. \A k \in Ranks : due'[w][k] = IF k = rank[v] THEN due[w][k] \ head[v] ELSE due[w][k]
    <3>1. due[w] \in [Ranks -> SUBSET Items] /\ due'[w] = [due[w] EXCEPT ![rank[v]] = @ \ head[v]]
      BY <2>3
    <3> QED BY <2>2, <3>1
  <2>5. \A k \in Ranks : Eligible(k)' = IF k = rank[v] THEN Eligible(k) \ head[v] ELSE Eligible(k)
    BY <2>2 DEF Eligible
  <2>6. pc'[w] = "unlock" /\ head'[w] = {} => pc[w] = "unlock" /\ head[w] = {}
    BY <2>2
  <2> QED
    <3> SUFFICES ASSUME NEW k \in Ranks
                 PROVE  /\ due'[w][k] \subseteq Eligible(k)'
                        /\ k < rank'[w] => due'[w][k] = {}
                        /\ k = rank'[w] /\ pc'[w] = "unlock" /\ head'[w] = {}
                             => due'[w][k] = {}
      BY DEF Scan
    <3>1. /\ due[w][k] \subseteq Eligible(k)
          /\ k < rank[w] => due[w][k] = {}
          /\ k = rank[w] /\ pc[w] = "unlock" /\ head[w] = {} => due[w][k] = {}
      BY <1>0 DEF Scan
    <3>2. due'[w][k] \subseteq due[w][k] /\ due'[w][k] \subseteq Eligible(k)'
      BY <2>4, <2>5, <3>1
    <3>3. rank'[w] = rank[w]
      BY <2>2
    <3> QED BY <2>6, <3>1, <3>2, <3>3
<1>2. CASE \A v \in Loops : ~RemoveHead(v)
  <2>1. \A k \in Ranks : Eligible(k) \subseteq Eligible(k)'
    BY <1>2, DueStays
  <2>2. CASE DequeueJob(w)
    <3>1. /\ \A k \in Ranks : due'[w][k] = Eligible(k)
          /\ rank'[w] = 1 /\ pc'[w] = "probe"
      BY <2>2 DEF DequeueJob
    <3> QED BY <2>1, <3>1 DEF Scan, Ranks
  <2>3. CASE Probe(w)
    <3>1. rank[w] \in Ranks /\ due' = due /\ head' = head
      BY <1>0, <2>3 DEF Probe
    <3>2. CASE Eligible(rank[w]) = {}
      <4>1. due[w][rank[w]] = {} /\ NextRank(w)
        BY <1>0, <2>3, <3>1, <3>2 DEF Probe, Scan
      <4> QED BY <1>0, <2>1, <3>1, <4>1, ScanMovesOn
    <3>3. CASE Eligible(rank[w]) # {}
      <4>1. rank' = rank /\ pc'[w] = "lock"
        BY <2>3, <3>3 DEF Probe
      <4> QED BY <1>0, <2>1, <3>1, <4>1 DEF Scan
    <3> QED BY <3>2, <3>3
  <2>4. CASE TakeLock(w)
    <3>1. UNCHANGED <<rank, head, due>> /\ pc'[w] = "read"
      BY <2>4 DEF TakeLock
    <3> QED BY <1>0, <2>1, <3>1 DEF Scan
  <2>5. CASE ReadHead(w)
    <3>1. UNCHANGED <<rank, due>> /\ rank[w] \in Ranks
      BY <1>0, <2>5 DEF ReadHead
    <3>2. CASE Eligible(rank[w]) = {}
      BY <1>0, <2>1, <3>1, <3>2 DEF Scan
    <3>3. CASE Eligible(rank[w]) # {}
      <4>1. pc'[w] = "remove"
        BY <2>5, <3>3 DEF ReadHead
      <4> QED BY <1>0, <2>1, <3>1, <4>1 DEF Scan
    <3> QED BY <3>2, <3>3
  <2>6. CASE Unlock(w)
    <3>1. pc[w] = "unlock" /\ rank[w] \in Ranks
      BY <1>0, <2>6 DEF Unlock
    <3>2. CASE head[w] = {}
      <4>1. NextRank(w) /\ due' = due /\ due[w][rank[w]] = {}
        BY <1>0, <2>6, <3>1, <3>2 DEF Unlock, Scan
      <4> QED BY <1>0, <2>1, <3>1, <4>1, ScanMovesOn
    <3>3. CASE head[w] # {}
      BY <2>6, <3>3, <1>a DEF Unlock, NoneDue
    <3> QED BY <3>2, <3>3
  <2>7. CASE LockTimesOut(w) \/ Die(w)
    BY <2>7, <1>a DEF LockTimesOut, Die, NoneDue
  <2>8. CASE Finish(w) \/ Reschedule(w)
    <3>1. UNCHANGED <<rank, head, due, pc>>
      BY <2>8 DEF Finish, Reschedule
    <3> QED BY <1>0, <2>1, <3>1 DEF Scan
  <2>9. CASE ~(LoopStep(w) \/ LockTimesOut(w) \/ Reschedule(w) \/ Die(w))
    <3>1. UNCHANGED <<pc[w], rank[w], head[w]>>
      BY <2>9, OthersKept
    <3>2. due'[w] = due[w]
      <4>1. ASSUME NEW v \in Loops \ {w},
                   LoopStep(v) \/ LockTimesOut(v) \/ Reschedule(v) \/ Die(v)
            PROVE  due'[w] = due[w]
        BY <1>2, <4>1 DEF LoopStep, DequeueJob, Probe, TakeLock, ReadHead, Unlock, Finish,
                          LockTimesOut, Reschedule, Die
      <4>2. CASE UNCHANGED queueVars \/ Tick \/ (\E e \in Entries : EnqueueJob(e))
                 \/ \E k \in Ranks : LockExpires(k)
        BY <4>2 DEF queueVars, Tick, EnqueueJob, LockExpires
      <4> QED BY <2>9, <4>1, <4>2 DEF Next
    <3> QED BY <1>0, <2>1, <3>1, <3>2 DEF Scan
  <2> QED BY <1>2, <2>2, <2>3, <2>4, <2>5, <2>6, <2>7, <2>8, <2>9 DEF LoopStep
<1> QED BY <1>1, <1>2

LEMMA QueueStep == ASSUME QueueInv, KeyTTL = 0, [Next]_queueVars PROVE QueueInv'
<1>1. ScansOK'
  BY ScanKept DEF Scan, ScansOK
<1> QED BY <1>1, QueueTyped, LoopsKeep, OnePlaceKept DEF QueueInv

(* Theorem. In a cache whose sorted sets do not expire, every entry stays in one place:   *)
(* still to come, in one queue, or with one loop, however the loops of all daemons        *)
(* interleave and die (scheduler.ts, dequeueJob and rescheduleJob).                       *)
THEOREM QueueInductive == ASSUME KeyTTL = 0 PROVE Spec => []QueueInv
<1>1. Init => QueueInv
  BY InitQueue
<1>2. QueueInv /\ [Next]_queueVars => QueueInv'
  BY QueueStep
<1> QED BY <1>1, <1>2, PTL DEF Spec

(* Theorem. No entry of a lower priority is taken, and no scan comes back with nothing,   *)
(* before what the scan could take at each priority above has been taken by some loop,    *)
(* although the priorities are looked at without a lock (scheduler.ts, dequeueJob).       *)
THEOREM PriorityKept == ASSUME KeyTTL = 0 PROVE Spec => []NoInversion
<1>1. QueueInv => NoInversion
  BY DEF QueueInv, ScansOK, NoInversion
<1> QED BY <1>1, QueueInductive, PTL

(***************************************************************************)
(* The queue implements the pool                                           *)
(***************************************************************************)
LEMMA OnlyIdIs ==
  ASSUME NEW items \in SUBSET Items, \A x, y \in items : x = y
  PROVE  (items = {} => OnlyId(items) = None) /\ \A x \in items : OnlyId(items) = x.id
<1> SUFFICES ASSUME NEW x \in items PROVE OnlyId(items) = x.id
  BY DEF OnlyId
<1>1. x.id \in Entries /\ \A e \in Entries : (\E y \in items : y.id = e) => e = x.id
  BY DEF Items
<1> QED BY <1>1 DEF OnlyId

\* Who holds what, of a loop that is fine.
LEMMA HolderIs ==
  ASSUME QueueInv, NEW w \in Loops
  PROVE  (Held(w) = {} => Holder(w) = None) /\ \A x \in Held(w) : Holder(w) = x.id /\ x.id \in Entries
<1>1. Held(w) \in SUBSET Items /\ \A x, y \in Held(w) : x = y
  BY DEF QueueInv, QueueTypeOK, LoopsOK, Held
<1> QED BY <1>1, OnlyIdIs DEF Holder, Items

\* What an entry put into a queue, or taken from one, does to the ids that wait.
LEMMA WaitingAdds ==
  ASSUME NEW k \in Ranks, NEW item,
         \A l \in Ranks : queue'[l] = IF l = k THEN queue[l] \cup {item} ELSE queue[l]
  PROVE  Waiting' = Waiting \cup {item.id}
<1> SUFFICES ASSUME NEW i PROVE i \in Waiting' <=> i \in Waiting \/ i = item.id
  OBVIOUS
<1>1. ASSUME i \in Waiting' PROVE i \in Waiting \/ i = item.id
  <2>1. PICK l \in Ranks : \E x \in queue'[l] : x.id = i
    BY <1>1, WaitingIdsNext
  <2> QED BY <2>1, WaitingIds
<1>2. ASSUME i \in Waiting PROVE i \in Waiting'
  <2>1. PICK l \in Ranks : \E x \in queue[l] : x.id = i
    BY <1>2, WaitingIds
  <2> QED BY <2>1, WaitingIdsNext
<1>3. item.id \in Waiting'
  <2>1. item \in queue'[k]
    OBVIOUS
  <2> QED BY <2>1, WaitingIdsNext
<1> QED BY <1>1, <1>2, <1>3

LEMMA WaitingDrops ==
  ASSUME NEW k \in Ranks, NEW item,
         \A l \in Ranks : queue'[l] = IF l = k THEN queue[l] \ {item} ELSE queue[l],
         \A l \in Ranks : \A y \in queue[l] : y.id = item.id => l = k /\ y = item
  PROVE  Waiting' = Waiting \ {item.id}
<1> SUFFICES ASSUME NEW i PROVE i \in Waiting' <=> i \in Waiting /\ i # item.id
  OBVIOUS
<1>1. ASSUME i \in Waiting' PROVE i \in Waiting /\ i # item.id
  <2>0. PICK l \in Ranks : \E x \in queue'[l] : x.id = i
    BY <1>1, WaitingIdsNext
  <2>1. PICK x \in queue'[l] : x.id = i
    BY <2>0
  <2>2. x \in queue[l] /\ (l = k => x # item)
    BY <2>1
  <2> QED BY <2>1, <2>2, WaitingIds
<1>2. ASSUME i \in Waiting, i # item.id PROVE i \in Waiting'
  <2>0. PICK l \in Ranks : \E x \in queue[l] : x.id = i
    BY <1>2, WaitingIds
  <2>1. PICK x \in queue[l] : x.id = i
    BY <2>0
  <2>2. x \in queue'[l]
    BY <1>2, <2>1
  <2> QED BY <2>1, <2>2, WaitingIdsNext
<1> QED BY <1>1, <1>2

PoolVars == <<Waiting, [w \in Loops |-> Holder(w)]>>

LEMMA PoolStep ==
  ASSUME QueueInv, KeyTTL = 0, [Next]_queueVars
  PROVE  [Pool!Next]_PoolVars
<1> DEFINE H == [v \in Loops |-> Holder(v)]
<1>q. QueueTypeOK /\ OnePlace
  BY DEF QueueInv
<1>1. ASSUME UNCHANGED queue, \A v \in Loops : Held(v)' = Held(v) PROVE UNCHANGED PoolVars
  <2>1. Waiting' = Waiting
    BY <1>1 DEF Waiting
  <2>2. \A v \in Loops : Holder(v)' = Holder(v)
    BY <1>1 DEF Holder
  <2> QED BY <2>1, <2>2 DEF PoolVars
<1>2. CASE Tick \/ (\E k \in Ranks : LockExpires(k)) \/ UNCHANGED queueVars
  <2>1. UNCHANGED <<queue, pc, head, hand>>
    BY <1>2, <1>q DEF Tick, LockExpires, queueVars, QueueInv, QueueTypeOK
  <2>2. \A v \in Loops : Held(v)' = Held(v)
    BY <2>1 DEF Held
  <2> QED BY <1>1, <2>1, <2>2
<1>3. ASSUME NEW e \in Entries, EnqueueJob(e) PROVE Pool!Put(e)
  <2>1. PICK k \in Ranks : Write(k, queue[k] \cup {[id |-> e, score |-> now]})
    BY <1>3 DEF EnqueueJob
  <2>2. e \notin Waiting
    BY <1>3, <1>q DEF EnqueueJob, OnePlace
  <2>3. Waiting' = Waiting \cup {e}
    <3> DEFINE item == [id |-> e, score |-> now]
    <3>1. item.id = e /\ \A l \in Ranks :
             queue'[l] = IF l = k THEN queue[l] \cup {item} ELSE queue[l]
      BY <2>1, <1>q DEF Write, QueueTypeOK
    <3> HIDE DEF item
    <3>2. Waiting' = Waiting \cup {item.id}
      BY <3>1, WaitingAdds
    <3> QED BY <3>1, <3>2
  <2>4. \A v \in Loops : Holder(v)' = Holder(v)
    BY <1>3 DEF EnqueueJob, Holder, Held
  <2> QED BY <2>2, <2>3, <2>4 DEF Pool!Put
<1>4. ASSUME NEW w \in Loops, Finish(w) \/ Die(w) PROVE Pool!Drop(w)
  <2>1. Waiting' = Waiting
    BY <1>4, LettingGo DEF Waiting
  <2>2. Holder(w)' = None /\ \A v \in Loops \ {w} : Holder(v)' = Holder(v)
    <3>1. Held(w)' = {} /\ \A v \in Loops \ {w} : Held(v)' = Held(v)
      BY <1>4, LettingGo
    <3>2. OnlyId({}) = None
      BY DEF OnlyId
    <3> QED BY <3>1, <3>2 DEF Holder
  <2> QED BY <2>1, <2>2 DEF Pool!Drop
<1>5. ASSUME NEW w \in Loops, RemoveHead(w) PROVE \E e \in Entries : Pool!Take(w, e)
  <2>1. /\ rank[w] \in Ranks /\ pc[w] = "remove" /\ head[w] # {} /\ hand[w] = {}
        /\ head[w] \subseteq queue[rank[w]] /\ \A x, y \in head[w] : x = y
    BY <1>5 DEF RemoveHead, QueueInv, LoopsOK
  <2>2. PICK x \in head[w] : TRUE
    BY <2>1
  <2>3. x.id \in Waiting /\ x.id \in Entries
    BY <2>1, <1>q, WaitingIds DEF QueueTypeOK, Items
  <2>4. Holder(w) = None
    BY <2>1, HolderIs DEF Held
  <2>5. Waiting' = Waiting \ {x.id}
    <3>1. \A l \in Ranks : queue'[l] = IF l = rank[w] THEN queue[l] \ {x} ELSE queue[l]
      BY <1>5, <2>1, <2>2, <1>q DEF RemoveHead, Write, QueueTypeOK
    <3>2. \A l \in Ranks : \A y \in queue[l] : y.id = x.id => l = rank[w] /\ y = x
      BY <2>1, <1>q DEF OnePlace
    <3> QED BY <2>1, <3>1, <3>2, WaitingDrops
  <2>6. Holder(w)' = x.id
    <3>1. Held(w)' = head[w]
      BY <1>5, <1>q DEF RemoveHead, Move, Held, QueueTypeOK
    <3>2. head[w] \in SUBSET Items
      BY <1>q DEF QueueTypeOK
    <3> QED BY <2>1, <3>1, <3>2, OnlyIdIs DEF Holder
  <2>7. \A v \in Loops \ {w} : Holder(v)' = Holder(v)
    BY <1>5, <1>q DEF RemoveHead, Move, Held, Holder, QueueTypeOK
  <2> QED BY <2>3, <2>4, <2>5, <2>6, <2>7 DEF Pool!Take
<1>6. ASSUME NEW w \in Loops, Reschedule(w) PROVE Pool!PutBack(w)
  <2>1. PICK x \in hand[w], d \in 1..MaxDelay :
          Write(rank[w], queue[rank[w]] \cup {[x EXCEPT !.score = now + d]})
    BY <1>6 DEF Reschedule
  <2>2. rank[w] \in Ranks /\ pc[w] = "idle" /\ UNCHANGED <<pc, head>> /\ hand' = [hand EXCEPT ![w] = {}]
    BY <1>6, <2>1 DEF Reschedule, QueueInv, LoopsOK
  <2>3. Holder(w) = x.id /\ x.id \in Entries
    BY <2>1, <2>2, HolderIs DEF Held
  <2>4. [x EXCEPT !.score = now + d].id = x.id
    BY <2>1, <1>q DEF QueueTypeOK, Items
  <2>5. Waiting' = Waiting \cup {x.id}
    <3>1. \A l \in Ranks : queue'[l] = IF l = rank[w]
             THEN queue[l] \cup {[x EXCEPT !.score = now + d]} ELSE queue[l]
      BY <2>1, <2>2, <1>q DEF Write, QueueTypeOK
    <3> DEFINE item == [x EXCEPT !.score = now + d]
    <3> HIDE DEF item
    <3>2. item.id = x.id /\ \A l \in Ranks :
             queue'[l] = IF l = rank[w] THEN queue[l] \cup {item} ELSE queue[l]
      BY <2>4, <3>1 DEF item
    <3>3. Waiting' = Waiting \cup {item.id}
      BY <2>2, <3>2, WaitingAdds
    <3> QED BY <3>2, <3>3
  <2>6. Holder(w)' = None /\ \A v \in Loops \ {w} : Holder(v)' = Holder(v)
    BY <2>2, <1>q DEF Held, Holder, OnlyId, QueueTypeOK
  <2> QED BY <2>3, <2>5, <2>6 DEF Pool!PutBack
<1>7. ASSUME NEW w \in Loops, LoopStep(w) \/ LockTimesOut(w) \/ Reschedule(w) \/ Die(w)
      PROVE  Pool!Next \/ UNCHANGED PoolVars
  <2>1. CASE RemoveHead(w)
    BY <2>1, <1>5 DEF Pool!Next
  <2>2. CASE Reschedule(w)
    BY <2>2, <1>6 DEF Pool!Next
  <2>3. CASE Finish(w) \/ Die(w)
    BY <2>3, <1>4 DEF Pool!Next
  <2>4. CASE ~(RemoveHead(w) \/ Reschedule(w) \/ Finish(w) \/ Die(w))
    BY <1>7, <2>4, <1>1, QuietSteps DEF LoopStep
  <2> QED BY <2>1, <2>2, <2>3, <2>4
<1>8. CASE \E e \in Entries : EnqueueJob(e)
  BY <1>8, <1>3 DEF Pool!Next
<1> QED BY <1>2, <1>7, <1>8 DEF Next

(* Theorem. In a cache whose sorted sets do not expire, every entry is handed to one loop *)
(* only and none is lost while it waits, although a loop reads the head of a queue and    *)
(* removes it in two calls (scheduler.ts, dequeueJob).                                    *)
THEOREM EntryOnce == ASSUME KeyTTL = 0 PROVE Spec => EachEntryOnce
<1>1. Init => Pool!Init
  <2> SUFFICES ASSUME Init PROVE Pool!Init
    OBVIOUS
  <2>1. Waiting = {}
    BY WaitingIds DEF Init
  <2>2. \A w \in Loops : Holder(w) = None
    BY DEF Init, Holder, Held, OnlyId
  <2> QED BY <2>1, <2>2 DEF Pool!Init
<1>2. QueueInv /\ [Next]_queueVars => [Pool!Next]_PoolVars
  BY PoolStep
<1> QED BY <1>1, <1>2, QueueInductive, PTL DEF Spec, EachEntryOnce, Pool!Spec, PoolVars
=============================================================================
