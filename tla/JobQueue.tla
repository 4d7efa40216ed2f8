------------------------------ MODULE JobQueue ------------------------------
(***************************************************************************)
(* The job queue of engine/src/scheduler.ts: one sorted set per priority   *)
(* in the shared cache, filled by whoever releases a job and emptied by    *)
(* the worker loops of all daemons.  A loop looks at each priority without *)
(* a lock, then reads and removes the head under the queue's lock, which   *)
(* module WithLock justifies as a mutual exclusion.                        *)
(***************************************************************************)
EXTENDS Integers

CONSTANTS
    Entries,    \* job entries, each enqueued once
    Loops,      \* worker loops, in one daemon or in several
    LookAhead,  \* lookAheadMs, in ticks
    MaxDelay,   \* bound on the delay of reschedule, in ticks
    KeyTTL,     \* life of a sorted set that nobody writes, in ticks; 0: for ever
    MaxTime,    \* bound on the clock
    MayCrash,   \* whether a loop's process may die
    None

ASSUME QueueBounds == /\ LookAhead \in Nat /\ MaxDelay \in Nat
                      /\ KeyTTL \in Nat /\ MaxTime \in Nat
ASSUME QueueShape  == MayCrash \in BOOLEAN /\ None \notin Entries /\ None \notin Loops

VARIABLES
    now,      \* the clock
    queue,    \* queue[k]: kb:jobqueue:<k-th priority>
    life,     \* life[k]: ticks until that key expires
    lock,     \* lock[k]: who holds kb:lock:queue:<k-th priority>
    fresh,    \* entries not yet enqueued
    pc, rank, \* a loop: where it is, the priority it looks at
    head,     \* the entry it found
    hand,     \* the entry dequeueJob returned to it
    due       \* history: what it could take when its scan began and nobody took

queueVars == <<now, queue, life, lock, fresh, pc, rank, head, hand, due>>

\* priorityOrder: high, normal, low.
Ranks == 1..3
Items == [id : Entries, score : Nat]

Eligible(k) == {x \in queue[k] : x.score <= now + LookAhead}
\* zrangebyscore answers in score order; members of one score come in any order.
Heads(k) == {x \in Eligible(k) : \A y \in Eligible(k) : x.score <= y.score}

NoneDue == [k \in Ranks |-> {}]

Init ==
    /\ now = 0
    /\ queue = [k \in Ranks |-> {}] /\ life = [k \in Ranks |-> 0]
    /\ lock = [k \in Ranks |-> None]
    /\ fresh = Entries
    /\ pc = [w \in Loops |-> "idle"] /\ rank = [w \in Loops |-> 1]
    /\ head = [w \in Loops |-> {}] /\ hand = [w \in Loops |-> {}]
    /\ due = [w \in Loops |-> NoneDue]

Move(w, label) == pc' = [pc EXCEPT ![w] = label]

\* A write of the sorted set starts its life again.
Write(k, items) ==
    /\ queue' = [queue EXCEPT ![k] = items]
    /\ life' = [life EXCEPT ![k] = KeyTTL]

EnqueueJob(e) ==
    /\ e \in fresh
    /\ fresh' = fresh \ {e}
    /\ \E k \in Ranks : Write(k, queue[k] \cup {[id |-> e, score |-> now]})
    /\ UNCHANGED <<now, lock, pc, rank, head, hand, due>>

(***************************************************************************)
(* dequeueJob                                                              *)
(***************************************************************************)
DequeueJob(w) ==
    /\ pc[w] = "idle" /\ hand[w] = {}
    /\ Move(w, "probe")
    /\ rank' = [rank EXCEPT ![w] = 1]
    /\ due' = [due EXCEPT ![w] = [k \in Ranks |-> Eligible(k)]]
    /\ UNCHANGED <<now, queue, life, lock, fresh, head, hand>>

\* mutant: an empty priority ends the scan.
StopAtEmpty(w) == Move(w, "idle") /\ UNCHANGED rank

\* The next priority, or null after the last.
NextRank(w) ==
    /\ rank' = [rank EXCEPT ![w] = @ + 1]
    /\ Move(w, IF rank[w] = 3 THEN "idle" ELSE "probe")

Probe(w) ==
    /\ pc[w] = "probe"
    /\ IF Eligible(rank[w]) = {} THEN NextRank(w) ELSE Move(w, "lock") /\ UNCHANGED rank
    /\ UNCHANGED <<now, queue, life, lock, fresh, head, hand, due>>

\* mutant: the lock is not asked for.
LockIgnored(w) ==
    /\ pc[w] = "lock"
    /\ lock' = [lock EXCEPT ![rank[w]] = w]
    /\ Move(w, "read")
    /\ UNCHANGED <<now, queue, life, fresh, rank, head, hand, due>>

TakeLock(w) ==
    /\ pc[w] = "lock" /\ lock[rank[w]] = None
    /\ lock' = [lock EXCEPT ![rank[w]] = w]
    /\ Move(w, "read")
    /\ UNCHANGED <<now, queue, life, fresh, rank, head, hand, due>>

\* mutant: a busy queue is taken for an empty one.
BusyIsEmpty(w) ==
    /\ pc[w] = "lock" /\ lock[rank[w]] # None
    /\ NextRank(w)
    /\ UNCHANGED <<now, queue, life, lock, fresh, head, hand, due>>

\* LockAcquireTimeoutError leaves dequeueJob; the loop logs it and polls again.
LockTimesOut(w) ==
    /\ pc[w] = "lock" /\ lock[rank[w]] # None
    /\ Move(w, "idle") /\ rank' = [rank EXCEPT ![w] = 1]
    /\ due' = [due EXCEPT ![w] = NoneDue]
    /\ UNCHANGED <<now, queue, life, lock, fresh, head, hand>>

ReadHead(w) ==
    /\ pc[w] = "read"
    /\ IF Eligible(rank[w]) = {} THEN Move(w, "unlock") /\ UNCHANGED head
       ELSE /\ \E x \in Heads(rank[w]) : head' = [head EXCEPT ![w] = {x}]
            /\ Move(w, "remove")
    /\ UNCHANGED <<now, queue, life, lock, fresh, rank, hand, due>>

RemoveHead(w) ==
    /\ pc[w] = "remove"
    /\ Write(rank[w], queue[rank[w]] \ head[w])
    /\ Move(w, "unlock")
    /\ due' = [v \in Loops |-> [due[v] EXCEPT ![rank[w]] = @ \ head[w]]]
    /\ UNCHANGED <<now, lock, fresh, rank, head, hand>>

Unlock(w) ==
    /\ pc[w] = "unlock"
    /\ lock' = [lock EXCEPT ![rank[w]] = None]
    /\ hand' = [hand EXCEPT ![w] = head[w]]
    /\ head' = [head EXCEPT ![w] = {}]
    /\ IF head[w] = {} THEN NextRank(w) /\ UNCHANGED due
       ELSE Move(w, "idle") /\ UNCHANGED rank /\ due' = [due EXCEPT ![w] = NoneDue]
    /\ UNCHANGED <<now, queue, life, fresh>>

(***************************************************************************)
(* What a loop does with its entry                                         *)
(***************************************************************************)
\* processJob is through with it.
Finish(w) ==
    /\ pc[w] = "idle" /\ hand[w] # {}
    /\ hand' = [hand EXCEPT ![w] = {}]
    /\ UNCHANGED <<now, queue, life, lock, fresh, pc, rank, head, due>>

\* rescheduleJob: the same entry comes back later, at the priority it had.
Reschedule(w) ==
    /\ pc[w] = "idle"
    /\ \E x \in hand[w], d \in 1..MaxDelay :
         /\ now + d <= MaxTime
         /\ Write(rank[w], queue[rank[w]] \cup {[x EXCEPT !.score = now + d]})
    /\ hand' = [hand EXCEPT ![w] = {}]
    /\ UNCHANGED <<now, lock, fresh, pc, rank, head, due>>

\* The process dies with whatever the loop holds; its lock stays until it expires.
Die(w) ==
    /\ MayCrash /\ pc[w] # "dead"
    /\ Move(w, "dead")
    /\ head' = [head EXCEPT ![w] = {}] /\ hand' = [hand EXCEPT ![w] = {}]
    /\ rank' = [rank EXCEPT ![w] = 1] /\ due' = [due EXCEPT ![w] = NoneDue]
    /\ UNCHANGED <<now, queue, life, lock, fresh>>

LockExpires(k) ==
    /\ \E w \in Loops : lock[k] = w /\ pc[w] = "dead"
    /\ lock' = [lock EXCEPT ![k] = None]
    /\ UNCHANGED <<now, queue, life, fresh, pc, rank, head, hand, due>>

\* Time passes.  In the state broker a sorted set is a plain value, which `set` without a
\* ttl gives a life of its own default; elsewhere sorted sets do not expire.
Tick ==
    /\ now < MaxTime
    /\ now' = now + 1
    /\ life' = [k \in Ranks |-> IF life[k] = 0 THEN 0 ELSE life[k] - 1]
    /\ queue' = [k \in Ranks |-> IF life[k] = 1 THEN {} ELSE queue[k]]
    /\ UNCHANGED <<lock, fresh, pc, rank, head, hand, due>>

LoopStep(w) == DequeueJob(w) \/ Probe(w) \/ TakeLock(w) \/ ReadHead(w) \/ RemoveHead(w)
               \/ Unlock(w) \/ Finish(w)
Next ==
    \/ Tick
    \/ \E e \in Entries : EnqueueJob(e)
    \/ \E k \in Ranks : LockExpires(k)
    \/ \E w \in Loops : LoopStep(w) \/ LockTimesOut(w) \/ Reschedule(w) \/ Die(w)

Spec == Init /\ [][Next]_queueVars

\* The event loop serves every worker loop, jobs come to an end, and the locks of dead
\* loops expire.
FairSpec ==
    /\ Spec
    /\ WF_queueVars(Tick)
    /\ \A w \in Loops : WF_queueVars(LoopStep(w))
    /\ \A k \in Ranks : WF_queueVars(LockExpires(k))

(***************************************************************************)
(* Properties                                                              *)
(***************************************************************************)
Owning == {"read", "remove", "unlock"}

QueueTypeOK ==
    /\ now \in Nat /\ life \in [Ranks -> Nat]
    /\ queue \in [Ranks -> SUBSET Items]
    /\ lock \in [Ranks -> Loops \cup {None}]
    /\ fresh \subseteq Entries
    /\ pc \in [Loops -> {"idle", "probe", "lock", "dead"} \cup Owning]
    /\ rank \in [Loops -> 1..4]
    /\ head \in [Loops -> SUBSET Items] /\ hand \in [Loops -> SUBSET Items]
    /\ due \in [Loops -> [Ranks -> SUBSET Items]]

\* A loop between read and unlock owns the queue's lock, its head is still there until it
\* removes it, and it holds something only when it should.
LoopsOK ==
    \A w \in Loops :
        /\ rank[w] \in Ranks \/ (pc[w] = "idle" /\ hand[w] = {})
        /\ pc[w] \in Owning => lock[rank[w]] = w
        /\ pc[w] = "remove" => head[w] # {} /\ head[w] \subseteq queue[rank[w]]
        /\ head[w] # {} => pc[w] \in {"remove", "unlock"} /\ hand[w] = {}
        /\ hand[w] # {} => pc[w] = "idle"
        /\ \A x, y \in head[w] \cup hand[w] : x = y

\* The ids in the queues, and the one a loop has removed or been given.
Waiting == {x.id : x \in UNION {queue[k] : k \in Ranks}}
Held(w) == IF pc[w] = "unlock" THEN head[w] ELSE hand[w]
OnlyId(items) == IF items = {} THEN None ELSE CHOOSE e \in Entries : \E x \in items : x.id = e
Holder(w) == OnlyId(Held(w))

\* An entry is in one place: still to come, in one queue once, or with one loop.
OnePlace ==
    /\ \A k, l \in Ranks : \A x \in queue[k], y \in queue[l] : x.id = y.id => k = l /\ x = y
    /\ \A v, w \in Loops : \A x \in Held(v), y \in Held(w) : x.id = y.id => v = w
    /\ \A w \in Loops : \A x \in Held(w) : x.id \notin Waiting \cup fresh
    /\ fresh \cap Waiting = {}

\* What a scan found due and nobody took is still due; the priorities it is done with,
\* and the one it found empty under the lock, have nothing left of it.
ScansOK ==
    \A w \in Loops : \A k \in Ranks :
        /\ due[w][k] \subseteq Eligible(k)
        /\ k < rank[w] => due[w][k] = {}
        /\ k = rank[w] /\ pc[w] = "unlock" /\ head[w] = {} => due[w][k] = {}

\* The inductive invariant of a queue whose keys do not expire.
QueueInv == QueueTypeOK /\ LoopsOK /\ OnePlace /\ ScansOK /\ life = [k \in Ranks |-> 0]

\* An entry is handed to one loop only, and none is lost while it waits, although a loop
\* reads and removes it in two calls (scheduler.ts).
Pool == INSTANCE JobPool
        WITH waiting <- Waiting, holder <- [w \in Loops |-> Holder(w)]
EachEntryOnce == Pool!Spec

\* A loop passes over a priority only when all it could have taken there when its scan
\* began has been taken: no entry of a lower priority is taken before, and null means nothing.
NoInversion ==
    \A w \in Loops : \A k \in Ranks :
        k < rank[w] => due[w][k] = {}

\* An entry that is due is served in the end as long as one loop lives, whatever comes at
\* other priorities and although others die with the lock of its queue (scheduler.ts).
EntryServed ==
    \A e \in Entries :
        (\E k \in Ranks : \E x \in Eligible(k) : x.id = e)
            ~> (e \notin Waiting \/ \A w \in Loops : pc[w] = "dead")
=============================================================================
