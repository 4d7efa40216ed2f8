------------------------------ MODULE WithLock ------------------------------
(***************************************************************************)
(* StateStore.updateRun under withLock (engine/src/lock.ts): concurrent    *)
(* callers, in one process or in several, take turns at a read-modify-     *)
(* write of one stored record.  The lock is a cache key with a time to     *)
(* live; a caller that dies keeps it until it expires.                     *)
(*                                                                         *)
(* Time advances in ticks.  The bound MaxHold on the time from taking to   *)
(* giving back the lock is an assumption on storage and scheduling that    *)
(* the code cannot enforce.                                                *)
(***************************************************************************)
EXTENDS Naturals, FiniteSets

CONSTANTS
    Callers,        \* calls of updateRun on one record
    LockTTL,        \* LOCK_TTL_MS
    AcquireTimeout, \* LOCK_ACQUIRE_TIMEOUT_MS
    MaxPause,       \* longest sleep between two attempts (LOCK_RETRY_MAX_MS, jittered)
    MaxHold,        \* longest time a caller holds the lock
    MayCrash,       \* whether processes may die
    None

ASSUME LockBounds == /\ LockTTL \in Nat /\ AcquireTimeout \in Nat
                     /\ MaxPause \in Nat /\ MaxHold \in Nat
ASSUME LockShape  == /\ MayCrash \in BOOLEAN
                     /\ IsFiniteSet(Callers) /\ None \notin Callers

VARIABLES
    lock,     \* owner: the token stored under the key; ttl: ticks until it expires
    record,   \* the stored record: the updates it contains
    pc, copy, \* a caller: where it is, what it read
    left,     \* ticks until its deadline
    pause,    \* ticks until it tries again
    held,     \* ticks since it took the lock
    outcome   \* what became of its update

lockVars == <<lock, record, pc, copy, left, pause, held, outcome>>

Inside == {"locked", "read", "unlock", "delete"}
Free == [owner |-> None, ttl |-> 0]

Init ==
    /\ lock = Free /\ record = {}
    /\ pc = [p \in Callers |-> "idle"] /\ copy = [p \in Callers |-> {}]
    /\ left = [p \in Callers |-> 0] /\ pause = [p \in Callers |-> 0]
    /\ held = [p \in Callers |-> 0] /\ outcome = [p \in Callers |-> "none"]

Move(p, label) == pc' = [pc EXCEPT ![p] = label]
Result(p, o) == outcome' = [outcome EXCEPT ![p] = o]

Call(p) ==
    /\ pc[p] = "idle"
    /\ Move(p, "trying")
    /\ left' = [left EXCEPT ![p] = AcquireTimeout]
    /\ UNCHANGED <<lock, record, copy, pause, held, outcome>>

\* mutant: seconds are passed for milliseconds, the key is gone at the next tick.
TakeBriefly(p) ==
    /\ lock' = [owner |-> p, ttl |-> 1]
    /\ held' = [held EXCEPT ![p] = 0]
    /\ Move(p, "locked")

\* mutant: the key is set without a time to live.
TakeForever(p) ==
    /\ lock' = [owner |-> p, ttl |-> LockTTL + 2 * AcquireTimeout]
    /\ held' = [held EXCEPT ![p] = 0]
    /\ Move(p, "locked")

\* setIfNotExists stores the caller's token.
TakeLock(p) ==
    /\ lock' = [owner |-> p, ttl |-> LockTTL]
    /\ held' = [held EXCEPT ![p] = 0]
    /\ Move(p, "locked")

\* The key is there: give up past the deadline, else sleep.
Busy(p) ==
    /\ \/ /\ left[p] = 0
          /\ Result(p, "timeout") /\ Move(p, "returned") /\ UNCHANGED pause
       \/ /\ left[p] > 0
          /\ \E t \in 1..MaxPause : pause' = [pause EXCEPT ![p] = t]
          /\ Move(p, "asleep") /\ UNCHANGED outcome
    /\ UNCHANGED <<lock, held>>

\* One attempt: setIfNotExists of an adapter that looks and sets in one call.
Attempt(p) ==
    /\ pc[p] = "trying"
    /\ IF lock.ttl > 0 THEN Busy(p) ELSE TakeLock(p) /\ UNCHANGED <<pause, outcome>>
    /\ UNCHANGED <<record, copy, left>>

WakeUp(p) ==
    /\ pc[p] = "asleep" /\ pause[p] = 0
    /\ Move(p, "trying")
    /\ UNCHANGED <<lock, record, copy, left, pause, held, outcome>>

\* fn: getRun ...
ReadRecord(p) ==
    /\ pc[p] = "locked"
    /\ copy' = [copy EXCEPT ![p] = record]
    /\ Move(p, "read")
    /\ UNCHANGED <<lock, record, left, pause, held, outcome>>

\* ... then the mutator and saveRun; the mutator may throw (assertTransition).
WriteRecord(p) ==
    /\ pc[p] = "read"
    /\ \/ record' = copy[p] \cup {p} /\ Result(p, "applied")
       \/ Result(p, "rejected") /\ UNCHANGED record
    /\ Move(p, "unlock")
    /\ UNCHANGED <<lock, copy, left, pause, held>>

\* mutant: the comparison is the wrong way round.
CheckReversed(p) ==
    /\ pc[p] = "unlock"
    /\ Move(p, IF lock.owner = p /\ lock.ttl > 0 THEN "returned" ELSE "delete")
    /\ UNCHANGED <<lock, record, copy, left, pause, held, outcome>>

\* finally: read the key ...
CheckToken(p) ==
    /\ pc[p] = "unlock"
    /\ Move(p, IF lock.owner = p /\ lock.ttl > 0 THEN "delete" ELSE "returned")
    /\ UNCHANGED <<lock, record, copy, left, pause, held, outcome>>

\* ... and delete it, whatever it holds by then.
DeleteKey(p) ==
    /\ pc[p] = "delete"
    /\ lock' = Free
    /\ Move(p, "returned")
    /\ UNCHANGED <<record, copy, left, pause, held, outcome>>

\* The process of this caller dies.
Die(p) ==
    /\ MayCrash
    /\ pc[p] \notin {"idle", "returned", "dead"}
    /\ Move(p, "dead")
    /\ UNCHANGED <<lock, record, copy, left, pause, held, outcome>>

Less(n) == IF n = 0 THEN 0 ELSE n - 1

\* Time passes while no caller has something to do at once or holds for too long.
Tick ==
    /\ \A p \in Callers :
          /\ pc[p] # "trying"
          /\ pc[p] = "asleep" => pause[p] > 0
          /\ pc[p] \in Inside => held[p] < MaxHold
    /\ lock' = IF lock.ttl <= 1 THEN Free ELSE [lock EXCEPT !.ttl = @ - 1]
    /\ left' = [p \in Callers |-> Less(left[p])]
    /\ pause' = [p \in Callers |-> Less(pause[p])]
    /\ held' = [p \in Callers |-> IF pc[p] \in Inside THEN held[p] + 1 ELSE 0]
    /\ UNCHANGED <<record, pc, copy, outcome>>

Step(p) == Call(p) \/ Attempt(p) \/ WakeUp(p) \/ ReadRecord(p)
           \/ WriteRecord(p) \/ CheckToken(p) \/ DeleteKey(p) \/ Die(p)
Next == Tick \/ \E p \in Callers : Step(p)
Spec == Init /\ [][Next]_lockVars

(***************************************************************************)
(* Properties                                                              *)
(***************************************************************************)
Labels == Inside \cup {"idle", "trying", "asleep", "returned", "dead"}
Results == {"none", "applied", "rejected", "timeout"}

\* Every variable stays in its range.
LockTypeOK ==
    /\ lock \in [owner : Callers \cup {None}, ttl : Nat]
    /\ record \subseteq Callers
    /\ pc \in [Callers -> Labels] /\ copy \in [Callers -> SUBSET Callers]
    /\ left \in [Callers -> Nat] /\ pause \in [Callers -> Nat] /\ held \in [Callers -> Nat]
    /\ outcome \in [Callers -> Results]

\* At most one caller is between taking and giving back the lock, as long as none holds
\* it longer than it lives (lock.ts).
MutualExclusion == \A p, q \in Callers : pc[p] \in Inside /\ pc[q] \in Inside => p = q

\* The read-modify-write behaves as one atomic step: no update is lost or undone.
Atomic == INSTANCE AtomicRecord
UpdatesAreAtomic == Atomic!Spec

\* Hence the record contains the updates whose callers were told so, and no others.
NoUpdateLost == record = {p \in Callers : outcome[p] = "applied"}

\* The acquire timeout covers the time to live of every dead holder ahead: no caller of
\* a small group is refused.
NobodyTimesOut == \A p \in Callers : outcome[p] # "timeout"
Turn == LockTTL + MaxPause
FewCallers == (Cardinality(Callers) - 1) * Turn <= AcquireTimeout + MaxPause

\* The last caller to leave leaves no key behind: the record is never locked for nobody.
KeyIsGivenBack ==
    (\A p \in Callers : pc[p] \in {"idle", "returned"}) => lock = Free

\* A caller that waits is passed once by each of the others, and each costs it a time to
\* live and a pause at most; Owed is what the one in front may still cost it.
Passed == Inside \cup {"returned", "dead"}
Ahead(p) == {q \in Callers \ {p} : pc[q] \in Passed}
Waits(p) == pc[p] \in {"trying", "asleep"}
Owed(p) == IF lock.ttl > 0 THEN lock.ttl + MaxPause
           ELSE IF pc[p] = "asleep" THEN pause[p] ELSE 0
InTime(p) == AcquireTimeout + Owed(p) <= left[p] + Turn * Cardinality(Ahead(p))
WaitIsShared ==
    /\ lock.ttl <= LockTTL
    /\ lock.ttl > 0 => lock.owner \in Callers /\ pc[lock.owner] \in Passed
    /\ \A p \in Callers : /\ pc[p] = "asleep" => pause[p] <= MaxPause
                          /\ Waits(p) => InTime(p)

\* A caller inside owns the key, whose remaining life and the time it has been held add up
\* to LockTTL; what it read is still what is stored; and a key that is there belongs to a
\* caller inside, or to one that died.
HoldersOwn ==
    /\ \/ lock = Free
       \/ /\ lock.ttl > 0
          /\ \E p \in Callers : lock.owner = p /\ pc[p] \in Inside \cup {"dead"}
    /\ \A p \in Callers :
          /\ pc[p] \in Inside =>
                lock.owner = p /\ held[p] <= MaxHold /\ lock.ttl + held[p] = LockTTL
          /\ pc[p] = "read" => copy[p] = record
          /\ pc[p] \in {"idle", "trying", "asleep", "locked", "read"} => outcome[p] = "none"

\* The inductive invariant.
LockInv == LockTypeOK /\ WaitIsShared /\ HoldersOwn
=============================================================================
