--------------------------- MODULE WithLock_proofs ---------------------------
(***************************************************************************)
(* For every number of callers, with holds that are shorter than the life  *)
(* of the key, withLock is a mutual exclusion and updateRun an atomic      *)
(* step.  However long they hold, a caller waits a time to live and a      *)
(* pause for each of the others, and no longer.                            *)
(***************************************************************************)
EXTENDS WithLock, FiniteSetTheorems, TLAPS

----------------------------------------------------------------------------
(* How long a caller waits                                                 *)

LEMMA InitTyped == Init => LockTypeOK
  BY LockShape DEF Init, LockTypeOK, Free, Labels, Results

LEMMA StepTyped ==
  ASSUME LockTypeOK, [Next]_lockVars
  PROVE  LockTypeOK'
<1> USE LockBounds, LockShape DEF LockTypeOK, Move, Result, Labels, Inside, Results
<1>1. CASE UNCHANGED lockVars
  BY <1>1 DEF lockVars
<1>2. CASE Tick
  BY <1>2 DEF Tick, Free, Less
<1>3. ASSUME NEW p \in Callers, Step(p) PROVE LockTypeOK'
  <2>1. CASE Call(p)
    BY <2>1 DEF Call
  <2>2. CASE Attempt(p) /\ lock.ttl > 0
    <3>1. pause' \in [Callers -> Nat]
      BY <2>2 DEF Attempt, Busy
    <3>2. pc' \in [Callers -> Labels] /\ outcome' \in [Callers -> Results]
      BY <2>2 DEF Attempt, Busy
    <3> QED BY <2>2, <3>1, <3>2 DEF Attempt, Busy
  <2>3. CASE Attempt(p) /\ ~(lock.ttl > 0)
    BY <2>3 DEF Attempt, TakeLock
  <2>4. CASE WakeUp(p) \/ CheckToken(p) \/ Die(p)
    BY <2>4 DEF WakeUp, CheckToken, Die
  <2>5. CASE ReadRecord(p)
    BY <2>5 DEF ReadRecord
  <2>6. CASE WriteRecord(p)
    <3>1. record' \subseteq Callers /\ outcome' \in [Callers -> Results]
      BY <2>6 DEF WriteRecord
    <3> QED BY <2>6, <3>1 DEF WriteRecord
  <2>7. CASE DeleteKey(p)
    BY <2>7 DEF DeleteKey, Free
  <2> QED BY <1>3, <2>1, <2>2, <2>3, <2>4, <2>5, <2>6, <2>7 DEF Step
<1> QED BY <1>1, <1>2, <1>3 DEF Next

LEMMA TurnsAddUp ==
  /\ Turn \in Nat
  /\ \A m, n \in Nat : m <= n => Turn * m <= Turn * n
  /\ \A n \in Nat : Turn * (n + 1) = Turn * n + Turn
<1>1. Turn \in Nat
  BY LockBounds DEF Turn
<1>2. \A c, m, n \in Nat : m <= n => c * m <= c * n
  <2> SUFFICES ASSUME NEW c \in Nat, NEW m \in Nat, NEW n \in Nat, m <= n
               PROVE  c * m <= c * n
    OBVIOUS
  <2>1. PICK d \in Nat : n = m + d
    <3>1. n - m \in Nat /\ n = m + (n - m)
      OBVIOUS
    <3> QED BY <3>1
  <2>2. c * (m + d) = c * m + c * d /\ c * d \in Nat /\ c * m \in Nat
    OBVIOUS
  <2> QED BY <2>1, <2>2
<1>3. \A c, n \in Nat : c * (n + 1) = c * n + c
  OBVIOUS
<1> QED BY <1>1, <1>2, <1>3

\* Who has passed a caller stays passed: the count never falls, and rises with each that
\* takes the lock.
LEMMA AheadCounts ==
  ASSUME NEW p \in Callers
  PROVE  /\ Cardinality(Ahead(p)) \in Nat /\ Cardinality(Ahead(p)') \in Nat
         /\ Ahead(p) \subseteq Ahead(p)' => Cardinality(Ahead(p)) <= Cardinality(Ahead(p)')
         /\ \A q \in Callers :
              Ahead(p) \subseteq Ahead(p)' /\ q \in Ahead(p)' /\ q \notin Ahead(p)
                => Cardinality(Ahead(p)) + 1 <= Cardinality(Ahead(p)')
<1>1. IsFiniteSet(Ahead(p)) /\ IsFiniteSet(Ahead(p)')
  BY LockShape, FS_Subset DEF Ahead
<1>2. Cardinality(Ahead(p)) \in Nat /\ Cardinality(Ahead(p)') \in Nat
  BY <1>1, FS_CardinalityType
<1>3. Ahead(p) \subseteq Ahead(p)' => Cardinality(Ahead(p)) <= Cardinality(Ahead(p)')
  BY <1>1, FS_Subset
<1>4. ASSUME NEW q \in Callers, Ahead(p) \subseteq Ahead(p)', q \in Ahead(p)', q \notin Ahead(p)
      PROVE  Cardinality(Ahead(p)) + 1 <= Cardinality(Ahead(p)')
  <2>1. Cardinality(Ahead(p) \cup {q}) = Cardinality(Ahead(p)) + 1
    BY <1>1, <1>4, FS_AddElement
  <2>2. Cardinality(Ahead(p) \cup {q}) <= Cardinality(Ahead(p)')
    BY <1>1, <1>4, FS_Subset
  <2> QED BY <2>1, <2>2
<1> QED BY <1>2, <1>3, <1>4

\* A wait that goes on stays in time when no more is owed and nobody ahead is forgotten.
LEMMA WaitGoesOn ==
  ASSUME LockTypeOK, LockTypeOK', NEW p \in Callers, InTime(p),
         Ahead(p) \subseteq Ahead(p)', left'[p] + Owed(p) >= left[p] + Owed(p)',
         Owed(p) \in Nat, Owed(p)' \in Nat
  PROVE  InTime(p)'
<1> DEFINE n == Cardinality(Ahead(p))  m == Cardinality(Ahead(p)')
<1>1. n \in Nat /\ m \in Nat /\ n <= m
  BY AheadCounts
<1>2. Turn * n <= Turn * m /\ Turn * n \in Nat /\ Turn * m \in Nat
  BY <1>1, TurnsAddUp
<1>3. InTime(p)' <=> AcquireTimeout + Owed(p)' <= left'[p] + Turn * m
  BY DEF InTime, Turn
<1>4. AcquireTimeout + Owed(p) <= left[p] + Turn * n
  BY DEF InTime
<1>5. left[p] \in Nat /\ left'[p] \in Nat
  BY DEF LockTypeOK
<1> HIDE DEF n, m
<1> QED BY <1>2, <1>3, <1>4, <1>5, LockBounds

LEMMA OwedIsNat ==
  ASSUME LockTypeOK, NEW p \in Callers
  PROVE  Owed(p) \in Nat
  BY LockBounds DEF Owed, LockTypeOK

LEMMA WaitOverTick ==
  ASSUME LockTypeOK, WaitIsShared, Tick, LockTypeOK'
  PROVE  WaitIsShared'
<1> USE LockBounds, LockShape
<1>1. pc' = pc /\ \A p \in Callers : pause'[p] = Less(pause[p]) /\ left'[p] = Less(left[p])
  BY DEF Tick
<1>2. \/ lock.ttl <= 1 /\ lock' = Free
      \/ lock.ttl > 1 /\ lock'.ttl = lock.ttl - 1 /\ lock'.owner = lock.owner
  BY DEF Tick, LockTypeOK
<1>3. /\ lock'.ttl <= LockTTL
      /\ lock'.ttl > 0 => lock'.owner \in Callers /\ pc'[lock'.owner] \in Passed
  BY <1>1, <1>2 DEF WaitIsShared, Free, LockTypeOK
<1>4. ASSUME NEW p \in Callers, Waits(p)
      PROVE  (pc'[p] = "asleep" => pause'[p] <= MaxPause) /\ InTime(p)'
  <2>1. pc[p] = "asleep" /\ pause[p] > 0 /\ pause[p] <= MaxPause /\ InTime(p)
    BY <1>4 DEF WaitIsShared, Tick, Waits
  <2>2. pause[p] \in Nat /\ left[p] \in Nat /\ lock.ttl \in Nat
    BY DEF LockTypeOK
  <2>3. pause'[p] = pause[p] - 1 /\ left'[p] >= left[p] - 1 /\ left'[p] \in Nat
    BY <1>1, <2>1, <2>2 DEF Less
  <2>4. Owed(p) >= Owed(p)' + 1
    BY <1>1, <1>2, <2>1, <2>2, <2>3 DEF Owed, Free
  <2>5. Ahead(p)' = Ahead(p)
    BY <1>1 DEF Ahead
  <2>6. Owed(p) \in Nat /\ Owed(p)' \in Nat
    BY <1>1, <1>2, <2>1, <2>2, <2>3 DEF Owed, Free
  <2>7. left'[p] + Owed(p) >= left[p] + Owed(p)'
    BY <2>2, <2>3, <2>4, <2>6
  <2>8. Ahead(p) \subseteq Ahead(p)'
    BY <2>5
  <2>9. InTime(p)'
    BY <2>1, <2>6, <2>7, <2>8, WaitGoesOn
  <2> QED BY <2>1, <2>2, <2>3, <2>9, LockBounds
<1>5. \A p \in Callers : Waits(p)' => Waits(p)
  BY <1>1 DEF Waits
<1>6. \A p \in Callers : pc'[p] = "asleep" => Waits(p)
  BY <1>1 DEF Waits
<1> QED BY <1>3, <1>4, <1>5, <1>6 DEF WaitIsShared

\* A step of one caller that leaves the lock as it is, or frees it, costs the others nothing.
LEMMA WaitOfOthers ==
  ASSUME LockTypeOK, WaitIsShared, LockTypeOK', NEW p \in Callers, NEW q \in Callers, q # p,
         pc'[p] = pc[p], pause'[p] = pause[p], left'[p] = left[p],
         lock' = lock \/ lock' = Free, Ahead(p) \subseteq Ahead(p)', Waits(p)
  PROVE  InTime(p)'
<1>1. InTime(p) /\ (pc[p] = "asleep" => pause[p] <= MaxPause)
  BY DEF WaitIsShared
<1>2. Owed(p) \in Nat /\ Owed(p)' \in Nat
  <2>1. pause[p] \in Nat /\ lock.ttl \in Nat /\ (lock' = Free => lock'.ttl = 0)
    BY DEF LockTypeOK, Free
  <2> QED BY <2>1, LockBounds DEF Owed
<1>3. Owed(p)' <= Owed(p)
  <2>1. pause[p] \in Nat /\ lock.ttl \in Nat /\ (lock' = Free => lock'.ttl = 0)
    BY DEF LockTypeOK, Free
  <2> QED BY <1>1, <2>1, LockBounds DEF Owed
<1>4. left[p] \in Nat
  BY DEF LockTypeOK
<1>5. left'[p] + Owed(p) >= left[p] + Owed(p)'
  BY <1>2, <1>3, <1>4
<1> QED BY <1>1, <1>2, <1>5, WaitGoesOn

\* One attempt: whoever takes the lock joins those ahead of all that wait, which is worth
\* its time to live and a pause to each of them.
LEMMA WaitOverAttempt ==
  ASSUME LockTypeOK, WaitIsShared, LockTypeOK', NEW q \in Callers, Attempt(q)
  PROVE  WaitIsShared'
<1> USE LockBounds, LockShape
<1>1. pc[q] = "trying" /\ left' = left /\ \A p \in Callers \ {q} : pc'[p] = pc[p] /\ pause'[p] = pause[p]
  BY DEF Attempt, Busy, TakeLock, Move, LockTypeOK
<1>2. \A p \in Callers : Ahead(p) \subseteq Ahead(p)'
  BY <1>1 DEF Ahead, Passed, Inside
<1>3. CASE lock.ttl > 0
  <2>1. lock' = lock
    BY <1>3 DEF Attempt, Busy
  <2>2. pc'[q] = "returned" \/ (pc'[q] = "asleep" /\ pause'[q] <= MaxPause)
    BY <1>3 DEF Attempt, Busy, Move, LockTypeOK
  <2>3. ASSUME NEW p \in Callers, Waits(p) PROVE InTime(p)'
    <3>1. InTime(p) /\ Owed(p)' = Owed(p) /\ Owed(p) \in Nat /\ left[p] \in Nat
      BY <1>3, <2>1, <2>3, OwedIsNat DEF WaitIsShared, Owed, LockTypeOK
    <3>2. left'[p] + Owed(p) >= left[p] + Owed(p)'
      BY <1>1, <3>1
    <3>3. Ahead(p) \subseteq Ahead(p)' /\ Owed(p)' \in Nat
      BY <1>2, <3>1
    <3> QED BY <3>1, <3>2, <3>3, WaitGoesOn
  <2>4. \A p \in Callers : Waits(p)' => Waits(p)
    BY <1>1 DEF Waits
  <2>5. \A p \in Callers : pc'[p] = "asleep" => pause'[p] <= MaxPause
    BY <1>1, <2>2 DEF WaitIsShared
  <2>6. lock'.ttl > 0 => pc'[lock'.owner] \in Passed
    BY <1>1, <2>1 DEF WaitIsShared, Passed, Inside
  <2> QED BY <2>1, <2>3, <2>4, <2>5, <2>6 DEF WaitIsShared
<1>4. CASE ~(lock.ttl > 0)
  <2>1. lock' = [owner |-> q, ttl |-> LockTTL] /\ pc'[q] = "locked"
    BY <1>4 DEF Attempt, TakeLock, Move, LockTypeOK
  <2>2. ASSUME NEW p \in Callers, Waits(p), p # q PROVE InTime(p)'
    <3> DEFINE n == Cardinality(Ahead(p))  m == Cardinality(Ahead(p)')
    <3>1. q \in Ahead(p)' /\ q \notin Ahead(p)
      BY <1>1, <2>1, <2>2 DEF Ahead, Passed, Inside
    <3>2. n \in Nat /\ m \in Nat /\ n + 1 <= m
      BY <1>2, <3>1, AheadCounts
    <3>3. Turn * n + Turn <= Turn * m /\ Turn * n \in Nat /\ Turn * m \in Nat /\ Turn \in Nat
      <4>1. Turn * (n + 1) <= Turn * m /\ Turn * (n + 1) = Turn * n + Turn
        BY <3>2, TurnsAddUp
      <4> QED BY <3>2, <4>1, TurnsAddUp
    <3>4. AcquireTimeout + Owed(p) <= left[p] + Turn * n /\ Owed(p) \in Nat
      BY <2>2, OwedIsNat DEF WaitIsShared, InTime
    <3>5. Owed(p)' <= Turn /\ Owed(p)' \in Nat
      <4>1. pause[p] <= MaxPause \/ pc[p] # "asleep"
        BY DEF WaitIsShared
      <4>2. pc'[p] = pc[p] /\ pause'[p] = pause[p] /\ pause[p] \in Nat
        BY <1>1, <2>2 DEF LockTypeOK
      <4> QED BY <2>1, <4>1, <4>2 DEF Owed, Turn
    <3>6. left'[p] = left[p] /\ left[p] \in Nat
      BY <1>1 DEF LockTypeOK
    <3>7. InTime(p)' <=> AcquireTimeout + Owed(p)' <= left'[p] + Turn * m
      BY DEF InTime, Turn
    <3> HIDE DEF n, m
    <3> QED BY <3>3, <3>4, <3>5, <3>6, <3>7
  <2>3. \A p \in Callers : Waits(p)' => Waits(p) /\ p # q
    BY <1>1, <2>1 DEF Waits
  <2>4. \A p \in Callers : pc'[p] = "asleep" => pause'[p] <= MaxPause
    BY <1>1, <2>1 DEF WaitIsShared
  <2>5. lock'.ttl <= LockTTL /\ lock'.owner \in Callers /\ pc'[lock'.owner] \in Passed
    BY <2>1 DEF Passed, Inside
  <2> QED BY <2>2, <2>3, <2>4, <2>5 DEF WaitIsShared
<1> QED BY <1>3, <1>4

\* A call begins with the whole acquire timeout before it; one that finds a key has its
\* holder ahead.
LEMMA WaitBegins ==
  ASSUME LockTypeOK, WaitIsShared, LockTypeOK', NEW q \in Callers, Call(q)
  PROVE  WaitIsShared'
<1> USE LockBounds, LockShape
<1>1. /\ pc[q] = "idle" /\ pc'[q] = "trying" /\ left'[q] = AcquireTimeout
      /\ lock' = lock /\ pause' = pause
      /\ \A p \in Callers \ {q} : pc'[p] = pc[p] /\ left'[p] = left[p]
  BY DEF Call, Move, LockTypeOK
<1>2. InTime(q)'
  <2> DEFINE m == Cardinality(Ahead(q)')
  <2>1. m \in Nat /\ Turn * m \in Nat
    BY AheadCounts, TurnsAddUp
  <2>2. InTime(q)' <=> AcquireTimeout + Owed(q)' <= left'[q] + Turn * m
    BY DEF InTime, Turn
  <2>3. CASE lock.ttl > 0
    <3>1. lock.owner \in Ahead(q)'
      BY <1>1, <2>3 DEF WaitIsShared, Ahead, Passed, Inside
    <3>2. m # 0
      <4>1. IsFiniteSet(Ahead(q)')
        BY FS_Subset DEF Ahead
      <4> QED BY <3>1, <4>1, FS_EmptySet
    <3>3. Turn * 1 <= Turn * m /\ Turn * 1 = Turn
      BY <2>1, <3>2, TurnsAddUp
    <3>4. Owed(q)' <= Turn /\ Owed(q)' \in Nat
      BY <1>1, <2>3 DEF WaitIsShared, Owed, Turn, LockTypeOK
    <3> HIDE DEF m
    <3> QED BY <1>1, <2>1, <2>2, <3>3, <3>4, TurnsAddUp
  <2>4. CASE ~(lock.ttl > 0)
    <3>1. Owed(q)' = 0
      BY <1>1, <2>4 DEF Owed
    <3> HIDE DEF m
    <3> QED BY <1>1, <2>1, <2>2, <3>1
  <2> QED BY <2>3, <2>4
<1>3. ASSUME NEW p \in Callers, p # q, Waits(p) PROVE InTime(p)'
  <2>1. Ahead(p) \subseteq Ahead(p)'
    BY <1>1 DEF Ahead, Passed, Inside
  <2> QED BY <1>1, <1>3, <2>1, WaitOfOthers
<1>4. \A p \in Callers : Waits(p)' => p = q \/ Waits(p)
  BY <1>1 DEF Waits
<1>5. lock'.ttl > 0 => pc'[lock'.owner] \in Passed
  BY <1>1 DEF WaitIsShared, Passed, Inside
<1>6. \A p \in Callers : pc'[p] = "asleep" => pause'[p] <= MaxPause
  BY <1>1 DEF WaitIsShared
<1> QED BY <1>1, <1>2, <1>3, <1>4, <1>5, <1>6 DEF WaitIsShared

\* What a caller does inside, or on its way out, only moves it on.
LEMMA WaitOverInside ==
  ASSUME LockTypeOK, WaitIsShared, LockTypeOK', NEW q \in Callers,
         ReadRecord(q) \/ WriteRecord(q) \/ CheckToken(q) \/ DeleteKey(q) \/ Die(q)
  PROVE  WaitIsShared'
<1>1. /\ pc[q] \notin {"idle"} /\ pc'[q] \in Passed
      /\ left' = left /\ pause' = pause /\ (lock' = lock \/ lock' = Free)
      /\ \A p \in Callers \ {q} : pc'[p] = pc[p]
  BY DEF ReadRecord, WriteRecord, CheckToken, DeleteKey, Die, Move, LockTypeOK, Passed,
         Inside
<1>2. ASSUME NEW p \in Callers, p # q, Waits(p) PROVE InTime(p)'
  <2>1. Ahead(p) \subseteq Ahead(p)'
    BY <1>1 DEF Ahead
  <2> QED BY <1>1, <1>2, <2>1, WaitOfOthers
<1>3. \A p \in Callers : (Waits(p)' => p # q /\ Waits(p)) /\ (pc'[p] = "asleep" => p # q)
  BY <1>1 DEF Waits, Passed, Inside
<1>4. lock'.ttl <= LockTTL /\ (lock'.ttl > 0 => lock'.owner \in Callers /\ pc'[lock'.owner] \in Passed)
  BY <1>1, LockBounds DEF WaitIsShared, Free
<1>5. \A p \in Callers : pc'[p] = "asleep" => pause'[p] <= MaxPause
  BY <1>1, <1>3 DEF WaitIsShared
<1> QED BY <1>2, <1>3, <1>4, <1>5 DEF WaitIsShared

LEMMA WaitOverWakeUp ==
  ASSUME LockTypeOK, WaitIsShared, LockTypeOK', NEW q \in Callers, WakeUp(q)
  PROVE  WaitIsShared'
<1>1. /\ pc[q] = "asleep" /\ pause[q] = 0 /\ pc'[q] = "trying"
      /\ lock' = lock /\ left' = left /\ pause' = pause
      /\ \A p \in Callers \ {q} : pc'[p] = pc[p]
  BY DEF WakeUp, Move, LockTypeOK
<1>2. \A p \in Callers : Owed(p)' = Owed(p) /\ Ahead(p)' = Ahead(p)
  BY <1>1 DEF Owed, Ahead, Passed, Inside
<1>3. \A p \in Callers : Waits(p) => InTime(p)'
  BY <1>1, <1>2 DEF WaitIsShared, InTime
<1>4. \A p \in Callers : (Waits(p)' => Waits(p)) /\ (pc'[p] = "asleep" => pc[p] = "asleep")
  BY <1>1 DEF Waits
<1>5. lock'.ttl > 0 => pc'[lock'.owner] \in Passed
  BY <1>1 DEF WaitIsShared, Passed, Inside
<1> QED BY <1>1, <1>3, <1>4, <1>5 DEF WaitIsShared

LEMMA WaitStep ==
  ASSUME LockTypeOK, WaitIsShared, [Next]_lockVars
  PROVE  WaitIsShared'
<1>1. LockTypeOK'
  BY StepTyped
<1>2. CASE UNCHANGED lockVars
  <2>1. \A p \in Callers : Owed(p)' = Owed(p) /\ Ahead(p)' = Ahead(p)
    BY <1>2 DEF Owed, Ahead, lockVars
  <2> QED BY <1>2, <2>1 DEF lockVars, WaitIsShared, Waits, InTime
<1>3. CASE Tick
  BY <1>1, <1>3, WaitOverTick
<1>4. ASSUME NEW q \in Callers, Step(q) PROVE WaitIsShared'
  BY <1>1, <1>4, WaitOverAttempt, WaitBegins, WaitOverInside, WaitOverWakeUp DEF Step
<1> QED BY <1>2, <1>3, <1>4 DEF Next

\* Whoever dies and however long anybody holds the lock, each of the others makes a caller
\* wait a time to live and a pause at most (lock.ts:54-69).
THEOREM WaitsInductive == Spec => [](LockTypeOK /\ WaitIsShared)
<1>1. Init => LockTypeOK /\ WaitIsShared
  BY InitTyped, LockBounds DEF Init, WaitIsShared, Free, Waits
<1> QED BY <1>1, StepTyped, WaitStep, PTL DEF Spec

\* Of few callers none is refused: with as many as share the acquire timeout, the deadline
\* comes only after all the others have had the lock and lost it (lock.ts:63-65).
THEOREM NobodyIsRefused == ASSUME FewCallers PROVE Spec => []NobodyTimesOut
<1>1. Init => NobodyTimesOut
  BY DEF Init, NobodyTimesOut
<1>2. LockTypeOK /\ WaitIsShared /\ NobodyTimesOut /\ [Next]_lockVars => NobodyTimesOut'
  <2> SUFFICES ASSUME LockTypeOK, WaitIsShared, NobodyTimesOut, Next PROVE NobodyTimesOut'
    BY DEF NobodyTimesOut, lockVars
  <2>1. ASSUME NEW q \in Callers, Attempt(q), lock.ttl > 0 PROVE left[q] > 0
    <3> DEFINE n == Cardinality(Ahead(q))  c == Cardinality(Callers)
    <3>1. n \in Nat /\ c \in Nat /\ n <= c - 1 /\ c - 1 \in Nat
      <4>1. IsFiniteSet(Callers \ {q}) /\ Cardinality(Callers \ {q}) = c - 1
        BY LockShape, FS_RemoveElement
      <4>2. n <= Cardinality(Callers \ {q})
        BY <4>1, FS_Subset DEF Ahead
      <4> QED BY <4>1, <4>2, LockShape, AheadCounts, FS_CardinalityType
    <3>2. Turn * n <= Turn * (c - 1) /\ Turn * n \in Nat
      BY <3>1, TurnsAddUp
    <3>3. (c - 1) * Turn = Turn * (c - 1)
      BY <3>1, TurnsAddUp
    <3>4. (c - 1) * Turn <= AcquireTimeout + MaxPause
      BY DEF FewCallers
    <3>5. AcquireTimeout + Owed(q) <= left[q] + Turn * n
      BY <2>1 DEF WaitIsShared, Waits, InTime, Attempt
    <3>6. Owed(q) > MaxPause /\ Owed(q) \in Nat
      BY <2>1, LockBounds DEF Owed, LockTypeOK
    <3>7. left[q] \in Nat /\ Turn * (c - 1) \in Nat
      BY <3>1, TurnsAddUp DEF LockTypeOK
    <3> HIDE DEF n, c
    <3> QED BY <3>2, <3>3, <3>4, <3>5, <3>6, <3>7, LockBounds
  <2>2. ASSUME NEW q \in Callers, Attempt(q) PROVE outcome' = outcome
    BY <2>1, <2>2 DEF Attempt, Busy
  <2>3. ASSUME NEW q \in Callers, Step(q) PROVE NobodyTimesOut'
    <3>1. outcome' = outcome \/ \E o \in {"applied", "rejected"} : outcome' = [outcome EXCEPT ![q] = o]
      BY <2>2, <2>3 DEF Step, Call, WakeUp, ReadRecord, WriteRecord, CheckToken,
                        DeleteKey, Die,
         Result
    <3> QED BY <3>1 DEF NobodyTimesOut, LockTypeOK
  <2>4. CASE Tick
    BY <2>4 DEF Tick, NobodyTimesOut
  <2> QED BY <2>3, <2>4 DEF Next
<1> QED BY <1>1, <1>2, WaitsInductive, PTL DEF Spec

----------------------------------------------------------------------------
(* A sound lock                                                            *)

\* Whoever holds the lock gives it back, or dies, before the key expires.
Sound == MaxHold < LockTTL
HolderInv == LockTypeOK /\ HoldersOwn

LEMMA InitLock == Init => HolderInv
  BY LockShape DEF Init, HolderInv, HoldersOwn, LockTypeOK, Free, Inside, Labels, Results

\* Taking the lock: nobody else is inside, for the key would still be alive.
LEMMA TakeLockKeeps ==
  ASSUME HolderInv, Sound, NEW p \in Callers, Attempt(p)
  PROVE  HolderInv'
<1> USE LockShape, LockBounds DEF HolderInv, HoldersOwn, LockTypeOK, Sound, Move, Result, Inside
<1>1. CASE lock.ttl > 0
  <2>1. lock' = lock /\ held' = held /\ record' = record /\ copy' = copy /\ left' = left
    BY <1>1 DEF Attempt, Busy
  <2>2. \/ pc' = [pc EXCEPT ![p] = "returned"] /\ outcome' = [outcome EXCEPT ![p] = "timeout"]
             /\ pause' = pause
        \/ /\ pc' = [pc EXCEPT ![p] = "asleep"] /\ outcome' = outcome
           /\ \E t \in 1..MaxPause : pause' = [pause EXCEPT ![p] = t]
    BY <1>1 DEF Attempt, Busy
  <2>3. pc[p] = "trying"
    BY DEF Attempt
  <2>4. pause' \in [Callers -> Nat]
    BY <2>2
  <2> QED BY <1>1, <2>1, <2>2, <2>3, <2>4 DEF Labels, Results, Free
<1>2. CASE ~(lock.ttl > 0)
  <2>1. \A q \in Callers : pc[q] \notin Inside
    BY <1>2
  <2>2. lock' = [owner |-> p, ttl |-> LockTTL] /\ held' = [held EXCEPT ![p] = 0]
    BY <1>2 DEF Attempt, TakeLock
  <2>3. pc' = [pc EXCEPT ![p] = "locked"] /\ pc[p] = "trying"
    BY <1>2 DEF Attempt, TakeLock
  <2>4. UNCHANGED <<record, copy, left, pause, outcome>>
    BY <1>2 DEF Attempt
  <2> QED BY <2>1, <2>2, <2>3, <2>4 DEF Labels
<1> QED BY <1>1, <1>2

LEMMA TickKeeps ==
  ASSUME HolderInv, Sound, Tick
  PROVE  HolderInv'
<1> USE LockShape, LockBounds DEF HolderInv, HoldersOwn, LockTypeOK, Sound
<1>1. \A p \in Callers : pc[p] \in Inside => held[p] < MaxHold /\ lock.ttl > 1
  BY DEF Tick
<1>2. LockTypeOK'
  BY DEF Tick, Free, Less
<1>3. ASSUME NEW p \in Callers, pc[p] \in Inside
      PROVE  lock'.owner = p /\ held'[p] <= MaxHold /\ lock'.ttl + held'[p] = LockTTL
  <2>1. lock' = [lock EXCEPT !.ttl = lock.ttl - 1] /\ held'[p] = held[p] + 1
    BY <1>1, <1>3 DEF Tick
  <2> QED BY <1>1, <1>3, <2>1
<1>4. lock' = Free \/ (lock'.ttl > 0 /\ lock'.owner = lock.owner)
  <2>1. CASE lock.ttl <= 1
    BY <2>1 DEF Tick
  <2>2. CASE lock.ttl > 1
    <3>1. lock' = [lock EXCEPT !.ttl = lock.ttl - 1]
      BY <2>2 DEF Tick
    <3> QED BY <2>2, <3>1
  <2> QED BY <2>1, <2>2
<1> QED BY <1>2, <1>3, <1>4 DEF Tick, Free

LEMMA StepKeeps ==
  ASSUME HolderInv, Sound, NEW p \in Callers, Step(p)
  PROVE  HolderInv'
<1> USE DEF HolderInv, HoldersOwn, LockTypeOK, Move, Result, Inside, Labels, Results
<1>1. CASE Call(p)
  BY <1>1, LockBounds DEF Call
<1>2. CASE Attempt(p)
  BY <1>2, TakeLockKeeps
<1>3. CASE WakeUp(p)
  BY <1>3 DEF WakeUp
<1>4. CASE ReadRecord(p)
  BY <1>4 DEF ReadRecord
\* The writer is alone inside, so no other copy goes stale.
<1>5. CASE WriteRecord(p)
  <2>1. \A q \in Callers : pc[q] = "read" => q = p
    BY <1>5 DEF WriteRecord
  <2>2. record' \subseteq Callers
    BY <1>5 DEF WriteRecord
  <2> QED BY <1>5, <2>1, <2>2 DEF WriteRecord
<1>6. CASE CheckToken(p)
  BY <1>6 DEF CheckToken, Free
<1>7. CASE DeleteKey(p)
  <2>1. \A q \in Callers : pc[q] \in Inside => q = p
    BY <1>7 DEF DeleteKey
  <2> QED BY <1>7, <2>1, LockShape DEF DeleteKey, Free
<1>8. CASE Die(p)
  BY <1>8 DEF Die
<1> QED BY <1>1, <1>2, <1>3, <1>4, <1>5, <1>6, <1>7, <1>8 DEF Step

\* The invariant of a sound lock is inductive.
THEOREM LockInductive == ASSUME Sound PROVE Spec => []LockInv
<1>1. HolderInv /\ [Next]_lockVars => HolderInv'
  <2> SUFFICES ASSUME HolderInv, [Next]_lockVars PROVE HolderInv'
    OBVIOUS
  <2>1. CASE UNCHANGED lockVars
    BY <2>1 DEF lockVars, HolderInv, HoldersOwn, LockTypeOK
  <2> QED BY <2>1, StepKeeps, TickKeeps DEF Next
<1>2. HolderInv /\ WaitIsShared => LockInv
  BY DEF HolderInv, LockInv
<1> QED BY <1>1, <1>2, InitLock, WaitsInductive, PTL DEF Spec

\* No two callers are ever between taking and giving back the lock (lock.ts:54-78).
THEOREM LockIsExclusive == ASSUME Sound PROVE Spec => []MutualExclusion
<1>1. LockInv => MutualExclusion
  BY DEF LockInv, HoldersOwn, MutualExclusion
<1> QED BY <1>1, LockInductive, PTL

\* Nobody leaves the record locked behind: once every caller has returned there is no key
\* (lock.ts:66-78). A caller that dies leaves its key for the rest of its life.
THEOREM LockIsGivenBack == ASSUME Sound PROVE Spec => []KeyIsGivenBack
<1>1. LockInv => KeyIsGivenBack
  BY DEF LockInv, HoldersOwn, KeyIsGivenBack, Inside
<1> QED BY <1>1, LockInductive, PTL

\* updateRun is a single step on the record: each update finds the one before it
\* (state-store.ts:212-233).
THEOREM UpdateRunIsAtomic == ASSUME Sound PROVE Spec => UpdatesAreAtomic
<1>1. Init => Atomic!Init
  BY DEF Init, Atomic!Init
<1>2. ASSUME LockInv, [Next]_lockVars
      PROVE  [Atomic!Next]_<<record, outcome>>
  <2>1. CASE UNCHANGED lockVars \/ Tick
    BY <2>1 DEF lockVars, Tick
  <2>2. ASSUME NEW p \in Callers, Step(p)
        PROVE  Atomic!Apply(p) \/ Atomic!Refuse(p) \/ UNCHANGED <<record, outcome>>
    <3> USE DEF LockInv, HoldersOwn, LockTypeOK, Result
    <3>1. CASE WriteRecord(p)
      BY <1>2, <3>1 DEF WriteRecord, Atomic!Apply, Atomic!Refuse
    <3>2. CASE Attempt(p)
      BY <1>2, <3>2 DEF Attempt, Busy, Atomic!Refuse
    <3>3. CASE ~WriteRecord(p) /\ ~Attempt(p)
      BY <2>2, <3>3 DEF Step, Call, WakeUp, ReadRecord, CheckToken, DeleteKey, Die
    <3> QED BY <3>1, <3>2, <3>3
  <2> QED BY <1>2, <2>1, <2>2 DEF Next, Atomic!Next
<1> QED BY <1>1, <1>2, LockInductive, PTL DEF Spec, UpdatesAreAtomic, Atomic!Spec

\* No update is lost, undone or applied for somebody who was told otherwise: while the
\* record is locked, whatever was read is extended by the writer alone.
THEOREM NoneOverwritten == ASSUME Sound PROVE Spec => []NoUpdateLost
<1> DEFINE Inv == outcome \in [Callers -> Results] /\ NoUpdateLost
<1>1. Atomic!Init => Inv
  BY DEF Atomic!Init, NoUpdateLost, Results
<1>2. Inv /\ [Atomic!Next]_<<record, outcome>> => Inv'
  BY DEF NoUpdateLost, Results, Atomic!Next, Atomic!Apply, Atomic!Refuse
<1>3. Inv => NoUpdateLost
  OBVIOUS
<1> HIDE DEF Inv
<1> QED BY <1>1, <1>2, <1>3, UpdateRunIsAtomic, PTL DEF UpdatesAreAtomic, Atomic!Spec
=============================================================================
