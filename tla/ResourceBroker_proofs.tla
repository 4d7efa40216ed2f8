------------------------ MODULE ResourceBroker_proofs ------------------------
(***************************************************************************)
(* For every number of requests, users, resources and slots, and whatever  *)
(* is unregistered or shut down meanwhile: the runs of executeItem hold    *)
(* their slots and stay within the limit, and no attempt has two           *)
(* executors.  With one priority no request is lost or begun twice, and    *)
(* the broker implements CallService.                                      *)
(***************************************************************************)
EXTENDS ResourceBroker, TLAPS, FiniteSetTheorems, SequenceTheorems

USE BrokerAssumption

(***************************************************************************)
(* The queue                                                               *)
(***************************************************************************)
\* What is left of a sequence behind its first n items, and the first n items.
LEMMA Behind ==
  ASSUME NEW S, NEW q \in Seq(S), NEW n \in 0..Len(q)
  PROVE  /\ SubSeq(q, n + 1, Len(q)) \in Seq(S)
         /\ Len(SubSeq(q, n + 1, Len(q))) = Len(q) - n
         /\ \A i \in 1..(Len(q) - n) : SubSeq(q, n + 1, Len(q))[i] = q[n + i]
<1>1. Len(q) \in Nat /\ \A i \in 1..Len(q) : q[i] \in S
  BY LenProperties, ElementOfSeq
<1>2. \A i \in (n + 1)..Len(q) : q[i] \in S
  BY <1>1
<1>3. /\ SubSeq(q, n + 1, Len(q)) \in Seq(S)
      /\ Len(SubSeq(q, n + 1, Len(q)))
           = IF n + 1 <= Len(q) THEN Len(q) - (n + 1) + 1 ELSE 0
      /\ \A i \in 1..(Len(q) - (n + 1) + 1) :
           SubSeq(q, n + 1, Len(q))[i] = q[(n + 1) + i - 1]
  BY <1>1, <1>2, SubSeqProperties
<1> QED BY <1>1, <1>3

LEMMA InFront ==
  ASSUME NEW S, NEW q \in Seq(S), NEW n \in 0..Len(q)
  PROVE  /\ SubSeq(q, 1, n) \in Seq(S)
         /\ Len(SubSeq(q, 1, n)) = n
         /\ \A i \in 1..n : SubSeq(q, 1, n)[i] = q[i]
<1>1. Len(q) \in Nat /\ \A i \in 1..Len(q) : q[i] \in S
  BY LenProperties, ElementOfSeq
<1>2. \A i \in 1..n : q[i] \in S
  BY <1>1
<1>3. /\ SubSeq(q, 1, n) \in Seq(S)
      /\ Len(SubSeq(q, 1, n)) = IF 1 <= n THEN n - 1 + 1 ELSE 0
      /\ \A i \in 1..(n - 1 + 1) : SubSeq(q, 1, n)[i] = q[1 + i - 1]
  BY <1>1, <1>2, SubSeqProperties
<1> QED BY <1>1, <1>3

\* No more of the first n numbers are in a set of them than there are.
LEMMA CountBound ==
  ASSUME NEW n \in Nat, NEW T \in SUBSET (1..n)
  PROVE  Cardinality(T) \in 0..n
<1>1. IsFiniteSet(1..n) /\ Cardinality(1..n) = n
  BY FS_Interval
<1>2. IsFiniteSet(T) /\ Cardinality(T) <= n
  BY <1>1, FS_Subset
<1> QED BY <1>2, FS_CardinalityType

LEMMA GoneBound == ASSUME NEW q \in Seq(Calls) PROVE Gone(q) \in 0..Len(q)
<1>1. Len(q) \in Nat
  BY LenProperties
<1> QED BY <1>1, CountBound DEF Gone

LEMMA InsertTyped ==
  ASSUME queue \in Seq(Calls), NEW r \in Calls
  PROVE  Insert(r) \in Seq(Calls)
<1>1. Before(r) \in 0..Len(queue)
  BY LenProperties, CountBound DEF Before
<1>2. SubSeq(queue, 1, Before(r)) \in Seq(Calls)
      /\ SubSeq(queue, Before(r) + 1, Len(queue)) \in Seq(Calls)
  BY <1>1, InFront, Behind
<1>3. <<r>> \in Seq(Calls)
  OBVIOUS
<1> QED BY <1>2, <1>3, ConcatProperties DEF Insert

\* With one priority it is the end of the queue.
LEMMA InsertLast ==
  ASSUME queue \in Seq(Calls), NEW r \in Calls, OnePriority
  PROVE  /\ Insert(r) \in Seq(Calls) /\ Len(Insert(r)) = Len(queue) + 1
         /\ \A i \in 1..Len(queue) : Insert(r)[i] = queue[i]
         /\ Insert(r)[Len(queue) + 1] = r
<1>1. Len(queue) \in Nat /\ \A i \in 1..Len(queue) : queue[i] \in Calls
  BY LenProperties, ElementOfSeq
<1>2. {i \in 1..Len(queue) : Level[queue[i]] <= Level[r]} = 1..Len(queue)
  BY <1>1 DEF OnePriority
<1>3. Before(r) = Len(queue)
  <2>1. Cardinality(1..Len(queue)) = IF 1 > Len(queue) THEN 0 ELSE Len(queue) - 1 + 1
    BY <1>1, FS_Interval
  <2>2. Before(r) = Cardinality(1..Len(queue))
    BY <1>2, Zenon DEF Before
  <2> QED BY <1>1, <2>1, <2>2
<1>4. SubSeq(queue, 1, Before(r)) = queue
  BY <1>3, SubSeqFull
<1>5. SubSeq(queue, Before(r) + 1, Len(queue)) = <<>>
  BY <1>1, <1>3, SubSeqEmpty
<1>6. <<r>> \in Seq(Calls) /\ Len(<<r>>) = 1 /\ <<r>>[1] = r
  OBVIOUS
<1>7. queue \o <<r>> \in Seq(Calls)
  BY <1>6, ConcatProperties
<1>8. Insert(r) = queue \o <<r>>
  BY <1>4, <1>5, <1>7, ConcatEmptySeq DEF Insert
<1>9. Len(queue \o <<r>>) = Len(queue) + 1
      /\ \A i \in 1..(Len(queue) + 1) :
           (queue \o <<r>>)[i] = IF i <= Len(queue) THEN queue[i] ELSE <<r>>[i - Len(queue)]
  BY <1>6, ConcatProperties
<1> QED BY <1>1, <1>6, <1>7, <1>8, <1>9

\* A turn of the loop: the first n items are rejected, and it holds the next or nothing.
LEMMA LoopDoes ==
  ASSUME NEW q \in Seq(Calls), NEW told, Loop(q, told)
  PROVE  \E n \in 0..Len(q) :
           /\ queue' = SubSeq(q, n + 1, Len(q))
           /\ answer' = [r \in Calls |-> IF \E i \in 1..n : q[i] = r THEN "rejected" ELSE told[r]]
           /\ \/ hand' = None /\ UNCHANGED limits
              \/ /\ n < Len(q) /\ ~closing
                 /\ hand' = [item |-> q[n + 1], allowed |-> Free(Resource[q[n + 1]])]
                 /\ IF Free(Resource[q[n + 1]]) THEN Reserve(Resource[q[n + 1]])
                    ELSE UNCHANGED limits
<1>1. Len(q) \in Nat /\ Gone(q) \in 0..Len(q)
  BY LenProperties, GoneBound
<1>2. CASE closing
  <2>1. SubSeq(q, 0 + 1, Len(q)) = q
    BY SubSeqFull
  <2>2. queue' = q /\ hand' = None /\ UNCHANGED limits /\ answer' = [r \in Calls |-> told[r]]
    BY <1>2 DEF Loop
  <2> QED BY <1>1, <2>1, <2>2
<1>3. CASE ~closing /\ Gone(q) = Len(q)
  <2>1. SubSeq(q, Len(q) + 1, Len(q)) = <<>>
    BY <1>1, SubSeqEmpty
  <2> QED BY <1>1, <1>3, <2>1 DEF Loop
<1>4. CASE ~closing /\ Gone(q) # Len(q)
  <2> DEFINE n == Gone(q)
  <2>1. n \in 0..Len(q) /\ n < Len(q)
    BY <1>1, <1>4
  <2>2. /\ queue' = SubSeq(q, n + 1, Len(q))
        /\ answer' = [r \in Calls |-> IF \E i \in 1..n : q[i] = r THEN "rejected" ELSE told[r]]
        /\ hand' = [item |-> q[n + 1], allowed |-> Free(Resource[q[n + 1]])]
        /\ IF Free(Resource[q[n + 1]]) THEN Reserve(Resource[q[n + 1]]) ELSE UNCHANGED limits
    BY <1>4 DEF Loop
  <2> HIDE DEF n
  <2> QED BY <1>4, <2>1, <2>2
<1> QED BY <1>2, <1>3, <1>4

(***************************************************************************)
(* The limiter                                                             *)
(***************************************************************************)
LEMMA ReserveTyped ==
  ASSUME TypeOK, NEW s \in Resources, Free(s), Reserve(s)
  PROVE  /\ active' \in [Resources -> 0..Slots] /\ used' \in [Resources -> 0..Rate]
         /\ \A t \in Resources : active'[t] = IF t = s THEN active[t] + 1 ELSE active[t]
<1>1. active[s] + 1 \in 0..Slots /\ used[s] + 1 \in 0..Rate
  BY DEF TypeOK, Free
<1> QED BY <1>1 DEF TypeOK, Reserve

LEMMA ReleaseTyped ==
  ASSUME TypeOK, NEW s \in Resources, Release(s)
  PROVE  /\ active' \in [Resources -> 0..Slots]
         /\ \A t \in Resources :
              active'[t] = IF t = s /\ active[t] > 0 THEN active[t] - 1 ELSE active[t]
<1>1. active[s] > 0 => active[s] - 1 \in 0..Slots
  BY DEF TypeOK
<1> QED BY <1>1 DEF TypeOK, Release

\* What the loop is promised when it looks at an item is reserved for it.
LEMMA LookReserves ==
  ASSUME TypeOK, NEW c \in Calls, hand' = [item |-> c, allowed |-> Free(Resource[c])],
         IF Free(Resource[c]) THEN Reserve(Resource[c]) ELSE UNCHANGED limits
  PROVE  /\ hand' \in [item : Calls, allowed : BOOLEAN]
         /\ active' \in [Resources -> 0..Slots] /\ used' \in [Resources -> 0..Rate]
         /\ \A s \in Resources : active'[s] = active[s] + Promised(s)'
<1>1. Resource[c] \in Resources /\ Free(Resource[c]) \in BOOLEAN
  BY DEF Free
<1>2. hand' \in [item : Calls, allowed : BOOLEAN] /\ hand' # None
  BY <1>1
<1>3. CASE Free(Resource[c])
  <2>1. \A s \in Resources : Promised(s)' = IF Resource[c] = s THEN 1 ELSE 0
    BY <1>2, <1>3 DEF Promised
  <2>2. /\ active' \in [Resources -> 0..Slots] /\ used' \in [Resources -> 0..Rate]
        /\ \A t \in Resources :
             active'[t] = IF t = Resource[c] THEN active[t] + 1 ELSE active[t]
    BY <1>1, <1>3, ReserveTyped
  <2>3. \A s \in Resources : active[s] \in Nat
    BY DEF TypeOK
  <2> QED BY <1>2, <2>1, <2>2, <2>3
<1>4. CASE ~Free(Resource[c])
  <2>1. \A s \in Resources : Promised(s)' = 0
    BY <1>4 DEF Promised
  <2>2. active' = active /\ used' = used
    BY <1>4 DEF limits
  <2> QED BY <1>2, <2>1, <2>2 DEF TypeOK
<1> QED BY <1>3, <1>4

\* A turn of the loop reserves what it is promised.
LEMMA LoopTyped ==
  ASSUME TypeOK, NEW q \in Seq(Calls), NEW told \in [Calls -> Answers \cup {"new", "open"}],
         Loop(q, told)
  PROVE  /\ queue' \in Seq(Calls)
         /\ hand' = None \/ (hand' \in [item : Calls, allowed : BOOLEAN])
         /\ active' \in [Resources -> 0..Slots] /\ used' \in [Resources -> 0..Rate]
         /\ answer' \in [Calls -> Answers \cup {"new", "open"}]
         /\ \A s \in Resources : active'[s] = active[s] + Promised(s)'
<1>1. PICK n \in 0..Len(q) :
           /\ queue' = SubSeq(q, n + 1, Len(q))
           /\ answer' = [r \in Calls |-> IF \E i \in 1..n : q[i] = r THEN "rejected" ELSE told[r]]
           /\ \/ hand' = None /\ UNCHANGED limits
              \/ /\ n < Len(q) /\ ~closing
                 /\ hand' = [item |-> q[n + 1], allowed |-> Free(Resource[q[n + 1]])]
                 /\ IF Free(Resource[q[n + 1]]) THEN Reserve(Resource[q[n + 1]])
                    ELSE UNCHANGED limits
  BY LoopDoes
<1>2. queue' \in Seq(Calls)
  BY <1>1, Behind
<1>3. answer' \in [Calls -> Answers \cup {"new", "open"}]
  BY <1>1 DEF Answers
<1>4. CASE hand' = None /\ UNCHANGED limits
  <2>1. \A s \in Resources : Promised(s)' = 0
    BY <1>4 DEF Promised
  <2> QED BY <1>2, <1>3, <1>4, <2>1 DEF TypeOK, limits
<1>5. CASE /\ n < Len(q) /\ ~closing
           /\ hand' = [item |-> q[n + 1], allowed |-> Free(Resource[q[n + 1]])]
           /\ IF Free(Resource[q[n + 1]]) THEN Reserve(Resource[q[n + 1]])
              ELSE UNCHANGED limits
  <2>1. q[n + 1] \in Calls
    <3>1. n + 1 \in 1..Len(q)
      BY <1>5, LenProperties
    <3> QED BY <3>1, ElementOfSeq
  <2> QED BY <1>2, <1>3, <1>5, <2>1, LookReserves
<1> QED BY <1>1, <1>4, <1>5

(***************************************************************************)
(* What is under way                                                       *)
(***************************************************************************)
LEMMA WorkingFinite ==
  ASSUME IsFiniteSet(exec), NEW s
  PROVE  IsFiniteSet(Working(s)) /\ Cardinality(Working(s)) \in Nat
<1>1. Working(s) \subseteq exec
  BY DEF Working
<1> QED BY <1>1, FS_Subset, FS_CardinalityType

LEMMA HoldingFinite ==
  ASSUME NEW s
  PROVE  IsFiniteSet(Holding(s)) /\ Cardinality(Holding(s)) \in Nat
<1>1. Holding(s) \subseteq Users
  BY DEF Holding
<1> QED BY <1>1, FS_Subset, FS_CardinalityType

LEMMA RunBegins ==
  ASSUME IsFiniteSet(exec), NEW f, exec' = exec \cup {f}, NEW s
  PROVE  /\ IsFiniteSet(exec') /\ Cardinality(Working(s))' \in Nat
         /\ Cardinality(Working(s))'
              <= Cardinality(Working(s)) + (IF Resource[f.call] = s THEN 1 ELSE 0)
<1>1. IsFiniteSet(exec')
  BY FS_AddElement
<1>2. CASE Resource[f.call] = s
  <2>1. Working(s)' = Working(s) \cup {f}
    BY <1>2 DEF Working
  <2>2. Cardinality(Working(s) \cup {f})
          = IF f \in Working(s) THEN Cardinality(Working(s)) ELSE Cardinality(Working(s)) + 1
    BY WorkingFinite, FS_AddElement
  <2> QED BY <1>1, <1>2, <2>1, <2>2, WorkingFinite
<1>3. CASE Resource[f.call] # s
  <2>1. Working(s)' = Working(s)
    BY <1>3 DEF Working
  <2> QED BY <1>1, <1>3, <2>1, WorkingFinite
<1> QED BY <1>2, <1>3

LEMMA RunEnds ==
  ASSUME IsFiniteSet(exec), NEW e \in exec, exec' = exec \ {e}, NEW s
  PROVE  /\ IsFiniteSet(exec') /\ Cardinality(Working(s))' \in Nat
         /\ Cardinality(Working(s))'
              = Cardinality(Working(s)) - (IF Resource[e.call] = s THEN 1 ELSE 0)
<1>1. IsFiniteSet(exec')
  BY FS_RemoveElement
<1>2. CASE Resource[e.call] = s
  <2>1. Working(s)' = Working(s) \ {e} /\ e \in Working(s)
    BY <1>2 DEF Working
  <2>2. /\ IsFiniteSet(Working(s) \ {e})
        /\ Cardinality(Working(s) \ {e}) = Cardinality(Working(s)) - 1
    BY <2>1, WorkingFinite, FS_RemoveElement
  <2>3. Cardinality(Working(s) \ {e}) \in Nat
    BY <2>2, FS_CardinalityType
  <2> QED BY <1>1, <1>2, <2>1, <2>2, <2>3
<1>3. CASE Resource[e.call] # s
  <2>1. Working(s)' = Working(s)
    BY <1>3 DEF Working
  <2> QED BY <1>1, <1>3, <2>1, WorkingFinite
<1> QED BY <1>2, <1>3

LEMMA RunGoesOn ==
  ASSUME IsFiniteSet(exec), NEW e \in exec, NEW f, f.call = e.call,
         exec' = (exec \ {e}) \cup {f}, NEW s
  PROVE  /\ IsFiniteSet(exec') /\ Cardinality(Working(s))' \in Nat
         /\ Cardinality(Working(s))' <= Cardinality(Working(s))
<1>1. IsFiniteSet(exec')
  BY FS_RemoveElement, FS_AddElement
<1>2. CASE Resource[e.call] = s
  <2>1. Working(s)' = (Working(s) \ {e}) \cup {f} /\ e \in Working(s)
    BY <1>2 DEF Working
  <2>2. /\ IsFiniteSet(Working(s) \ {e})
        /\ Cardinality(Working(s) \ {e}) = Cardinality(Working(s)) - 1
    BY <2>1, WorkingFinite, FS_RemoveElement
  <2>3. Cardinality((Working(s) \ {e}) \cup {f})
          = IF f \in Working(s) \ {e} THEN Cardinality(Working(s) \ {e})
            ELSE Cardinality(Working(s) \ {e}) + 1
    BY <2>2, FS_AddElement
  <2>4. Cardinality(Working(s) \ {e}) \in Nat /\ Cardinality(Working(s)) \in Nat
    BY <2>2, WorkingFinite, FS_CardinalityType
  <2> QED BY <1>1, <2>1, <2>2, <2>3, <2>4
<1>3. CASE Resource[e.call] # s
  <2>1. Working(s)' = Working(s)
    BY <1>3 DEF Working
  <2> QED BY <1>1, <2>1, WorkingFinite
<1> QED BY <1>2, <1>3

LEMMA UserTakes ==
  ASSUME user \in [Users -> {"new", "holding", "released", "denied"}], NEW u \in Users,
         user' = [user EXCEPT ![u] = "holding"], NEW s
  PROVE  /\ Cardinality(Holding(s))' \in Nat
         /\ Cardinality(Holding(s))'
              <= Cardinality(Holding(s)) + (IF Resource[u] = s THEN 1 ELSE 0)
<1>1. CASE Resource[u] = s
  <2>1. Holding(s)' = Holding(s) \cup {u}
    BY <1>1 DEF Holding
  <2>2. Cardinality(Holding(s) \cup {u})
          = IF u \in Holding(s) THEN Cardinality(Holding(s)) ELSE Cardinality(Holding(s)) + 1
    BY HoldingFinite, FS_AddElement
  <2> QED BY <1>1, <2>1, <2>2, HoldingFinite
<1>2. CASE Resource[u] # s
  <2>1. Holding(s)' = Holding(s)
    BY <1>2 DEF Holding
  <2> QED BY <1>2, <2>1, HoldingFinite
<1> QED BY <1>1, <1>2

\* A user who does not hold any more, whether it held or not.
LEMMA UserLets ==
  ASSUME user \in [Users -> {"new", "holding", "released", "denied"}], NEW u \in Users,
         NEW state, state # "holding", user' = [user EXCEPT ![u] = state], NEW s
  PROVE  /\ Cardinality(Holding(s))' \in Nat
         /\ Cardinality(Holding(s))' = Cardinality(Holding(s))
              - (IF user[u] = "holding" /\ Resource[u] = s THEN 1 ELSE 0)
<1>1. CASE user[u] = "holding" /\ Resource[u] = s
  <2>1. Holding(s)' = Holding(s) \ {u} /\ u \in Holding(s)
    BY <1>1 DEF Holding
  <2>2. /\ IsFiniteSet(Holding(s) \ {u})
        /\ Cardinality(Holding(s) \ {u}) = Cardinality(Holding(s)) - 1
    BY <2>1, HoldingFinite, FS_RemoveElement
  <2>3. Cardinality(Holding(s) \ {u}) \in Nat
    BY <2>2, FS_CardinalityType
  <2> QED BY <1>1, <2>1, <2>2, <2>3
<1>2. CASE ~(user[u] = "holding" /\ Resource[u] = s)
  <2>1. Holding(s)' = Holding(s)
    BY <1>2 DEF Holding
  <2> QED BY <1>2, <2>1, HoldingFinite
<1> QED BY <1>1, <1>2

(***************************************************************************)
(* Whatever the priorities                                                 *)
(***************************************************************************)
LimitedInv == TypeOK /\ RunsOK /\ RunsHoldSlots

\* What RunsHoldSlots says, in numbers.
LEMMA InNumbers ==
  ASSUME LimitedInv, NEW s \in Resources
  PROVE  /\ Cardinality(Working(s)) \in Nat /\ Cardinality(Holding(s)) \in Nat
         /\ Promised(s) \in {0, 1} /\ active[s] \in 0..Slots
         /\ Cardinality(Working(s)) + Cardinality(Holding(s)) + Promised(s) <= active[s]
  BY WorkingFinite, HoldingFinite DEF LimitedInv, TypeOK, RunsOK, RunsHoldSlots, Promised

LEMMA HandTyped ==
  ASSUME TypeOK, hand # None
  PROVE  hand.item \in Calls /\ hand.allowed \in BOOLEAN
  BY DEF TypeOK

LEMMA EnqueueLimited ==
  ASSUME LimitedInv, NEW r \in Calls, EnqueueRefused(r) \/ Enqueue(r)
  PROVE  LimitedInv'
<1> USE DEF LimitedInv
<1>1. UNCHANGED <<exec, stray, user, starts, registered, closing>>
  BY DEF EnqueueRefused, Enqueue
<1>2. RunsOK'
  BY <1>1 DEF RunsOK
<1>3. \A s : Working(s)' = Working(s) /\ Holding(s)' = Holding(s)
  BY <1>1 DEF Working, Holding
<1>4. CASE /\ UNCHANGED <<hand, limits>>
           /\ queue' \in Seq(Calls)
           /\ answer' \in [Calls -> Answers \cup {"new", "open"}]
  <2>1. TypeOK'
    BY <1>1, <1>4 DEF TypeOK, limits
  <2>2. \A s : Promised(s)' = Promised(s)
    BY <1>4 DEF Promised
  <2>3. RunsHoldSlots'
    BY <1>3, <1>4, <2>2 DEF RunsHoldSlots, limits
  <2> QED BY <1>2, <2>1, <2>3
<1>5. CASE EnqueueRefused(r)
  BY <1>4, <1>5 DEF EnqueueRefused, TypeOK, Answers
<1>6. CASE Enqueue(r)
  <2> DEFINE told == [answer EXCEPT ![r] = "open"]
  <2>1. told \in [Calls -> Answers \cup {"new", "open"}] /\ Insert(r) \in Seq(Calls)
    BY InsertTyped DEF TypeOK
  <2>2. CASE hand # None
    BY <1>4, <1>6, <2>1, <2>2 DEF Enqueue
  <2>3. CASE hand = None
    <3>1. Loop(Insert(r), told)
      BY <1>6, <2>3 DEF Enqueue
    <3> HIDE DEF told
    <3>2. /\ queue' \in Seq(Calls)
          /\ hand' = None \/ (hand' \in [item : Calls, allowed : BOOLEAN])
          /\ active' \in [Resources -> 0..Slots] /\ used' \in [Resources -> 0..Rate]
          /\ answer' \in [Calls -> Answers \cup {"new", "open"}]
          /\ \A s \in Resources : active'[s] = active[s] + Promised(s)'
      BY <2>1, <3>1, LoopTyped
    <3>3. TypeOK'
      BY <1>1, <3>2 DEF TypeOK
    <3>4. RunsHoldSlots'
      <4> SUFFICES ASSUME NEW s \in Resources
                   PROVE  /\ Cardinality(Working(s)) + Cardinality(Holding(s)) + Promised(s)'
                                <= active'[s]
                          /\ active'[s] <= Slots
        BY <1>3 DEF RunsHoldSlots
      <4>1. Promised(s) = 0
        BY <2>3 DEF Promised
      <4>2. Promised(s)' \in {0, 1}
        BY DEF Promised
      <4>3. /\ Cardinality(Working(s)) \in Nat /\ Cardinality(Holding(s)) \in Nat
            /\ Cardinality(Working(s)) + Cardinality(Holding(s)) + Promised(s) <= active[s]
            /\ active'[s] \in 0..Slots /\ active'[s] = active[s] + Promised(s)'
        BY <3>2, InNumbers
      <4>4. active[s] \in Nat
        BY DEF TypeOK
      <4> QED BY <4>1, <4>2, <4>3, <4>4
    <3> QED BY <1>2, <3>3, <3>4
  <2> QED BY <2>2, <2>3
<1> QED BY <1>5, <1>6

LEMMA LoopLimited ==
  ASSUME LimitedInv, Granted \/ Denied
  PROVE  LimitedInv'
<1> USE DEF LimitedInv
<1>1. UNCHANGED <<stray, user, registered, closing>> /\ hand # None
  BY DEF Granted, Denied
<1>2. \A s : Holding(s)' = Holding(s)
  BY <1>1 DEF Holding
<1>q. (IF queue = <<>> THEN <<>> ELSE Tail(queue)) \in Seq(Calls)
  BY EmptySeq, HeadTailProperties DEF TypeOK
<1>3. PICK q \in Seq(Calls) : Loop(q, answer)
  BY <1>q DEF Granted, Denied, TypeOK
<1>4. /\ queue' \in Seq(Calls)
      /\ hand' = None \/ (hand' \in [item : Calls, allowed : BOOLEAN])
      /\ active' \in [Resources -> 0..Slots] /\ used' \in [Resources -> 0..Rate]
      /\ answer' \in [Calls -> Answers \cup {"new", "open"}]
      /\ \A s \in Resources : active'[s] = active[s] + Promised(s)'
  <2>1. answer \in [Calls -> Answers \cup {"new", "open"}]
    BY DEF TypeOK
  <2> QED BY <1>3, <2>1, LoopTyped
<1>5. \A s : Promised(s)' \in {0, 1}
  BY DEF Promised
<1>6. CASE Denied
  <2>1. UNCHANGED <<exec, starts>> /\ ~hand.allowed
    BY <1>6 DEF Denied
  <2>2. TypeOK' /\ RunsOK'
    BY <1>1, <1>4, <2>1 DEF TypeOK, RunsOK
  <2>3. RunsHoldSlots'
    <3> SUFFICES ASSUME NEW s \in Resources
                 PROVE  /\ Cardinality(Working(s)) + Cardinality(Holding(s)) + Promised(s)'
                              <= active'[s]
                        /\ active'[s] <= Slots
      BY <1>2, <2>1 DEF RunsHoldSlots, Working
    <3>1. Promised(s) = 0
      BY <2>1 DEF Promised
    <3>2. /\ Cardinality(Working(s)) \in Nat /\ Cardinality(Holding(s)) \in Nat
          /\ Cardinality(Working(s)) + Cardinality(Holding(s)) + Promised(s) <= active[s]
          /\ active'[s] \in 0..Slots /\ active'[s] = active[s] + Promised(s)'
      BY <1>4, InNumbers
    <3>3. active[s] \in Nat
      BY DEF TypeOK
    <3> QED BY <1>5, <3>1, <3>2, <3>3
  <2> QED BY <2>2, <2>3
<1>7. CASE Granted
  <2> DEFINE r == hand.item
             f == [call |-> r, nth |-> starts[r] + 1, attempt |-> 0, phase |-> "running"]
  <2>1. r \in Calls /\ hand.allowed
    BY <1>1, <1>7, HandTyped DEF Granted
  <2>2. starts' = [starts EXCEPT ![r] = starts[r] + 1] /\ exec' = exec \cup {f}
    BY <1>7 DEF Granted
  <2>3. f \in Runs /\ f.call = r /\ f.nth = starts[r] + 1 /\ f.phase = "running"
    BY <2>1 DEF Runs, TypeOK
  <2> HIDE DEF f, r
  <2>4. TypeOK'
    <3>1. exec' \subseteq Runs /\ starts' \in [Calls -> Nat]
      BY <2>1, <2>2, <2>3 DEF TypeOK
    <3> QED BY <1>1, <1>4, <3>1 DEF TypeOK
  <2>5. RunsOK'
    <3>1. IsFiniteSet(exec')
      BY <2>2, FS_AddElement DEF RunsOK
    <3>2. \A c \in Calls : starts[c] \in Nat
              /\ starts'[c] = IF c = r THEN starts[r] + 1 ELSE starts[c]
      BY <2>1, <2>2 DEF TypeOK
    <3>3. \A e \in exec : e.call \in Calls /\ e.nth \in Nat
      BY DEF TypeOK, Runs
    <3>4. ASSUME NEW e \in exec'
          PROVE  /\ 1 <= e.nth /\ e.nth <= starts'[e.call]
                 /\ e.phase = "backoff" => e.attempt < MaxRetries
      <4>1. CASE e = f
        BY <2>1, <2>3, <3>2, <4>1
      <4>2. CASE e \in exec
        <5>1. /\ 1 <= e.nth /\ e.nth <= starts[e.call]
              /\ e.phase = "backoff" => e.attempt < MaxRetries
          BY <4>2 DEF RunsOK
        <5>2. starts[e.call] \in Nat /\ starts'[e.call] \in Nat
              /\ starts[e.call] <= starts'[e.call] /\ e.nth \in Nat
          BY <2>1, <3>2, <3>3, <4>2
        <5> QED BY <5>1, <5>2
      <4> QED BY <2>2, <4>1, <4>2
    <3> QED BY <3>1, <3>4 DEF RunsOK
  <2>6. RunsHoldSlots'
    <3> SUFFICES ASSUME NEW s \in Resources
                 PROVE  /\ Cardinality(Working(s))' + Cardinality(Holding(s)) + Promised(s)'
                              <= active'[s]
                        /\ active'[s] <= Slots
      BY <1>2 DEF RunsHoldSlots
    <3>1. Promised(s) = IF Resource[r] = s THEN 1 ELSE 0
      BY <1>1, <2>1 DEF Promised, r
    <3>2. /\ Cardinality(Working(s))' \in Nat
          /\ Cardinality(Working(s))'
               <= Cardinality(Working(s)) + (IF Resource[r] = s THEN 1 ELSE 0)
      BY <2>2, <2>3, RunBegins DEF RunsOK
    <3>3. /\ Cardinality(Working(s)) \in Nat /\ Cardinality(Holding(s)) \in Nat
          /\ Cardinality(Working(s)) + Cardinality(Holding(s)) + Promised(s) <= active[s]
          /\ active'[s] \in 0..Slots /\ active'[s] = active[s] + Promised(s)'
      BY <1>4, InNumbers
    <3>4. active[s] \in Nat
      BY DEF TypeOK
    <3> QED BY <1>5, <3>1, <3>2, <3>3, <3>4
  <2> QED BY <2>4, <2>5, <2>6
<1> QED BY <1>6, <1>7

\* A run that ends, goes on or waits, and the retry that asks for more.
LEMMA RunLimited ==
  ASSUME LimitedInv, NEW e \in exec,
         Succeed(e) \/ FailForGood(e) \/ FailAgain(e) \/ Retry(e)
  PROVE  LimitedInv'
<1> USE DEF LimitedInv
<1>1. /\ e \in Runs /\ e.call \in Calls /\ Resource[e.call] \in Resources
      /\ e.attempt \in 0..MaxRetries /\ IsFiniteSet(exec)
      /\ 1 <= e.nth /\ e.nth <= starts[e.call]
      /\ e.phase = "backoff" => e.attempt < MaxRetries
  <2>1. e \in Runs /\ IsFiniteSet(exec)
    BY DEF TypeOK, RunsOK
  <2>2. e.call \in Calls /\ e.attempt \in 0..MaxRetries
    BY <2>1 DEF Runs
  <2> QED BY <2>1, <2>2 DEF RunsOK
<1>2. UNCHANGED <<queue, hand, user, starts, registered, closing>>
  BY DEF Succeed, FailForGood, FailAgain, Retry
<1>s. stray' \subseteq Runs
  BY <1>1 DEF Succeed, FailForGood, FailAgain, Retry, TimesOut, TypeOK
<1>3. \A s : Holding(s)' = Holding(s) /\ Promised(s)' = Promised(s)
  BY <1>2 DEF Holding, Promised
<1>4. CASE Succeed(e) \/ FailForGood(e)
  <2>1. exec' = exec \ {e} /\ used' = used /\ Release(Resource[e.call])
    BY <1>4 DEF Succeed, FailForGood
  <2>2. answer' \in [Calls -> Answers \cup {"new", "open"}]
    <3>1. answer \in [Calls -> Answers \cup {"new", "open"}]
      BY DEF TypeOK
    <3>2. \/ answer' = answer \/ answer' = [answer EXCEPT ![e.call] = "done"]
          \/ answer' = [answer EXCEPT ![e.call] = "failed"]
      BY <1>4 DEF Succeed, FailForGood, Answer
    <3>3. "done" \in Answers /\ "failed" \in Answers
      BY DEF Answers
    <3> QED BY <1>1, <3>1, <3>2, <3>3
  <2>3. /\ active' \in [Resources -> 0..Slots]
        /\ \A t \in Resources :
             active'[t] = IF t = Resource[e.call] /\ active[t] > 0 THEN active[t] - 1
                          ELSE active[t]
    BY <1>1, <2>1, ReleaseTyped
  <2>4. TypeOK'
    BY <1>2, <1>s, <2>1, <2>2, <2>3 DEF TypeOK
  <2>5. RunsOK'
    BY <1>1, <1>2, <2>1, FS_RemoveElement DEF RunsOK
  <2>6. RunsHoldSlots'
    <3> SUFFICES ASSUME NEW s \in Resources
                 PROVE  /\ Cardinality(Working(s))' + Cardinality(Holding(s)) + Promised(s)
                              <= active'[s]
                        /\ active'[s] <= Slots
      BY <1>3 DEF RunsHoldSlots
    <3>1. /\ Cardinality(Working(s))' \in Nat
          /\ Cardinality(Working(s))'
               = Cardinality(Working(s)) - (IF Resource[e.call] = s THEN 1 ELSE 0)
      BY <1>1, <2>1, RunEnds
    <3>2. /\ Cardinality(Working(s)) \in Nat /\ Cardinality(Holding(s)) \in Nat
          /\ Promised(s) \in {0, 1} /\ active[s] \in 0..Slots
          /\ Cardinality(Working(s)) + Cardinality(Holding(s)) + Promised(s) <= active[s]
      BY InNumbers
    <3>3. active'[s] \in 0..Slots
      BY <2>3
    <3>4. CASE Resource[e.call] = s
      <4>1. Cardinality(Working(s))' = Cardinality(Working(s)) - 1
        BY <3>1, <3>4
      <4>2. active[s] > 0 /\ active'[s] = active[s] - 1
        BY <2>3, <3>1, <3>2, <3>4, <4>1
      <4> QED BY <3>1, <3>2, <3>3, <4>1, <4>2
    <3>5. CASE Resource[e.call] # s
      <4>1. Cardinality(Working(s))' = Cardinality(Working(s)) /\ active'[s] = active[s]
        BY <2>3, <3>1, <3>2, <3>5
      <4> QED BY <3>2, <3>3, <4>1
    <3> QED BY <3>4, <3>5
  <2> QED BY <2>4, <2>5, <2>6
<1>5. CASE FailAgain(e)
  <2> DEFINE f == [e EXCEPT !.phase = "backoff"]
  <2>1. exec' = (exec \ {e}) \cup {f} /\ UNCHANGED <<limits, answer>> /\ e.attempt < MaxRetries
    BY <1>5 DEF FailAgain
  <2>2. f \in Runs /\ f.call = e.call /\ f.nth = e.nth /\ f.attempt = e.attempt
    BY <1>1 DEF Runs
  <2> HIDE DEF f
  <2>3. TypeOK'
    BY <1>2, <1>s, <2>1, <2>2 DEF TypeOK, limits
  <2>4. RunsOK'
    BY <1>1, <1>2, <2>1, <2>2, FS_RemoveElement, FS_AddElement DEF RunsOK
  <2>5. RunsHoldSlots'
    <3> SUFFICES ASSUME NEW s \in Resources
                 PROVE  /\ Cardinality(Working(s))' + Cardinality(Holding(s)) + Promised(s)
                              <= active[s]
                        /\ active[s] <= Slots
      BY <1>3, <2>1 DEF RunsHoldSlots, limits
    <3>1. /\ Cardinality(Working(s))' \in Nat
          /\ Cardinality(Working(s))' <= Cardinality(Working(s))
      BY <1>1, <2>1, <2>2, RunGoesOn
    <3>2. /\ Cardinality(Working(s)) \in Nat /\ Cardinality(Holding(s)) \in Nat
          /\ Promised(s) \in {0, 1} /\ active[s] \in 0..Slots
          /\ Cardinality(Working(s)) + Cardinality(Holding(s)) + Promised(s) <= active[s]
      BY InNumbers
    <3> QED BY <3>1, <3>2
  <2> QED BY <2>3, <2>4, <2>5
<1>6. CASE Retry(e)
  <2> DEFINE f == [e EXCEPT !.phase = "running", !.attempt = e.attempt + 1]
             r == Resource[e.call]
  <2>1. /\ exec' = (exec \ {e}) \cup {f} /\ UNCHANGED answer /\ e.phase = "backoff"
        /\ IF Free(r) THEN Reserve(r) ELSE UNCHANGED limits
    BY <1>6 DEF Retry
  <2>2. f \in Runs /\ f.call = e.call /\ f.nth = e.nth /\ f.phase = "running"
    <3>1. e.attempt + 1 \in 0..MaxRetries
      BY <1>1, <2>1
    <3> QED BY <1>1, <3>1 DEF Runs
  <2>3. /\ active' \in [Resources -> 0..Slots] /\ used' \in [Resources -> 0..Rate]
        /\ \A t \in Resources : active'[t] \in Nat /\ active[t] <= active'[t]
    <3>1. \A t \in Resources : active[t] \in Nat
      BY DEF TypeOK
    <3>2. CASE Free(r)
      BY <1>1, <2>1, <3>1, <3>2, ReserveTyped
    <3>3. CASE ~Free(r)
      BY <2>1, <3>1, <3>3 DEF limits, TypeOK
    <3> QED BY <3>2, <3>3
  <2> HIDE DEF f, r
  <2>4. TypeOK'
    BY <1>2, <1>s, <2>1, <2>2, <2>3 DEF TypeOK
  <2>5. RunsOK'
    BY <1>1, <1>2, <2>1, <2>2, FS_RemoveElement, FS_AddElement DEF RunsOK
  <2>6. RunsHoldSlots'
    <3> SUFFICES ASSUME NEW s \in Resources
                 PROVE  /\ Cardinality(Working(s))' + Cardinality(Holding(s)) + Promised(s)
                              <= active'[s]
                        /\ active'[s] <= Slots
      BY <1>3 DEF RunsHoldSlots
    <3>1. /\ Cardinality(Working(s))' \in Nat
          /\ Cardinality(Working(s))' <= Cardinality(Working(s))
      BY <1>1, <2>1, <2>2, RunGoesOn
    <3>2. /\ Cardinality(Working(s)) \in Nat /\ Cardinality(Holding(s)) \in Nat
          /\ Promised(s) \in {0, 1} /\ active[s] \in 0..Slots
          /\ Cardinality(Working(s)) + Cardinality(Holding(s)) + Promised(s) <= active[s]
      BY InNumbers
    <3>3. active'[s] \in 0..Slots /\ active[s] <= active'[s]
      BY <2>3
    <3> QED BY <3>1, <3>2, <3>3
  <2> QED BY <2>4, <2>5, <2>6
<1> QED BY <1>4, <1>5, <1>6

LEMMA UserLimited ==
  ASSUME LimitedInv, NEW u \in Users, TryAcquire(u) \/ ReleaseUser(u)
  PROVE  LimitedInv'
<1> USE DEF LimitedInv
<1>0. Resource[u] \in Resources /\ user \in [Users -> {"new", "holding", "released", "denied"}]
      /\ \A t \in Resources : active[t] \in Nat
  BY DEF TypeOK
<1>1. UNCHANGED <<queue, hand, exec, stray, answer, starts, registered, closing>>
  BY DEF TryAcquire, ReleaseUser
<1>2. \A s : Working(s)' = Working(s) /\ Promised(s)' = Promised(s)
  BY <1>1 DEF Working, Promised
<1>3. RunsOK'
  BY <1>1 DEF RunsOK
<1>4. ASSUME active' \in [Resources -> 0..Slots], used' \in [Resources -> 0..Rate],
             user' \in [Users -> {"new", "holding", "released", "denied"}]
      PROVE  TypeOK'
  BY <1>1, <1>4 DEF TypeOK
<1>5. ASSUME NEW s \in Resources
      PROVE  /\ Cardinality(Working(s)) \in Nat /\ Cardinality(Holding(s)) \in Nat
             /\ Promised(s) \in {0, 1} /\ active[s] \in 0..Slots
             /\ Cardinality(Working(s)) + Cardinality(Holding(s)) + Promised(s) <= active[s]
  BY InNumbers
<1>6. ASSUME \A s \in Resources :
                 /\ Cardinality(Working(s)) + Cardinality(Holding(s))' + Promised(s) <= active'[s]
                 /\ active'[s] <= Slots
      PROVE  RunsHoldSlots'
  BY <1>2, <1>6 DEF RunsHoldSlots
<1>7. CASE user[u] = "new" /\ Free(Resource[u]) /\ Reserve(Resource[u])
           /\ user' = [user EXCEPT ![u] = "holding"]
  <2>1. /\ active' \in [Resources -> 0..Slots] /\ used' \in [Resources -> 0..Rate]
        /\ \A t \in Resources :
             active'[t] = IF t = Resource[u] THEN active[t] + 1 ELSE active[t]
    BY <1>0, <1>7, ReserveTyped
  <2>2. TypeOK'
    BY <1>0, <1>4, <1>7, <2>1
  <2>3. ASSUME NEW s \in Resources
        PROVE  /\ Cardinality(Working(s)) + Cardinality(Holding(s))' + Promised(s) <= active'[s]
               /\ active'[s] <= Slots
    <3>1. /\ Cardinality(Holding(s))' \in Nat
          /\ Cardinality(Holding(s))'
               <= Cardinality(Holding(s)) + (IF Resource[u] = s THEN 1 ELSE 0)
      BY <1>0, <1>7, UserTakes
    <3>2. active'[s] \in 0..Slots
          /\ active'[s] = active[s] + (IF Resource[u] = s THEN 1 ELSE 0)
      BY <1>0, <2>1
    <3> QED BY <1>5, <3>1, <3>2
  <2> QED BY <1>3, <1>6, <2>2, <2>3
<1>8. CASE user[u] = "holding" /\ Release(Resource[u]) /\ used' = used
           /\ user' = [user EXCEPT ![u] = "released"]
  <2>1. /\ active' \in [Resources -> 0..Slots]
        /\ \A t \in Resources :
             active'[t] = IF t = Resource[u] /\ active[t] > 0 THEN active[t] - 1
                          ELSE active[t]
    BY <1>0, <1>8, ReleaseTyped
  <2>2. TypeOK'
    <3>1. used' \in [Resources -> 0..Rate]
      BY <1>8 DEF TypeOK
    <3> QED BY <1>0, <1>4, <1>8, <2>1, <3>1
  <2>3. ASSUME NEW s \in Resources
        PROVE  /\ Cardinality(Working(s)) + Cardinality(Holding(s))' + Promised(s) <= active'[s]
               /\ active'[s] <= Slots
    <3>1. /\ Cardinality(Holding(s))' \in Nat
          /\ Cardinality(Holding(s))'
               = Cardinality(Holding(s)) - (IF Resource[u] = s THEN 1 ELSE 0)
      BY <1>0, <1>8, UserLets
    <3>2. active'[s] \in 0..Slots
      BY <2>1
    <3>3. CASE Resource[u] = s
      <4>1. Cardinality(Holding(s))' = Cardinality(Holding(s)) - 1
        BY <3>1, <3>3
      <4>2. active[s] > 0 /\ active'[s] = active[s] - 1
        BY <1>5, <2>1, <3>1, <3>3, <4>1
      <4> QED BY <1>5, <3>1, <3>2, <4>1, <4>2
    <3>4. CASE Resource[u] # s
      <4>1. Cardinality(Holding(s))' = Cardinality(Holding(s)) /\ active'[s] = active[s]
        BY <1>5, <2>1, <3>1, <3>4
      <4> QED BY <1>5, <3>2, <4>1
    <3> QED BY <3>3, <3>4
  <2> QED BY <1>3, <1>6, <2>2, <2>3
<1>9. CASE /\ UNCHANGED limits
           /\ \/ user[u] = "new" /\ user' = [user EXCEPT ![u] = "denied"]
              \/ user[u] = "released" /\ user' = [user EXCEPT ![u] = "released"]
  <2>1. TypeOK'
    BY <1>0, <1>4, <1>9 DEF TypeOK, limits
  <2>2. \A s : Holding(s)' = Holding(s)
    BY <1>0, <1>9 DEF Holding
  <2>3. active' = active
    BY <1>9 DEF limits
  <2> QED BY <1>3, <1>5, <1>6, <2>1, <2>2, <2>3
<1>10. CASE TryAcquire(u)
  BY <1>7, <1>9, <1>10 DEF TryAcquire
<1>11. CASE ReleaseUser(u)
  BY <1>8, <1>9, <1>11 DEF ReleaseUser, limits
<1> QED BY <1>10, <1>11

LEMMA StrayLimited ==
  ASSUME LimitedInv, NEW x \in stray, StrayEnds(x)
  PROVE  LimitedInv'
<1> USE DEF LimitedInv, StrayEnds, limits
<1>1. TypeOK'
  BY DEF TypeOK
<1>2. RunsOK' /\ RunsHoldSlots'
  BY DEF RunsOK, RunsHoldSlots, Working, Holding, Promised
<1> QED BY <1>1, <1>2

\* A window that passes, a resource unregistered, and the two moments of shutdown.
LEMMA EventLimited ==
  ASSUME LimitedInv,
         \/ \E s \in Resources : NewWindow(s) \/ Unregister(s)
         \/ Shutdown \/ ShutdownTimeout
  PROVE  LimitedInv'
<1> USE DEF LimitedInv
<1>1. UNCHANGED <<hand, exec, stray, active, user, starts>>
  BY DEF NewWindow, Unregister, Shutdown, ShutdownTimeout, limits
<1>2. RunsOK' /\ RunsHoldSlots'
  BY <1>1 DEF RunsOK, RunsHoldSlots, Working, Holding, Promised
<1>3. ASSUME NEW s \in Resources, NewWindow(s) PROVE TypeOK'
  <2>1. used' \in [Resources -> 0..Rate]
    BY <1>3 DEF NewWindow, TypeOK
  <2> QED BY <1>1, <1>3, <2>1 DEF NewWindow, TypeOK
<1>4. ASSUME NEW s \in Resources, Unregister(s) PROVE TypeOK'
  BY <1>4 DEF Unregister, TypeOK, limits
<1>5. CASE Shutdown
  BY <1>2, <1>5 DEF Shutdown, TypeOK, limits
<1>6. CASE ShutdownTimeout
  <2>1. queue' \in Seq(Calls) /\ answer' \in [Calls -> Answers \cup {"new", "open"}]
    BY <1>6 DEF ShutdownTimeout, TypeOK, Answers
  <2> QED BY <1>1, <1>2, <1>6, <2>1 DEF ShutdownTimeout, TypeOK, limits
<1> QED BY <1>2, <1>3, <1>4, <1>5, <1>6

LEMMA InitLimited == Init => LimitedInv
<1> SUFFICES ASSUME Init PROVE LimitedInv
  OBVIOUS
<1>1. TypeOK
  <2>1. queue \in Seq(Calls) /\ exec \subseteq Runs /\ stray \subseteq Runs /\ hand = None
    BY EmptySeq DEF Init
  <2>2. active \in [Resources -> 0..Slots] /\ used \in [Resources -> 0..Rate]
    BY DEF Init
  <2>3. /\ user \in [Users -> {"new", "holding", "released", "denied"}]
        /\ answer \in [Calls -> Answers \cup {"new", "open"}] /\ starts \in [Calls -> Nat]
        /\ registered \subseteq Resources /\ closing \in BOOLEAN
    BY DEF Init
  <2> QED BY <2>1, <2>2, <2>3 DEF TypeOK
<1>2. RunsOK
  BY FS_EmptySet DEF Init, RunsOK
<1>3. RunsHoldSlots
  <2> SUFFICES ASSUME NEW s \in Resources
               PROVE  /\ Cardinality(Working(s)) + Cardinality(Holding(s)) + Promised(s)
                            <= active[s]
                      /\ active[s] <= Slots
    BY DEF RunsHoldSlots
  <2>1. Working(s) = {} /\ Holding(s) = {} /\ Promised(s) = 0 /\ active[s] = 0
    BY DEF Init, Working, Holding, Promised
  <2> QED BY <2>1, FS_EmptySet
<1> QED BY <1>1, <1>2, <1>3 DEF LimitedInv

LEMMA StepLimited == LimitedInv /\ [Next]_vars => LimitedInv'
<1> SUFFICES ASSUME LimitedInv, [Next]_vars PROVE LimitedInv'
  OBVIOUS
<1>1. CASE UNCHANGED vars
  BY <1>1 DEF vars, limits, LimitedInv, TypeOK, RunsOK, RunsHoldSlots, Working, Holding,
              Promised
<1>2. CASE Next
  BY <1>2, EnqueueLimited, LoopLimited, RunLimited, StrayLimited, UserLimited, EventLimited
     DEF Next
<1> QED BY <1>1, <1>2

\* The runs of executeItem for one resource and the users of tryAcquire together never
\* exceed maxConcurrentRequests, whatever is retried or unregistered meanwhile.  Executors
\* that work on after their timeout are not among them.
THEOREM RunsStayWithinLimit == Spec => []RunsHoldSlots
<1>1. LimitedInv => RunsHoldSlots
  BY DEF LimitedInv
<1> QED BY <1>1, InitLimited, StepLimited, PTL DEF Spec

(***************************************************************************)
(* The executors of one execution                                          *)
(***************************************************************************)
LEMMA RunTypes ==
  ASSUME TypeOK
  PROVE  /\ \A e \in exec \cup stray : e \in Runs /\ e.call \in Calls /\ e.nth \in Nat
                                     /\ e.attempt \in Int
         /\ \A c \in Calls : starts[c] \in Nat
BY DEF TypeOK, Runs

\* A new execution has a number no earlier one had.
LEMMA GrantedEach ==
  ASSUME LimitedInv, OneExecutorEach, Granted
  PROVE  OneExecutorEach'
<1> DEFINE r == hand.item
           f == [call |-> r, nth |-> starts[r] + 1, attempt |-> 0, phase |-> "running"]
<1>1. /\ starts' = [starts EXCEPT ![r] = starts[r] + 1] /\ exec' = exec \cup {f}
      /\ stray' = stray /\ hand # None
  BY DEF Granted
<1>2. r \in Calls
  BY <1>1, HandTyped DEF LimitedInv
<1>3. f.call = r /\ f.nth = starts[r] + 1
  OBVIOUS
<1>4. \A c \in Calls : /\ starts[c] \in Nat
                       /\ starts'[c] = IF c = r THEN starts[r] + 1 ELSE starts[c]
  BY <1>1, <1>2 DEF LimitedInv, TypeOK
<1> HIDE DEF f, r
<1>5. \A e \in exec \cup stray : e.call = r => e.nth # f.nth
  BY <1>2, <1>3, <1>4, RunTypes DEF LimitedInv, RunsOK, OneExecutorEach
<1>6. \A e, g \in exec' : e.call = g.call /\ e.nth = g.nth => e = g
  BY <1>1, <1>3, <1>5 DEF OneExecutorEach
<1>7. ASSUME NEW x \in stray
      PROVE  /\ x.nth <= starts'[x.call]
             /\ \A e \in exec' : e.call = x.call /\ e.nth = x.nth =>
                  x.attempt < e.attempt \/ (x.attempt = e.attempt /\ e.phase = "backoff")
  <2>1. x.call \in Calls /\ x.nth \in Nat /\ x.nth <= starts[x.call]
    BY RunTypes DEF LimitedInv, OneExecutorEach
  <2>2. x.nth <= starts'[x.call]
    BY <1>2, <1>4, <2>1
  <2> QED BY <1>1, <1>3, <1>5, <2>2 DEF OneExecutorEach
<1> QED BY <1>1, <1>6, <1>7 DEF OneExecutorEach

\* The attempt under way ends, its executor left or not, or the next one begins.
LEMMA RunEach ==
  ASSUME LimitedInv, OneExecutorEach, NEW e \in exec,
         Succeed(e) \/ FailForGood(e) \/ FailAgain(e) \/ Retry(e)
  PROVE  OneExecutorEach'
<1>1. /\ e \in Runs /\ e.call \in Calls /\ e.attempt \in Int /\ e.nth <= starts[e.call]
      /\ starts' = starts
  BY RunTypes DEF LimitedInv, RunsOK, Succeed, FailForGood, FailAgain, Retry
<1>2. stray' \subseteq stray \cup {e}
  BY DEF Succeed, FailForGood, FailAgain, Retry, TimesOut
<1>3. \A x \in stray' : x.nth <= starts[x.call]
  BY <1>1, <1>2 DEF OneExecutorEach
<1>4. CASE Succeed(e) \/ FailForGood(e)
  <2>1. exec' = exec \ {e}
    BY <1>4 DEF Succeed, FailForGood
  <2> QED BY <1>1, <1>2, <1>3, <2>1 DEF OneExecutorEach
<1>5. CASE FailAgain(e) \/ Retry(e)
  <2>1. PICK f : /\ f.call = e.call /\ f.nth = e.nth /\ exec' = (exec \ {e}) \cup {f}
                 /\ \/ f.attempt = e.attempt /\ f.phase = "backoff"
                    \/ /\ f.attempt = e.attempt + 1 /\ e.phase = "backoff"
                       /\ stray' = stray
    <3>1. CASE FailAgain(e)
      <4> DEFINE f == [e EXCEPT !.phase = "backoff"]
      <4>1. /\ f.call = e.call /\ f.nth = e.nth /\ f.attempt = e.attempt
            /\ f.phase = "backoff" /\ exec' = (exec \ {e}) \cup {f}
        BY <1>1, <3>1 DEF FailAgain, Runs
      <4> QED BY <4>1
    <3>2. CASE Retry(e)
      <4> DEFINE f == [e EXCEPT !.phase = "running", !.attempt = e.attempt + 1]
      <4>1. /\ f.call = e.call /\ f.nth = e.nth /\ f.attempt = e.attempt + 1
            /\ e.phase = "backoff" /\ stray' = stray /\ exec' = (exec \ {e}) \cup {f}
        BY <1>1, <3>2 DEF Retry, Runs
      <4> QED BY <4>1
    <3> QED BY <1>5, <3>1, <3>2
  <2>2. \A g, h \in exec' : g.call = h.call /\ g.nth = h.nth => g = h
    BY <2>1 DEF OneExecutorEach
  <2>3. ASSUME NEW x \in stray', x.call = e.call, x.nth = e.nth
        PROVE  x.attempt < f.attempt \/ (x.attempt = f.attempt /\ f.phase = "backoff")
    <3>1. CASE x = e
      <4>1. x \in stray => FALSE \/ e.phase = "backoff"
        BY <1>1, <3>1 DEF OneExecutorEach
      <4> QED BY <1>1, <2>1, <2>3, <3>1, <4>1
    <3>2. CASE x \in stray
      <4>1. /\ x.attempt < e.attempt \/ (x.attempt = e.attempt /\ e.phase = "backoff")
            /\ x.attempt \in Int
        BY <2>3, <3>2, RunTypes DEF LimitedInv, OneExecutorEach
      <4> QED BY <1>1, <2>1, <4>1
    <3> QED BY <1>2, <3>1, <3>2
  <2>4. ASSUME NEW x \in stray', NEW g \in exec \ {e}, g.call = x.call, g.nth = x.nth
        PROVE  x.attempt < g.attempt \/ (x.attempt = g.attempt /\ g.phase = "backoff")
    BY <1>2, <2>4 DEF OneExecutorEach
  <2> QED BY <1>1, <1>3, <2>1, <2>2, <2>3, <2>4 DEF OneExecutorEach
<1> QED BY <1>4, <1>5

LEMMA StepEach ==
  LimitedInv /\ OneExecutorEach /\ [Next]_vars => OneExecutorEach'
<1> SUFFICES ASSUME LimitedInv, OneExecutorEach, [Next]_vars PROVE OneExecutorEach'
  OBVIOUS
<1>1. ASSUME UNCHANGED <<exec, starts>>, stray' \subseteq stray PROVE OneExecutorEach'
  BY <1>1 DEF OneExecutorEach
<1>2. ASSUME NEW r \in Calls, EnqueueRefused(r) \/ Enqueue(r)
      PROVE  UNCHANGED <<exec, starts, stray>>
  BY <1>2 DEF EnqueueRefused, Enqueue
<1>3. ASSUME NEW u \in Users, TryAcquire(u) \/ ReleaseUser(u)
      PROVE  UNCHANGED <<exec, starts, stray>>
  BY <1>3 DEF TryAcquire, ReleaseUser
<1>4. ASSUME NEW s \in Resources, NewWindow(s) \/ Unregister(s)
      PROVE  UNCHANGED <<exec, starts, stray>>
  BY <1>4 DEF NewWindow, Unregister
<1>5. ASSUME Denied \/ Shutdown \/ ShutdownTimeout \/ UNCHANGED vars
      PROVE  UNCHANGED <<exec, starts, stray>>
  BY <1>5 DEF Denied, Shutdown, ShutdownTimeout, vars
<1>6. ASSUME NEW x \in stray, StrayEnds(x)
      PROVE  UNCHANGED <<exec, starts>> /\ stray' \subseteq stray
  BY <1>6 DEF StrayEnds
<1> QED BY <1>1, <1>2, <1>3, <1>4, <1>5, <1>6, GrantedEach, RunEach DEF Next

(***************************************************************************)
(* With one priority                                                       *)
(***************************************************************************)
\* A sequence of open requests that are not begun, each there once; and each request told
\* to be open is in it or executed.
Orderly(q, told, begun, runs) ==
    /\ \A i, j \in 1..Len(q) : q[i] = q[j] => i = j
    /\ \A i \in 1..Len(q) : told[q[i]] = "open" /\ begun[q[i]] = 0
    /\ \A r \in Calls : told[r] = "open" =>
         (\E i \in 1..Len(q) : q[i] = r) \/ (\E e \in runs : e.call = r)
    /\ \A r \in Calls : told[r] = "new" => begun[r] = 0

HeadIsLooked ==
    hand # None /\ (hand.allowed \/ ~closing) => queue # <<>> /\ queue[1] = hand.item

LEMMA OrderlyIsInOrder ==
  ASSUME TypeOK
  PROVE  InOrder <=> Orderly(queue, answer, starts, exec) /\ HeadIsLooked
<1>1. Len(queue) \in Nat /\ \A i \in 1..Len(queue) : queue[i] \in Calls
  BY LenProperties, ElementOfSeq DEF TypeOK
<1>2. ASSUME InOrder PROVE Orderly(queue, answer, starts, exec) /\ HeadIsLooked
  BY <1>1, <1>2 DEF InOrder, OpenIsSomewhere, Waiting, Orderly, HeadIsLooked
<1>3. ASSUME Orderly(queue, answer, starts, exec), HeadIsLooked PROVE InOrder
  BY <1>1, <1>3 DEF InOrder, OpenIsSomewhere, Waiting, Orderly, HeadIsLooked
<1> QED BY <1>2, <1>3

\* A turn of the loop rejects what it takes off and keeps the rest in order.
LEMMA LoopKeepsOrder ==
  ASSUME NEW q \in Seq(Calls), NEW told \in [Calls -> Answers \cup {"new", "open"}],
         NEW begun, NEW runs, Orderly(q, told, begun, runs), Loop(q, told)
  PROVE  /\ Orderly(queue', answer', begun, runs) /\ (closing' = closing => HeadIsLooked')
         /\ \A r \in Calls :
              /\ told[r] # "open" => answer'[r] = told[r]
              /\ told[r] = "open" => answer'[r] # "new"
<1>1. PICK n \in 0..Len(q) :
           /\ queue' = SubSeq(q, n + 1, Len(q))
           /\ answer' = [r \in Calls |-> IF \E i \in 1..n : q[i] = r THEN "rejected" ELSE told[r]]
           /\ \/ hand' = None /\ UNCHANGED limits
              \/ /\ n < Len(q) /\ ~closing
                 /\ hand' = [item |-> q[n + 1], allowed |-> Free(Resource[q[n + 1]])]
                 /\ IF Free(Resource[q[n + 1]]) THEN Reserve(Resource[q[n + 1]])
                    ELSE UNCHANGED limits
  BY LoopDoes
<1>2. Len(q) \in Nat /\ \A i \in 1..Len(q) : q[i] \in Calls
  BY LenProperties, ElementOfSeq
<1>3. /\ queue' \in Seq(Calls) /\ Len(queue') = Len(q) - n
      /\ \A i \in 1..(Len(q) - n) : queue'[i] = q[n + i]
  BY <1>1, Behind
<1>4. \A i \in 1..Len(queue') : n + i \in 1..Len(q) /\ queue'[i] = q[n + i]
  <2> SUFFICES ASSUME NEW i \in 1..Len(queue')
               PROVE  n + i \in 1..Len(q) /\ queue'[i] = q[n + i]
    OBVIOUS
  <2>1. i \in 1..(Len(q) - n)
    BY <1>3
  <2>2. n + i \in 1..Len(q)
    BY <1>2, <2>1
  <2> QED BY <1>3, <2>1, <2>2
<1>5. \A i \in 1..Len(queue') : \A j \in 1..n : q[j] # queue'[i]
  <2> SUFFICES ASSUME NEW i \in 1..Len(queue'), NEW j \in 1..n, q[j] = q[n + i] PROVE FALSE
    BY <1>4
  <2>1. j \in 1..Len(q) /\ n + i \in 1..Len(q) /\ j # n + i
    BY <1>2, <1>3, <1>4
  <2> QED BY <2>1 DEF Orderly
<1>6. \A i, j \in 1..Len(queue') : queue'[i] = queue'[j] => i = j
  <2> SUFFICES ASSUME NEW i \in 1..Len(queue'), NEW j \in 1..Len(queue'),
                      q[n + i] = q[n + j]
               PROVE  i = j
    BY <1>4
  <2>1. n + i = n + j
    BY <1>4 DEF Orderly
  <2> QED BY <1>3, <2>1
<1>7. \A i \in 1..Len(queue') : answer'[queue'[i]] = "open" /\ begun[queue'[i]] = 0
  <2> SUFFICES ASSUME NEW i \in 1..Len(queue')
               PROVE  answer'[queue'[i]] = "open" /\ begun[queue'[i]] = 0
    OBVIOUS
  <2>1. queue'[i] = q[n + i] /\ n + i \in 1..Len(q) /\ q[n + i] \in Calls
    BY <1>2, <1>4
  <2>2. told[q[n + i]] = "open" /\ begun[q[n + i]] = 0
    BY <2>1 DEF Orderly
  <2>3. answer'[queue'[i]] = told[queue'[i]]
    BY <1>1, <1>5, <2>1
  <2> QED BY <2>1, <2>2, <2>3
<1>8. ASSUME NEW r \in Calls, answer'[r] = "open"
      PROVE  (\E i \in 1..Len(queue') : queue'[i] = r) \/ (\E e \in runs : e.call = r)
  <2>1. told[r] = "open" /\ ~ \E i \in 1..n : q[i] = r
    BY <1>1, <1>8
  <2>2. CASE \E i \in 1..Len(q) : q[i] = r
    <3>1. PICK i \in 1..Len(q) : q[i] = r
      BY <2>2
    <3>2. i - n \in 1..Len(queue') /\ n + (i - n) = i
      BY <1>2, <1>3, <2>1, <3>1
    <3> QED BY <1>4, <3>1, <3>2
  <2> QED BY <2>1, <2>2 DEF Orderly
<1>9. \A r \in Calls :
        /\ told[r] # "open" => answer'[r] = told[r]
        /\ told[r] = "open" => answer'[r] # "new"
  <2> SUFFICES ASSUME NEW r \in Calls
               PROVE  /\ told[r] # "open" => answer'[r] = told[r]
                      /\ told[r] = "open" => answer'[r] # "new"
    OBVIOUS
  <2>1. ASSUME NEW i \in 1..n PROVE told[q[i]] = "open"
    <3>1. i \in 1..Len(q)
      BY <1>2
    <3> QED BY <3>1 DEF Orderly
  <2> QED BY <1>1, <2>1
<1>10. \A r \in Calls : answer'[r] = "new" => begun[r] = 0
  BY <1>9 DEF Orderly
<1>11. ASSUME hand' # None PROVE queue' # <<>> /\ queue'[1] = hand'.item
  <2>1. n < Len(q) /\ hand'.item = q[n + 1]
    BY <1>1, <1>11
  <2>2. 1 \in 1..Len(queue')
    BY <1>2, <1>3, <2>1
  <2>3. queue' # <<>>
    BY <2>2
  <2> QED BY <1>4, <2>1, <2>2, <2>3
<1> QED BY <1>6, <1>7, <1>8, <1>9, <1>10, <1>11 DEF Orderly, HeadIsLooked

OrderInv == LimitedInv /\ Orderly(queue, answer, starts, exec) /\ HeadIsLooked

\* What CallService allows a step to do with a call.
Serves(c) ==
    /\ answer[c] \notin {"new", "open"} => answer'[c] = answer[c]
    /\ answer[c] = "open" => answer'[c] # "new"
    /\ \/ starts'[c] = starts[c]
       \/ starts'[c] = 1 /\ starts[c] = 0 /\ answer[c] \in {"new", "open"}

Ordered == Orderly(queue, answer, starts, exec)' /\ HeadIsLooked' /\ \A c \in Calls : Serves(c)

LEMMA OrderTypes ==
  ASSUME OrderInv
  PROVE  /\ queue \in Seq(Calls) /\ Len(queue) \in Nat
         /\ \A i \in 1..Len(queue) : queue[i] \in Calls
         /\ answer \in [Calls -> Answers \cup {"new", "open"}] /\ starts \in [Calls -> Nat]
         /\ \A e \in exec : e.call \in Calls /\ starts[e.call] # 0
<1>1. queue \in Seq(Calls) /\ exec \subseteq Runs
      /\ answer \in [Calls -> Answers \cup {"new", "open"}] /\ starts \in [Calls -> Nat]
  BY DEF OrderInv, LimitedInv, TypeOK
<1>2. ASSUME NEW e \in exec PROVE e.call \in Calls /\ starts[e.call] # 0
  <2>1. e.call \in Calls /\ e.nth \in Nat /\ starts[e.call] \in Nat
    BY <1>1 DEF Runs
  <2>2. 1 <= e.nth /\ e.nth <= starts[e.call]
    BY DEF OrderInv, LimitedInv, RunsOK
  <2> QED BY <2>1, <2>2
<1> QED BY <1>1, <1>2, LenProperties, ElementOfSeq

LEMMA RefusedOrdered ==
  ASSUME OrderInv, NEW r \in Calls, EnqueueRefused(r)
  PROVE  Ordered
<1>1. /\ answer[r] = "new" /\ answer' = [answer EXCEPT ![r] = "refused"]
      /\ UNCHANGED <<queue, hand, exec, starts, closing>>
  BY DEF EnqueueRefused
<1>2. \A c \in Calls : answer'[c] = IF c = r THEN "refused" ELSE answer[c]
  BY <1>1, OrderTypes
<1>3. \A i \in 1..Len(queue) : queue[i] \in Calls /\ queue[i] # r
  BY <1>1, OrderTypes DEF OrderInv, Orderly
<1>4. Orderly(queue, answer', starts, exec)
  BY <1>2, <1>3 DEF OrderInv, Orderly
<1>5. HeadIsLooked'
  BY <1>1 DEF OrderInv, HeadIsLooked
<1>6. \A c \in Calls : Serves(c)
  BY <1>1, <1>2 DEF Serves
<1> QED BY <1>1, <1>4, <1>5, <1>6 DEF Ordered

\* With one priority a request is appended.
LEMMA InsertOrdered ==
  ASSUME OrderInv, OnePriority, NEW r \in Calls, answer[r] = "new"
  PROVE  Orderly(Insert(r), [answer EXCEPT ![r] = "open"], starts, exec)
<1> DEFINE told == [answer EXCEPT ![r] = "open"]
<1>1. /\ Insert(r) \in Seq(Calls) /\ Len(Insert(r)) = Len(queue) + 1
      /\ \A i \in 1..Len(queue) : Insert(r)[i] = queue[i]
      /\ Insert(r)[Len(queue) + 1] = r
  BY OrderTypes, InsertLast
<1>2. \A c \in Calls : told[c] = IF c = r THEN "open" ELSE answer[c]
  BY OrderTypes
<1>3. \A i \in 1..Len(queue) : queue[i] \in Calls /\ queue[i] # r
                                /\ answer[queue[i]] = "open" /\ starts[queue[i]] = 0
  BY OrderTypes DEF OrderInv, Orderly
<1>4. starts[r] = 0
  BY DEF OrderInv, Orderly
<1>5. \A i \in 1..Len(Insert(r)) : i \in 1..Len(queue) \/ i = Len(queue) + 1
  BY <1>1, OrderTypes
<1> HIDE DEF told
<1>6. \A i, j \in 1..Len(Insert(r)) : Insert(r)[i] = Insert(r)[j] => i = j
  BY <1>1, <1>3, <1>5 DEF OrderInv, Orderly
<1>7. \A i \in 1..Len(Insert(r)) : told[Insert(r)[i]] = "open" /\ starts[Insert(r)[i]] = 0
  BY <1>1, <1>2, <1>3, <1>4, <1>5
<1>8. ASSUME NEW c \in Calls, told[c] = "open"
      PROVE  (\E i \in 1..Len(Insert(r)) : Insert(r)[i] = c) \/ (\E e \in exec : e.call = c)
  <2>1. CASE c = r
    <3>1. Len(queue) + 1 \in 1..Len(Insert(r))
      BY <1>1, OrderTypes
    <3> QED BY <1>1, <2>1, <3>1
  <2>2. CASE c # r
    <3>1. (\E i \in 1..Len(queue) : queue[i] = c) \/ (\E e \in exec : e.call = c)
      BY <1>2, <1>8, <2>2 DEF OrderInv, Orderly
    <3>2. 1..Len(queue) \subseteq 1..Len(Insert(r))
      BY <1>1, OrderTypes
    <3> QED BY <1>1, <3>1, <3>2
  <2> QED BY <2>1, <2>2
<1>9. \A c \in Calls : told[c] = "new" => starts[c] = 0
  BY <1>2 DEF OrderInv, Orderly
<1>10. Orderly(Insert(r), told, starts, exec)
  BY <1>6, <1>7, <1>8, <1>9 DEF Orderly
<1> QED BY <1>10 DEF told

LEMMA EnqueueOrdered ==
  ASSUME OrderInv, OnePriority, NEW r \in Calls, Enqueue(r)
  PROVE  Ordered
<1> DEFINE told == [answer EXCEPT ![r] = "open"]
<1>1. /\ answer[r] = "new" /\ ~closing /\ UNCHANGED <<exec, starts, closing>>
      /\ IF hand = None THEN Loop(Insert(r), told)
         ELSE queue' = Insert(r) /\ answer' = told /\ UNCHANGED <<hand, limits>>
  BY DEF Enqueue, Admitted
<1>2. Orderly(Insert(r), told, starts, exec)
  BY <1>1, InsertOrdered
<1>3. told \in [Calls -> Answers \cup {"new", "open"}]
      /\ \A c \in Calls : told[c] = IF c = r THEN "open" ELSE answer[c]
  BY OrderTypes
<1>4. Insert(r) \in Seq(Calls) /\ Len(Insert(r)) = Len(queue) + 1
      /\ \A i \in 1..Len(queue) : Insert(r)[i] = queue[i]
  BY OrderTypes, InsertLast
<1> HIDE DEF told
<1>5. CASE hand = None
  <2>1. /\ Orderly(queue', answer', starts, exec) /\ HeadIsLooked'
        /\ \A c \in Calls :
             /\ told[c] # "open" => answer'[c] = told[c]
             /\ told[c] = "open" => answer'[c] # "new"
    BY <1>1, <1>2, <1>3, <1>4, <1>5, LoopKeepsOrder
  <2>2. \A c \in Calls : Serves(c)
    BY <1>1, <1>3, <2>1 DEF Serves
  <2> QED BY <1>1, <2>1, <2>2 DEF Ordered
<1>6. CASE hand # None
  <2>1. queue' = Insert(r) /\ answer' = told /\ hand' = hand
    BY <1>1, <1>6
  <2>2. HeadIsLooked'
    <3>1. queue # <<>> /\ queue[1] = hand.item
      BY <1>1, <1>6 DEF OrderInv, HeadIsLooked
    <3>2. 1 \in 1..Len(queue) /\ 1 \in 1..Len(Insert(r))
      BY <1>4, <3>1, OrderTypes, EmptySeq
    <3>3. Insert(r)[1] = hand.item /\ Insert(r) # <<>>
      BY <1>4, <3>1, <3>2
    <3> QED BY <2>1, <3>3 DEF HeadIsLooked
  <2>3. \A c \in Calls : Serves(c)
    BY <1>1, <1>3, <2>1 DEF Serves
  <2> QED BY <1>1, <1>2, <2>1, <2>2, <2>3 DEF Ordered
<1> QED BY <1>5, <1>6

LEMMA DeniedOrdered ==
  ASSUME OrderInv, Denied
  PROVE  Ordered
<1>1. Loop(queue, answer) /\ UNCHANGED <<exec, starts, closing>>
  BY DEF Denied
<1>2. /\ Orderly(queue', answer', starts, exec) /\ HeadIsLooked'
      /\ \A c \in Calls :
           /\ answer[c] # "open" => answer'[c] = answer[c]
           /\ answer[c] = "open" => answer'[c] # "new"
  BY <1>1, OrderTypes, LoopKeepsOrder DEF OrderInv
<1>3. \A c \in Calls : Serves(c)
  BY <1>1, <1>2 DEF Serves
<1> QED BY <1>1, <1>2, <1>3 DEF Ordered

\* The head goes from the queue to the runs.
LEMMA HeadBegins ==
  ASSUME OrderInv, NEW r, r = queue[1], queue # <<>>, NEW f, f.call = r
  PROVE  /\ r \in Calls /\ answer[r] = "open" /\ starts[r] = 0
         /\ Tail(queue) \in Seq(Calls)
         /\ Orderly(Tail(queue), answer, [starts EXCEPT ![r] = starts[r] + 1], exec \cup {f})
<1>1. 1 \in 1..Len(queue)
  BY OrderTypes, EmptySeq
<1>2. r \in Calls /\ answer[r] = "open" /\ starts[r] = 0
  BY <1>1, OrderTypes DEF OrderInv, Orderly
<1>3. /\ Tail(queue) \in Seq(Calls) /\ Len(Tail(queue)) = Len(queue) - 1
      /\ \A i \in 1..Len(Tail(queue)) : Tail(queue)[i] = queue[i + 1]
  BY OrderTypes, HeadTailProperties
<1>4. \A i \in 1..Len(Tail(queue)) :
        /\ i + 1 \in 1..Len(queue) /\ i + 1 # 1 /\ Tail(queue)[i] = queue[i + 1]
  BY <1>3, OrderTypes
<1>5. \A i \in 1..Len(Tail(queue)) :
        /\ Tail(queue)[i] # r /\ Tail(queue)[i] \in Calls
        /\ answer[Tail(queue)[i]] = "open" /\ starts[Tail(queue)[i]] = 0
  BY <1>1, <1>4, OrderTypes DEF OrderInv, Orderly
<1>6. \A i, j \in 1..Len(Tail(queue)) : Tail(queue)[i] = Tail(queue)[j] => i = j
  <2> SUFFICES ASSUME NEW i \in 1..Len(Tail(queue)), NEW j \in 1..Len(Tail(queue)),
                      queue[i + 1] = queue[j + 1]
               PROVE  i = j
    BY <1>4
  <2>1. i + 1 = j + 1
    BY <1>4 DEF OrderInv, Orderly
  <2> QED BY <2>1
<1>7. ASSUME NEW c \in Calls, answer[c] = "open"
      PROVE  \/ \E i \in 1..Len(Tail(queue)) : Tail(queue)[i] = c
             \/ \E e \in exec \cup {f} : e.call = c
  <2>1. CASE c # r /\ \E i \in 1..Len(queue) : queue[i] = c
    <3>1. PICK i \in 1..Len(queue) : queue[i] = c
      BY <2>1
    <3>2. i # 1
      BY <2>1, <3>1
    <3>3. i - 1 \in 1..Len(Tail(queue)) /\ (i - 1) + 1 = i
      BY <1>3, <3>2, OrderTypes
    <3> QED BY <1>4, <3>1, <3>3
  <2>2. CASE ~ \E i \in 1..Len(queue) : queue[i] = c
    BY <1>7, <2>2 DEF OrderInv, Orderly
  <2> QED BY <2>1, <2>2
<1>8. \A c \in Calls : [starts EXCEPT ![r] = starts[r] + 1][c]
                          = IF c = r THEN starts[r] + 1 ELSE starts[c]
  BY <1>2, OrderTypes
<1>9. \A c \in Calls : answer[c] = "new" => starts[c] = 0
  BY DEF OrderInv, Orderly
<1>10. \A c \in Calls : answer[c] = "new" => [starts EXCEPT ![r] = starts[r] + 1][c] = 0
  BY <1>2, <1>8, <1>9
<1>11. \A i \in 1..Len(Tail(queue)) : [starts EXCEPT ![r] = starts[r] + 1][Tail(queue)[i]] = 0
  BY <1>5, <1>8
<1> QED BY <1>2, <1>3, <1>5, <1>6, <1>7, <1>10, <1>11 DEF Orderly

LEMMA GrantedOrdered ==
  ASSUME OrderInv, Granted
  PROVE  Ordered
<1> DEFINE r == hand.item
           f == [call |-> r, nth |-> starts[r] + 1, attempt |-> 0, phase |-> "running"]
           begun == [starts EXCEPT ![r] = starts[r] + 1]
<1>1. /\ hand # None /\ hand.allowed /\ starts' = begun /\ exec' = exec \cup {f}
      /\ Loop(IF queue = <<>> THEN <<>> ELSE Tail(queue), answer) /\ closing' = closing
  BY DEF Granted
<1>2. queue # <<>> /\ queue[1] = r
  BY <1>1 DEF OrderInv, HeadIsLooked
<1>3. f.call = r
  OBVIOUS
<1>4. /\ r \in Calls /\ answer[r] = "open" /\ starts[r] = 0
      /\ Tail(queue) \in Seq(Calls) /\ Orderly(Tail(queue), answer, begun, exec \cup {f})
  BY <1>2, <1>3, HeadBegins
<1>5. Loop(Tail(queue), answer)
  BY <1>1, <1>2
<1>6. \A c \in Calls : begun[c] = IF c = r THEN 1 ELSE starts[c]
  BY <1>4, OrderTypes
<1> HIDE DEF r, f, begun
<1>7. /\ Orderly(queue', answer', begun, exec \cup {f}) /\ HeadIsLooked'
      /\ \A c \in Calls :
           /\ answer[c] # "open" => answer'[c] = answer[c]
           /\ answer[c] = "open" => answer'[c] # "new"
  BY <1>1, <1>4, <1>5, OrderTypes, LoopKeepsOrder
<1>8. \A c \in Calls : Serves(c)
  BY <1>1, <1>4, <1>6, <1>7 DEF Serves
<1> QED BY <1>1, <1>7, <1>8 DEF Ordered

LEMMA RunOrdered ==
  ASSUME OrderInv, NEW e \in exec,
         Succeed(e) \/ FailForGood(e) \/ FailAgain(e) \/ Retry(e)
  PROVE  Ordered
<1>1. UNCHANGED <<queue, hand, starts, closing>>
  BY DEF Succeed, FailForGood, FailAgain, Retry
<1>2. e.call \in Calls /\ starts[e.call] # 0
  BY OrderTypes
<1>3. \A i \in 1..Len(queue) : queue[i] \in Calls /\ queue[i] # e.call
  BY <1>2, OrderTypes DEF OrderInv, Orderly
<1>4. HeadIsLooked'
  BY <1>1 DEF OrderInv, HeadIsLooked
<1>5. CASE Succeed(e) \/ FailForGood(e)
  <2>1. /\ exec' = exec \ {e}
        /\ \/ answer[e.call] # "open" /\ answer' = answer
           \/ answer[e.call] = "open" /\ answer' = [answer EXCEPT ![e.call] = "done"]
           \/ answer[e.call] = "open" /\ answer' = [answer EXCEPT ![e.call] = "failed"]
    BY <1>5 DEF Succeed, FailForGood, Answer
  <2>2. /\ answer'[e.call] \notin {"new", "open"} \/ answer' = answer
        /\ answer'[e.call] # "open"
        /\ \A c \in Calls \ {e.call} : answer'[c] = answer[c]
    BY <1>2, <2>1, OrderTypes
  <2>3. answer[e.call] # "open" => answer' = answer
    BY <2>1
  <2>4. \A c \in Calls : Serves(c)
    BY <1>1, <2>2, <2>3 DEF Serves
  <2>5. \A i \in 1..Len(queue) : answer'[queue[i]] = "open" /\ starts[queue[i]] = 0
    BY <1>3, <2>2 DEF OrderInv, Orderly
  <2>6. ASSUME NEW c \in Calls, answer'[c] = "open"
        PROVE  (\E i \in 1..Len(queue) : queue[i] = c) \/ (\E g \in exec \ {e} : g.call = c)
    <3>1. c # e.call /\ answer[c] = "open"
      BY <2>2, <2>6
    <3> QED BY <3>1 DEF OrderInv, Orderly
  <2>7. \A c \in Calls : answer'[c] = "new" => starts[c] = 0
    BY <2>2 DEF OrderInv, Orderly
  <2>8. Orderly(queue, answer', starts, exec \ {e})
    BY <2>5, <2>6, <2>7 DEF OrderInv, Orderly
  <2> QED BY <1>1, <1>4, <2>1, <2>4, <2>8 DEF Ordered
<1>6. CASE FailAgain(e) \/ Retry(e)
  <2>1. /\ UNCHANGED answer
        /\ \E f : f.call = e.call /\ exec' = (exec \ {e}) \cup {f}
    <3>1. e \in Runs
      BY DEF OrderInv, LimitedInv, TypeOK
    <3>2. [e EXCEPT !.phase = "backoff"].call = e.call
      BY <3>1 DEF Runs
    <3>3. [e EXCEPT !.phase = "running", !.attempt = e.attempt + 1].call = e.call
      BY <3>1 DEF Runs
    <3> QED BY <1>6, <3>2, <3>3 DEF FailAgain, Retry
  <2>2. PICK f : f.call = e.call /\ exec' = (exec \ {e}) \cup {f}
    BY <2>1
  <2>3. ASSUME NEW c \in Calls, answer[c] = "open"
        PROVE  (\E i \in 1..Len(queue) : queue[i] = c) \/ (\E g \in exec' : g.call = c)
    BY <2>2, <2>3 DEF OrderInv, Orderly
  <2>4. Orderly(queue, answer, starts, exec')
    BY <2>3 DEF OrderInv, Orderly
  <2>5. \A c \in Calls : Serves(c)
    BY <1>1, <2>1, OrderTypes DEF Serves
  <2> QED BY <1>1, <1>4, <2>1, <2>4, <2>5 DEF Ordered
<1> QED BY <1>5, <1>6

\* What touches neither the queue nor the answers.
LEMMA RestOrdered ==
  ASSUME OrderInv, UNCHANGED <<queue, hand, exec, answer, starts>>, closing => closing'
  PROVE  Ordered
<1>1. closing \in BOOLEAN
  BY DEF OrderInv, LimitedInv, TypeOK
<1>2. HeadIsLooked'
  BY DEF OrderInv, HeadIsLooked
<1>3. \A c \in Calls : Serves(c)
  BY DEF Serves, OrderInv, Orderly
<1> QED BY <1>2, <1>3 DEF Ordered, OrderInv

LEMMA TimeoutOrdered ==
  ASSUME OrderInv, ShutdownTimeout
  PROVE  Ordered
<1>1. /\ queue' = <<>> /\ closing /\ (hand # None => ~hand.allowed)
      /\ answer' = [r \in Calls |-> IF r \in Waiting THEN "shutdown" ELSE answer[r]]
      /\ UNCHANGED <<hand, exec, starts, closing>>
  BY DEF ShutdownTimeout
<1>2. HeadIsLooked'
  BY <1>1 DEF HeadIsLooked
<1>3. \A c \in Waiting : answer[c] = "open"
  BY DEF OrderInv, Orderly, Waiting
<1>4. \A c \in Calls : Serves(c)
  BY <1>1, <1>3 DEF Serves
<1>5. \A c \in Calls : answer'[c] = "open" => \E e \in exec : e.call = c
  BY <1>1 DEF OrderInv, Orderly, Waiting
<1>6. \A c \in Calls : answer'[c] = "new" => starts[c] = 0
  BY <1>1 DEF OrderInv, Orderly
<1>7. Len(<<>>) = 0
  BY EmptySeq
<1>8. Orderly(<<>>, answer', starts, exec)
  BY <1>5, <1>6, <1>7 DEF Orderly
<1> QED BY <1>1, <1>2, <1>4, <1>8 DEF Ordered

LEMMA StepOrdered ==
  ASSUME OnePriority
  PROVE  OrderInv /\ [Next]_vars => OrderInv' /\ Ordered
<1> SUFFICES ASSUME OrderInv, [Next]_vars PROVE OrderInv' /\ Ordered
  OBVIOUS
<1>1. LimitedInv'
  BY StepLimited DEF OrderInv
<1>2. Ordered => OrderInv'
  BY <1>1 DEF Ordered, OrderInv
<1>3. ASSUME NEW r \in Calls, EnqueueRefused(r) \/ Enqueue(r) PROVE Ordered
  BY <1>3, RefusedOrdered, EnqueueOrdered
<1>4. ASSUME NEW u \in Users, TryAcquire(u) \/ ReleaseUser(u) PROVE Ordered
  BY <1>4, RestOrdered DEF TryAcquire, ReleaseUser
<1>5. ASSUME NEW s \in Resources, NewWindow(s) \/ Unregister(s) PROVE Ordered
  BY <1>5, RestOrdered DEF NewWindow, Unregister
<1>8. ASSUME NEW x \in stray, StrayEnds(x) PROVE Ordered
  BY <1>8, RestOrdered DEF StrayEnds
<1>6. CASE Shutdown
  <2>1. UNCHANGED <<queue, hand, exec, answer, starts>> /\ closing'
    BY <1>6 DEF Shutdown
  <2> QED BY <1>2, <2>1, RestOrdered
<1>7. CASE UNCHANGED vars
  <2>1. UNCHANGED <<queue, hand, exec, answer, starts>> /\ closing' = closing
    BY <1>7 DEF vars
  <2> QED BY <1>2, <2>1, RestOrdered
<1> QED BY <1>2, <1>3, <1>4, <1>5, <1>6, <1>7, <1>8, DeniedOrdered, GrantedOrdered,
           RunOrdered, TimeoutOrdered DEF Next

LEMMA InitOrdered == Init => OrderInv
<1> SUFFICES ASSUME Init PROVE OrderInv
  OBVIOUS
<1>1. LimitedInv
  BY InitLimited
<1>2. Len(queue) = 0
  BY EmptySeq DEF Init
<1>3. Orderly(queue, answer, starts, exec)
  BY <1>2 DEF Init, Orderly
<1>4. HeadIsLooked
  BY DEF Init, HeadIsLooked
<1> QED BY <1>1, <1>3, <1>4 DEF OrderInv

\* The inductive invariant the run checks, whatever the priorities.
THEOREM BrokerInductive == Spec => []BrokerInv
<1> DEFINE Inv == LimitedInv /\ OneExecutorEach /\ (OnePriority => OrderInv)
<1>1. Init => Inv
  BY InitLimited, InitOrdered DEF Init, OneExecutorEach
<1>2. Inv /\ [Next]_vars => Inv'
  <2> SUFFICES ASSUME Inv, [Next]_vars PROVE Inv'
    OBVIOUS
  <2>1. LimitedInv'
    BY StepLimited
  <2>2. OnePriority => OrderInv'
    BY StepOrdered
  <2>3. OneExecutorEach'
    BY StepEach
  <2> QED BY <2>1, <2>2, <2>3 DEF OnePriority
<1>3. Inv => BrokerInv
  <2> SUFFICES ASSUME Inv PROVE BrokerInv
    OBVIOUS
  <2>1. TypeOK /\ RunsOK /\ RunsHoldSlots
    BY DEF LimitedInv
  <2>2. OnePriority => InOrder
    BY <2>1, OrderlyIsInOrder DEF OrderInv
  <2> QED BY <2>1, <2>2 DEF BrokerInv
<1> HIDE DEF Inv
<1> QED BY <1>1, <1>2, <1>3, PTL DEF Spec

\* With one priority every request whose caller waits is in one place: queued once and
\* not begun, or executed.  The limiter's answer is for the request that is taken off.
THEOREM NoneIsLost == ASSUME OnePriority PROVE Spec => []OpenIsSomewhere
<1>1. BrokerInv => OpenIsSomewhere
  BY DEF BrokerInv, InOrder
<1> QED BY <1>1, BrokerInductive, PTL

\* With one priority the broker implements CallService: one answer a request, which
\* stands, and its work begun at most once and never after the answer.
THEOREM BrokerServes == ASSUME OnePriority PROVE Spec => KeepsService
<1>1. Init => Service!Init
  BY DEF Init, Service!Init
<1>2. OrderInv /\ [Next]_vars => OrderInv' /\ [Service!Next]_<<answer, starts>>
  <2> SUFFICES ASSUME OrderInv, [Next]_vars
               PROVE  OrderInv' /\ [Service!Next]_<<answer, starts>>
    OBVIOUS
  <2>1. OrderInv' /\ \A c \in Calls : Serves(c)
    BY StepOrdered DEF Ordered
  <2>2. answer' \in [Calls -> Answers \cup {"new", "open"}] /\ starts' \in [Calls -> Nat]
    BY <2>1 DEF OrderInv, LimitedInv, TypeOK
  <2>3. DOMAIN answer' = Calls /\ DOMAIN starts' = Calls
    BY <2>2
  <2> QED BY <2>1, <2>3 DEF Serves, Service!Next, Service!Unanswered
<1> QED BY <1>1, <1>2, InitOrdered, PTL DEF Spec, KeepsService, Service!Spec
=============================================================================
