------------------------ MODULE RunAdmission_proofs ------------------------
(***************************************************************************)
(* For any number of requests, keys and groups: AdmissionInv is inductive, *)
(* a run has its group to itself while its lock lasts, and RunAdmission    *)
(* implements AdmissionContract.                                           *)
(***************************************************************************)
EXTENDS RunAdmission, TLAPS

USE RequestAssumption

\* One action of one request preserves the invariant.
LEMMA RequestKeeps ==
    ASSUME AdmissionInv, NEW r \in Requests,
           \/ LookUp(r) \/ Load(r) \/ Acquire(r) \/ SaveRun(r) \/ Register(r)
           \/ Schedule(r) \/ Breaks(r) \/ EndRun(r)
    PROVE  AdmissionInv'
<1> USE DEF AdmissionInv, TypeOK, Admitted, Creating, InGroup, Goes, Refused, cache, runs
<1>1. CASE LookUp(r) BY <1>1 DEF LookUp
<1>2. CASE Load(r) BY <1>2 DEF Load
<1>3. CASE Acquire(r) BY <1>3 DEF Acquire
<1>4. CASE SaveRun(r) BY <1>4 DEF SaveRun
<1>5. CASE Register(r) BY <1>5 DEF Register
<1>6. CASE Schedule(r) BY <1>6 DEF Schedule
<1>7. CASE Breaks(r) BY <1>7 DEF Breaks
<1>8. CASE EndRun(r) BY <1>8 DEF EndRun
<1> QED BY <1>1, <1>2, <1>3, <1>4, <1>5, <1>6, <1>7, <1>8

\* The end of a lock preserves it: the run that loses it is over or lapsed.
LEMMA ExpiryKeeps ==
    ASSUME AdmissionInv, NEW g \in Groups, ExpireGroup(g)
    PROVE  AdmissionInv'
BY DEF AdmissionInv, TypeOK, Admitted, Creating, InGroup, ExpireGroup, runs

\* Every reachable state of the admission of runs satisfies AdmissionInv: the
\* keys read and the groups held are what the requests in flight believe.
THEOREM AdmissionInductive == Spec => []AdmissionInv
<1>1. Init => AdmissionInv
  BY DEF Init, AdmissionInv, TypeOK, Admitted, Creating, InGroup
<1>2. AdmissionInv /\ [Next]_vars => AdmissionInv'
  <2> SUFFICES ASSUME AdmissionInv, [Next]_vars PROVE AdmissionInv'
    OBVIOUS
  <2>1. CASE UNCHANGED vars
    BY <2>1 DEF AdmissionInv, TypeOK, Admitted, Creating, InGroup, vars
  <2>2. CASE Next
    BY <2>2, RequestKeeps, ExpiryKeeps DEF Next
  <2> QED BY <2>1, <2>2
<1> QED BY <1>1, <1>2, PTL DEF Spec

\* While the lock of its group lasts no other run is let in beside its holder, for any
\* number of requests, keys and groups and with locks that end at any moment: of the runs
\* of a group that are not over, all but one have outlived their lock.
THEOREM GroupIsTheHolders == Spec => []LockHolderIsAlone
<1>1. AdmissionInv => LockHolderIsAlone
  <2> SUFFICES ASSUME AdmissionInv, NEW x \in Requests, NEW y \in Requests,
                      InGroup(x), InGroup(y), Group[x] = Group[y], {x, y} \cap lapsed = {}
               PROVE  x = y
    BY DEF LockHolderIsAlone
  <2>1. groupOf[Group[x]] = x /\ groupOf[Group[y]] = y
    BY DEF AdmissionInv
  <2> QED BY <2>1
<1> QED BY <1>1, AdmissionInductive, PTL

\* The admission of runs implements AdmissionContract: one run per key, and
\* answered means scheduled.
THEOREM KeysAreHonoured == Spec => OneRunPerKey
<1>1. Init => Contract!Init
  BY DEF Init, Contract!Init
<1>2. AdmissionInv /\ [Next]_vars => [Contract!Next]_<<keyOf, scheduled, told>>
  <2> SUFFICES ASSUME AdmissionInv, [Next]_vars
               PROVE  [Contract!Next]_<<keyOf, scheduled, told>>
    OBVIOUS
  <2>1. CASE UNCHANGED vars
    BY <2>1 DEF vars
  <2>2. ASSUME NEW r \in Requests, Register(r)
        PROVE  Contract!Choose(r) \/ Contract!Refuse(r)
    <3>1. Key[r] \in Keys /\ told[r] = None /\ keyOf[Key[r]] # r
      BY <2>2 DEF AdmissionInv, TypeOK, Register, Goes, Admitted
    <3> QED BY <2>2, <3>1 DEF Register, Contract!Choose, Contract!Refuse, Refused, cache, runs
  <2>3. ASSUME NEW r \in Requests, Schedule(r) PROVE Contract!Answer(r)
    BY <2>3 DEF AdmissionInv, TypeOK, Schedule, Goes, Admitted, cache,
                Contract!Answer, Contract!Admitted
  <2>4. ASSUME NEW r \in Requests, Acquire(r)
        PROVE  Contract!Refuse(r) \/ UNCHANGED <<keyOf, scheduled, told>>
    BY <2>4 DEF AdmissionInv, TypeOK, Acquire, Goes, Refused, cache, runs, Contract!Refuse
  <2>5. ASSUME NEW r \in Requests,
               LookUp(r) \/ Load(r) \/ SaveRun(r) \/ Breaks(r) \/ EndRun(r)
        PROVE  UNCHANGED <<keyOf, scheduled, told>>
    BY <2>5 DEF LookUp, Load, SaveRun, Breaks, EndRun, cache, runs
  <2>6. ASSUME NEW g \in Groups, ExpireGroup(g)
        PROVE  UNCHANGED <<keyOf, scheduled, told>>
    BY <2>6 DEF ExpireGroup, runs
  <2> QED BY <2>1, <2>2, <2>3, <2>4, <2>5, <2>6 DEF Next, Contract!Next
<1> QED BY <1>1, <1>2, AdmissionInductive, PTL DEF Spec, OneRunPerKey, Contract!Spec

\* What the contract comes to for a caller: of the runs of a key one is started, and
\* whoever is given a run is given one that was.
THEOREM KeysStartOnce == Spec => []OneStartedPerKey
<1> USE RequestAssumption
<1> DEFINE Inv ==
      /\ keyOf \in [Keys -> Requests \cup {None}]
      /\ told \in [Requests -> Requests \cup {None, "locked", "conflict"}]
      /\ scheduled \subseteq Requests
      /\ \A k \in Keys : keyOf[k] # None => Key[keyOf[k]] = k
      /\ \A x \in scheduled : Key[x] # None => keyOf[Key[x]] = x
      /\ \A r \in Requests : told[r] \in Requests =>
            /\ told[r] \in scheduled
            /\ IF Key[r] = None THEN told[r] = r ELSE Key[told[r]] = Key[r]
<1>1. Contract!Init => Inv
  BY DEF Contract!Init
<1>2. Inv /\ [Contract!Next]_<<keyOf, scheduled, told>> => Inv'
  <2> SUFFICES ASSUME Inv, [Contract!Next]_<<keyOf, scheduled, told>> PROVE Inv'
    OBVIOUS
  <2>1. CASE UNCHANGED <<keyOf, scheduled, told>>
    BY <2>1
  <2>2. ASSUME NEW r \in Requests, Contract!Choose(r) PROVE Inv'
    <3>1. /\ Key[r] \in Keys /\ keyOf[Key[r]] = None
          /\ keyOf' = [keyOf EXCEPT ![Key[r]] = r] /\ scheduled' = scheduled /\ told' = told
      BY <2>2 DEF Contract!Choose
    <3>2. \A x \in scheduled : Key[x] # None => keyOf'[Key[x]] = x
      BY <3>1
    <3> QED BY <3>1, <3>2
  <2>3. ASSUME NEW r \in Requests, Contract!Answer(r) PROVE Inv'
    <3> DEFINE run == IF Key[r] = None THEN r ELSE keyOf[Key[r]]
    <3>1. /\ run # None /\ keyOf' = keyOf
          /\ told' = [told EXCEPT ![r] = run] /\ scheduled' = scheduled \cup {run}
      BY <2>3 DEF Contract!Answer, Contract!Admitted
    <3>2. run \in Requests /\ IF Key[r] = None THEN run = r ELSE Key[run] = Key[r]
      BY <3>1
    <3>3. Key[run] # None => keyOf[Key[run]] = run
      BY <3>1
    <3> HIDE DEF run
    <3> QED BY <3>1, <3>2, <3>3
  <2>4. ASSUME NEW r \in Requests, Contract!Refuse(r) PROVE Inv'
    BY <2>4 DEF Contract!Refuse
  <2> QED BY <2>1, <2>2, <2>3, <2>4 DEF Contract!Next
<1>3. Inv => OneStartedPerKey
  BY DEF OneStartedPerKey
<1> HIDE DEF Inv
<1> QED BY <1>1, <1>2, <1>3, KeysAreHonoured, PTL DEF OneRunPerKey, Contract!Spec
=============================================================================
