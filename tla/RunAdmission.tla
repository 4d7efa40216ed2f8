---------------------------- MODULE RunAdmission ----------------------------
(***************************************************************************)
(* RunCoordinator.ensureRun under WorkflowEngine.createRun: idempotency    *)
(* keys and concurrency groups, both kept in the cache with                *)
(* setIfNotExists. Each action ends at an await, so that any number of     *)
(* requests, in one process or several, interleave between them. A request *)
(* gives its name to the run it creates.                                   *)
(*                                                                         *)
(* The adapter's setIfNotExists is taken to be atomic (Redis). Keys do not *)
(* expire (24 h). The lock of a group ends by time alone (30 min), at any  *)
(* moment and whatever its holder is doing: nobody renews it, and nothing  *)
(* that ends a run gives it back.                                          *)
(***************************************************************************)
CONSTANTS
    Requests,  \* calls of createRun
    Keys, Groups, None,
    Key,       \* Key[r]: the idempotencyKey of request r, or None
    Group      \* Group[r]: its concurrencyGroup, or None

ASSUME RequestAssumption ==
    /\ None \notin Keys \cup Groups
    /\ {"locked", "conflict", None} \cap Requests = {}
    /\ None \notin {"locked", "conflict"}
    /\ Key \in [Requests -> Keys \cup {None}]
    /\ Group \in [Requests -> Groups \cup {None}]

VARIABLES
    pc,         \* where each request is
    found,      \* the run a request will schedule and return, None if not known
    stored,     \* runs whose record is in storage
    keyOf,      \* kb:idempotency:<key>
    groupOf,    \* kb:concurrency:<group>
    scheduled,  \* runs handed to scheduleRun
    over,       \* runs that reached a terminal state
    lapsed,     \* history: runs that lost the lock of their group before they were over
    told        \* what createRun returned or threw

vars == <<pc, found, stored, keyOf, groupOf, scheduled, over, lapsed, told>>
cache == <<keyOf, groupOf, lapsed>>
runs == <<stored, scheduled, over>>

Init ==
    /\ pc = [r \in Requests |-> IF Key[r] = None THEN "acquire" ELSE "lookup"]
    /\ found = [r \in Requests |-> None]
    /\ stored = {}
    /\ keyOf = [k \in Keys |-> None]
    /\ groupOf = [g \in Groups |-> None]
    /\ scheduled = {}
    /\ over = {}
    /\ lapsed = {}
    /\ told = [r \in Requests |-> None]

Goes(r, from, to) == pc[r] = from /\ pc' = [pc EXCEPT ![r] = to]

Refused(r, why) == told' = [told EXCEPT ![r] = why]

\* loadByIdempotencyKey: the key is read first, then the record it names.
LookUp(r) ==
    /\ Goes(r, "lookup", IF keyOf[Key[r]] = None THEN "acquire" ELSE "load")
    /\ found' = [found EXCEPT ![r] = keyOf[Key[r]]]
    /\ UNCHANGED <<cache, runs, told>>

\* mutant: a reused run is returned at once; only new ones are scheduled.
LoadAndReturn(r) ==
    /\ found[r] \in stored
    /\ Goes(r, "load", "done")
    /\ Refused(r, found[r])
    /\ UNCHANGED <<found, cache, runs>>

\* A run that is found is returned by ensureRun; a key without a record is
\* treated like no key.
Load(r) ==
    /\ Goes(r, "load", IF found[r] \in stored THEN "schedule" ELSE "acquire")
    /\ found' = IF found[r] \in stored THEN found ELSE [found EXCEPT ![r] = None]
    /\ UNCHANGED <<cache, runs, told>>

\* mutant: the answer of setIfNotExists is not looked at.
AcquireUnchecked(r) ==
    /\ Goes(r, "acquire", "save")
    /\ groupOf' = IF Group[r] # None /\ groupOf[Group[r]] = None
                  THEN [groupOf EXCEPT ![Group[r]] = r] ELSE groupOf
    /\ UNCHANGED <<found, keyOf, lapsed, runs, told>>

\* ConcurrencyManager.acquire; the request that finds the group locked throws.
Acquire(r) ==
    \/ /\ Group[r] = None
       /\ Goes(r, "acquire", "save")
       /\ UNCHANGED <<found, cache, runs, told>>
    \/ /\ Group[r] # None /\ groupOf[Group[r]] = None
       /\ Goes(r, "acquire", "save")
       /\ groupOf' = [groupOf EXCEPT ![Group[r]] = r]
       /\ UNCHANGED <<found, keyOf, lapsed, runs, told>>
    \/ /\ Group[r] # None /\ groupOf[Group[r]] # None
       /\ Goes(r, "acquire", "done")
       /\ Refused(r, "locked")
       /\ UNCHANGED <<found, cache, runs>>

SaveRun(r) ==
    /\ Goes(r, "save", IF Key[r] = None THEN "schedule" ELSE "register")
    /\ stored' = stored \cup {r}
    /\ found' = [found EXCEPT ![r] = IF Key[r] = None THEN r ELSE None]
    /\ UNCHANGED <<cache, scheduled, over, told>>

\* mutant: the key is written with set, so that the last writer wins.
RegisterOver(r) ==
    /\ Goes(r, "register", "schedule")
    /\ keyOf' = [keyOf EXCEPT ![Key[r]] = r]
    /\ found' = [found EXCEPT ![r] = r]
    /\ UNCHANGED <<groupOf, lapsed, runs, told>>

\* registerIdempotencyKey. The loser of two requests with one key throws: its
\* run stays in storage, never scheduled, and its group stays locked.
Register(r) ==
    \/ /\ keyOf[Key[r]] = None
       /\ Goes(r, "register", "schedule")
       /\ keyOf' = [keyOf EXCEPT ![Key[r]] = r]
       /\ found' = [found EXCEPT ![r] = r]
       /\ UNCHANGED <<groupOf, lapsed, runs, told>>
    \/ /\ keyOf[Key[r]] # None
       /\ Goes(r, "register", "done")
       /\ Refused(r, "conflict")
       /\ UNCHANGED <<found, cache, runs>>

\* createRun schedules what ensureRun returned, new or reused.
Schedule(r) ==
    /\ Goes(r, "schedule", "done")
    /\ scheduled' = scheduled \cup {found[r]}
    /\ told' = [told EXCEPT ![r] = found[r]]
    /\ UNCHANGED <<found, stored, cache, over>>

\* The process dies, or a call of the cache or the storage throws.
Breaks(r) ==
    /\ pc[r] # "done"
    /\ pc' = [pc EXCEPT ![r] = "dead"]
    /\ UNCHANGED <<found, cache, runs, told>>

\* checkRunCompletion or cancelRun: neither gives the group back.
EndRun(x) ==
    /\ x \in stored \ over
    /\ over' = over \cup {x}
    /\ UNCHANGED <<pc, found, stored, cache, scheduled, told>>

\* The lock of a group reaches the end of its life, its holder at work or not.
ExpireGroup(g) ==
    /\ groupOf[g] # None
    /\ groupOf' = [groupOf EXCEPT ![g] = None]
    /\ lapsed' = lapsed \cup ({groupOf[g]} \ over)
    /\ UNCHANGED <<pc, found, keyOf, runs, told>>

Next ==
    \/ \E r \in Requests :
         \/ LookUp(r) \/ Load(r) \/ Acquire(r) \/ SaveRun(r) \/ Register(r)
         \/ Schedule(r) \/ Breaks(r) \/ EndRun(r)
    \/ \E g \in Groups : ExpireGroup(g)

Spec == Init /\ [][Next]_vars
-----------------------------------------------------------------------------
\* The variables are in their ranges, and what the cache names exists.
TypeOK ==
    /\ pc \in [Requests -> {"lookup", "load", "acquire", "save", "register",
                            "schedule", "done", "dead"}]
    /\ found \in [Requests -> Requests \cup {None}]
    /\ stored \subseteq Requests
    /\ keyOf \in [Keys -> stored \cup {None}]
    /\ groupOf \in [Groups -> Requests \cup {None}]
    /\ scheduled \subseteq stored /\ over \subseteq stored
    /\ lapsed \subseteq Requests
    /\ told \in [Requests -> stored \cup {None, "locked", "conflict"}]

\* A request that was let into its group, or its run, until the run is over.
InGroup(x) == Group[x] # None /\ (pc[x] = "save" \/ x \in stored) /\ x \notin over

\* While the lock of its group lasts, a run has the group to itself: no other run that
\* has not outlived its own lock is at work in it, and no request is let in beside it,
\* whatever requests fail in between or schedule a run they found by its key. Two runs are
\* at work together only if one of them is older than its lock: it took longer than the
\* lock's 30 minutes, or was scheduled by a later request with its key after the lock had
\* expired. (run-coordinator.ts 62-81, 205-214, concurrency-manager.ts 37-52,
\* engine.ts 198-222)
LockHolderIsAlone ==
    \A x, y \in Requests :
        InGroup(x) /\ InGroup(y) /\ Group[x] = Group[y] /\ {x, y} \cap lapsed = {} => x = y

\* lock.ts:8 calls the lock of a group "run-scoped". If it were, no two runs of a group
\* would ever be under way; it is violated by a run that is not over when its lock expires
\* and a request that comes then. (concurrency-manager.ts 6-18)
GroupHasOneRun ==
    \A x, y \in scheduled \ over : Group[x] = Group[y] /\ Group[x] # None => x = y

\* An idempotency key stands for one run for ever, no other run of that key is
\* started, and a caller who is answered with a run, his own or a reused one,
\* gets one that was scheduled even if its creator died before doing so.
\* (run-coordinator.ts 47-97, 180-214, engine.ts 198-222)
Contract == INSTANCE AdmissionContract WITH
    chosen <- keyOf, started <- scheduled
OneRunPerKey == Contract!Spec

\* Hence no two runs of one key are ever started, and a caller who is answered with a run
\* is answered with a started one, of the key it asked for or of its own making.
OneStartedPerKey ==
    /\ \A x, y \in scheduled : Key[x] = Key[y] /\ Key[x] # None => x = y
    /\ \A r \in Requests : told[r] \in Requests =>
          /\ told[r] \in scheduled
          /\ IF Key[r] = None THEN told[r] = r ELSE Key[told[r]] = Key[r]

\* The run a request may schedule: its own, or what its key stands for.
Admitted(r) == IF Key[r] = None THEN r ELSE keyOf[Key[r]]

Creating(r) == pc[r] \in {"lookup", "load", "acquire", "save"}

\* The strengthening that makes both inductive: whatever a request has found is
\* still what its key stands for, and a run that has neither ended nor lost its
\* lock holds its group. (run-coordinator.ts 47-97, concurrency-manager.ts 37-52)
AdmissionInv ==
    /\ TypeOK
    /\ \A r \in Requests :
         /\ pc[r] \in {"lookup", "load", "register"} => Key[r] # None
         /\ pc[r] = "load" => found[r] # None /\ found[r] = keyOf[Key[r]]
         /\ pc[r] = "schedule" => found[r] \in stored /\ found[r] = Admitted(r)
         /\ pc[r] = "register" => r \in stored /\ \A k \in Keys : keyOf[k] # r
         /\ Creating(r) => r \notin stored
         /\ pc[r] \notin {"done", "dead"} => told[r] = None
         /\ InGroup(r) /\ r \notin lapsed => groupOf[Group[r]] = r
=============================================================================
