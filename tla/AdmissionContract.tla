------------------------- MODULE AdmissionContract -------------------------
(***************************************************************************)
(* What createRun promises its callers: an idempotency key stands for one  *)
(* run, the only one of that key that is ever started, and whoever is      *)
(* answered with a run is answered with one that was started.              *)
(***************************************************************************)
CONSTANTS
    Requests,  \* calls of createRun; the run a request would create has its name
    Keys,
    None,
    Key        \* Key[r]: the idempotency key of request r, or None
VARIABLES
    chosen,    \* the run each key stands for, or None
    started,   \* the runs whose jobs were handed to the queue
    told       \* what each caller got: None, a run, or a refusal

Init ==
    /\ chosen = [k \in Keys |-> None]
    /\ started = {}
    /\ told = [r \in Requests |-> None]

Choose(r) ==
    /\ Key[r] # None /\ chosen[Key[r]] = None
    /\ chosen' = [chosen EXCEPT ![Key[r]] = r]
    /\ UNCHANGED <<started, told>>

Admitted(r) == IF Key[r] = None THEN r ELSE chosen[Key[r]]

Answer(r) ==
    /\ told[r] = None /\ Admitted(r) # None
    /\ told' = [told EXCEPT ![r] = Admitted(r)]
    /\ started' = started \cup {Admitted(r)}
    /\ UNCHANGED chosen

\* A key is refused only when it stands for somebody else's run.
Refuse(r) ==
    /\ told[r] = None
    /\ \/ told' = [told EXCEPT ![r] = "locked"]
       \/ /\ Key[r] # None /\ chosen[Key[r]] \notin {None, r}
          /\ told' = [told EXCEPT ![r] = "conflict"]
    /\ UNCHANGED <<chosen, started>>

Next == \E r \in Requests : Choose(r) \/ Answer(r) \/ Refuse(r)
Spec == Init /\ [][Next]_<<chosen, started, told>>
=============================================================================
