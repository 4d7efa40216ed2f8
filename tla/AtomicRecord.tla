---------------------------- MODULE AtomicRecord ----------------------------
(***************************************************************************)
(* What the writers of a shared record rely on: each update is applied to  *)
(* the record as the last one left it, or not at all.                      *)
(***************************************************************************)
CONSTANT Callers
VARIABLES record, outcome

Init == record = {} /\ outcome = [p \in Callers |-> "none"]

Apply(p) ==
    /\ outcome[p] = "none"
    /\ record' = record \cup {p}
    /\ outcome' = [outcome EXCEPT ![p] = "applied"]

Refuse(p) ==
    /\ outcome[p] = "none"
    /\ \E o \in {"rejected", "timeout"} : outcome' = [outcome EXCEPT ![p] = o]
    /\ UNCHANGED record

Next == \E p \in Callers : Apply(p) \/ Refuse(p)
Spec == Init /\ [][Next]_<<record, outcome>>
=============================================================================
