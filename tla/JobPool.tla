------------------------------ MODULE JobPool ------------------------------
(***************************************************************************)
(* What a job queue promises: an entry waits until exactly one loop takes  *)
(* it, and is never lost while it waits.                                   *)
(***************************************************************************)
CONSTANTS Entries, Loops, None
VARIABLES waiting, holder

Init == waiting = {} /\ holder = [w \in Loops |-> None]

Put(e) ==
    /\ e \notin waiting
    /\ waiting' = waiting \cup {e}
    /\ UNCHANGED holder

Take(w, e) ==
    /\ e \in waiting /\ holder[w] = None
    /\ waiting' = waiting \ {e}
    /\ holder' = [holder EXCEPT ![w] = e]

PutBack(w) ==
    /\ holder[w] \in Entries
    /\ waiting' = waiting \cup {holder[w]}
    /\ holder' = [holder EXCEPT ![w] = None]

\* The job is done, or the process that held its entry is.
Drop(w) ==
    /\ holder' = [holder EXCEPT ![w] = None]
    /\ UNCHANGED waiting

Next ==
    \/ \E e \in Entries : Put(e)
    \/ \E w \in Loops : PutBack(w) \/ Drop(w) \/ \E e \in Entries : Take(w, e)
Spec == Init /\ [][Next]_<<waiting, holder>>
=============================================================================
