----------------------------- MODULE CallService -----------------------------
(***************************************************************************)
(* What a service that executes calls on somebody's behalf promises its    *)
(* callers, with no queue, worker or limit in it: an admitted call gets    *)
(* one answer, which stands, and its work is begun at most once and never  *)
(* after the answer.                                                       *)
(***************************************************************************)
EXTENDS Naturals

CONSTANT Calls
VARIABLES
    answer,  \* "new", "open" once the call is made, then what the caller was told
    starts   \* how often the work of the call was begun

Init == answer = [c \in Calls |-> "new"] /\ starts = [c \in Calls |-> 0]

Unanswered == {"new", "open"}

\* Several calls may be answered, or begun, at once.
Next ==
    /\ \A c \in Calls :
         /\ answer[c] \notin Unanswered => answer'[c] = answer[c]
         /\ answer[c] = "open" => answer'[c] # "new"
         /\ \/ starts'[c] = starts[c]
            \/ starts'[c] = 1 /\ starts[c] = 0 /\ answer[c] \in Unanswered
    /\ DOMAIN answer' = Calls /\ DOMAIN starts' = Calls

Spec == Init /\ [][Next]_<<answer, starts>>
=============================================================================
