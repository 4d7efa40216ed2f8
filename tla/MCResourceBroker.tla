--------------------------- MODULE MCResourceBroker ---------------------------
(* Instances of ResourceBroker: requests of equal or of different priority. *)
EXTENDS ResourceBroker, TLC

CONSTANTS c1, c2, c3, u1, llm, db

Kinds == (c1 :> llm @@ c2 :> llm @@ c3 :> db @@ u1 :> llm)
AllNormal == [r \in Calls |-> 2]
Mixed == (c1 :> 3 @@ c2 :> 1 @@ c3 :> 2)
=============================================================================
