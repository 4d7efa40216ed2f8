-------------------------- MODULE MCWorkflowEngine --------------------------
(* Small workflows for TLC. *)
EXTENDS WorkflowInvariants, TLC

CONSTANTS a, b, c, d

\* Loops are alike, and so are requests: sound for the safety runs, which alone use it.
Alike == Permutations(Workers) \cup Permutations(Clients)

\* b waits for a.
ChainNeeds == (a :> {}) @@ (b :> {a})
\* b and c wait for a, and d for both.
DiamondNeeds == (a :> {}) @@ (b :> {a}) @@ (c :> {a}) @@ (d :> {b, c})

GatedPlan == (a :> <<"approval", "regular">>) @@ (b :> <<"regular">>)
DiamondPlan == (a :> <<"lenient", "regular">>) @@ (b :> <<"optional">>)
                 @@ (c :> <<"regular">>) @@ (d :> <<"regular">>)
=============================================================================
