-------------------------- MODULE MCChildInvocation --------------------------
(* Instances of ChildInvocation. *)
EXTENDS ChildInvocation

CONSTANTS w1, w2, c1, c2, c3
=============================================================================
