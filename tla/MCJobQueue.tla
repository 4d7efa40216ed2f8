----------------------------- MODULE MCJobQueue -----------------------------
(* Instances of JobQueue for TLC; one tick stands for a second or more. *)
EXTENDS JobQueue
=============================================================================
