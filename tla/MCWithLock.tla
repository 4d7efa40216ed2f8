----------------------------- MODULE MCWithLock -----------------------------
(* Instances of WithLock for TLC; one tick stands for a second. *)
EXTENDS WithLock, TLC

Alike == Permutations(Callers)
=============================================================================
