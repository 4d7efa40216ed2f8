-------------------------- MODULE MCHostConnection --------------------------
(* An instance of HostConnection: a host that connects twice.              *)
EXTENDS HostConnection

CONSTANTS k1, k2, c1
=============================================================================
