--------------------------- MODULE MCRunAdmission ---------------------------
EXTENDS RunAdmission, TLC
CONSTANTS r1, r2, r3, r4, k, l, g
\* Two requests with one key, one with another, all of one group, and one
\* with the first key but no group.
KeyOfRequest == (r1 :> k) @@ (r2 :> k) @@ (r3 :> l) @@ (r4 :> k)
GroupOfRequest == (r1 :> g) @@ (r2 :> g) @@ (r3 :> g) @@ (r4 :> None)
=============================================================================
