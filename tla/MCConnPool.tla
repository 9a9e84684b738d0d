----------------------------- MODULE MCConnPool -----------------------------
(* Instances of ConnPool for TLC. *)
EXTENDS ConnPool, TLC

CONSTANTS s1, s2, c1, c2, c3, t1, t2

\* Connections are interchangeable, and so are exchanges and servers.
MCSymmetry ==
    Permutations({c1, c2, c3}) \cup Permutations({t1, t2}) \cup Permutations({s1, s2})
=============================================================================
