----------------------------- MODULE MCResolver -----------------------------
(* Instances of Resolver for TLC. *)
EXTENDS Resolver, TLC

CONSTANTS q1, q2, q3, p1, k1, k2

\* Queries are interchangeable, and so are the keys outside the zones.
MCSymmetry == Permutations(Queries)
=============================================================================
