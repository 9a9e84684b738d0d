------------------------------ MODULE MCCache ------------------------------
(* Instances of Cache for TLC. *)
EXTENDS Cache, TLC

CONSTANTS k1, k2, k3, t1, t2, p1, p2

\* One key.
MCSingle == (k1 :> 0)

\* Two keys in one shard, one in the other.
MCTwoAndOne == (k1 :> 0) @@ (k2 :> 0) @@ (k3 :> 1)

\* One that lives a second and has a longer record, one Set refuses.
MCFew == {{}, {1, 2}}

\* Goroutines that run the same code are interchangeable.
MCSymmetry == Permutations({t1, t2}) \cup Permutations({p1, p2})
=============================================================================
