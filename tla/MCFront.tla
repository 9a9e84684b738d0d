------------------------------- MODULE MCFront -------------------------------
(***************************************************************************)
(* What handleQuery does beside resolving: the rate limiter, and the       *)
(* counters, log and history.  The two share no state and no lock, so that *)
(* each is checked by itself: a behaviour of both is an interleaving of a  *)
(* behaviour of one and a behaviour of the other.                          *)
(***************************************************************************)
EXTENDS RateLimiter, QueryLog, TLC

CONSTANTS ip1, ip2, t1, t2

VARIABLE part  \* the part that is running

FrontInit == Init /\ QueryLogInit /\ part \in {"limiter", "log"}

FrontNext ==
    /\ UNCHANGED part
    /\ \/ part = "limiter" /\ Next /\ UNCHANGED queryLogVars
       \/ part = "log" /\ QueryLogNext /\ UNCHANGED vars

FrontSpec == FrontInit /\ [][FrontNext]_<<vars, queryLogVars, part>>

\* Addresses are interchangeable, and so are the limiter's goroutines.
MCSymmetry == Permutations({ip1, ip2}) \cup Permutations({t1, t2})
=============================================================================
