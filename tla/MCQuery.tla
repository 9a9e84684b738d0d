------------------------------- MODULE MCQuery -------------------------------
(***************************************************************************)
(* The way of a query: the lookups, the cache and the refreshes that the   *)
(* queries share (Resolver), and one lookup on its way through the name    *)
(* servers (Iterative).  To Resolver a lookup is one step with one of its  *)
(* outcomes, so that the two share no state and each is checked by itself: *)
(* a behaviour of both is an interleaving of a behaviour of one and a      *)
(* behaviour of the other.                                                 *)
(***************************************************************************)
EXTENDS MCResolver, MCIterative

VARIABLE part  \* the part that is running

queryVars == <<vars, lookupVars, part>>

\* The part that stands still starts in one state.
QueryInit ==
    /\ Init /\ LookupInit
    /\ part \in {"flight", "lookup"}
    /\ part = "lookup" => key = [q \in Queries |-> k1]

InFlight == part = "flight" /\ UNCHANGED <<lookupVars, part>>

InLookup == part = "lookup" /\ UNCHANGED <<vars, part>>

QueryNext == (InFlight /\ Next) \/ (InLookup /\ LookupNext)

\* Fairness of Resolver and LookupLiveSpec of Iterative, for the part that is
\* running.
QueryFairness ==
    /\ \A q \in Queries :
         /\ WF_queryVars(InFlight /\ QueryStep(q))
         /\ SF_queryVars(InFlight /\ AcquireSem(q))
    /\ \A p \in Prefetchers : WF_queryVars(InFlight /\ PrefetchStep(p))
    /\ WF_queryVars(InLookup /\ LookupNext)

QuerySpec == QueryInit /\ [][QueryNext]_queryVars /\ QueryFairness

\* Every query is dealt with, and every lookup returns: EveryQueryEnds and
\* LookupEnds, of the part that is running (resolver.go:52-78, 564-700).
QueryEnds == <>(IF part = "flight" THEN AllDone ELSE Over)
=============================================================================
