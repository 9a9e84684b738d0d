------------------------------ MODULE Resolver ------------------------------
(***************************************************************************)
(* The path of a client query through handleQuery (server.go) and resolve  *)
(* (resolver.go): cache lookup, the single-flight table `inflight', the    *)
(* semaphore that bounds upstream lookups, the choice of upstream, the     *)
(* stores into the cache, the wake-up of the queries that waited, and the  *)
(* reply.  The background refresh that the cache starts (SetPrefetchFn in  *)
(* server.New) runs beside the queries.                                    *)
(*                                                                         *)
(* A message object is named by the goroutine that received it from an     *)
(* upstream or cloned it from the cache, so that sharing one object        *)
(* between queries is visible.  The cache is abstracted to what module     *)
(* Cache promises: it may forget an entry at any time.                     *)
(***************************************************************************)
EXTENDS Integers, FiniteSets

CONSTANTS
    Queries,        \* client queries: one handleQuery goroutine each
    Prefetchers,    \* prefetch goroutines that may be started
    Keys,           \* (name, qtype) pairs
    ZoneKeys,       \* keys that lookupZone finds a zone for
    Forwarder,      \* resolver.forwarder.enabled
    Fallback,       \* resolver.forwarder.fallback_to_iterative
    DNSSEC,         \* resolver.dnssec
    MaxConcurrent,  \* resolver.max_concurrent, 0 = unlimited
    None            \* nil

ASSUME ResolverConstants ==
    /\ IsFiniteSet(Queries)
    /\ IsFiniteSet(Prefetchers)
    /\ ZoneKeys \subseteq Keys
    /\ Forwarder \in BOOLEAN
    /\ Fallback \in BOOLEAN
    /\ DNSSEC \in BOOLEAN
    /\ MaxConcurrent \in Nat
    /\ Queries \cap Prefetchers = {}
    /\ None \notin Queries \cup Prefetchers

VARIABLES
    pc,           \* where each query is
    key,          \* the question of each query
    positive,     \* cache: the message object stored for each key, or None
    negative,     \* cache: the keys with a live negative entry
    flagged,      \* message objects whose cache entry has `prefetching' set
    inflight,     \* the query that leads the lookup of each key, or None
    leader,       \* the query whose call a waiting query waits for
    call,         \* result each leader publishes: [done, msg, err]
    sem,          \* the queries holding a slot of the semaphore
    outcome,      \* what the last upstream attempt of a leader returned
    heap,         \* message objects: the ID and the data they hold
    resp,         \* the message object a query is answering with
    sent,         \* the reply that was written to the client, or None
    fetch         \* state of each prefetch goroutine

vars == <<pc, key, positive, negative, flagged, inflight, leader, call, sem,
          outcome, heap, resp, sent, fetch>>

-----------------------------------------------------------------------------
(* Data *)

Objects == Queries \cup Prefetchers

\* "bogus" data is what resolveAtDNSSEC rejects, "good" data what it lets
\* through; the lookups that do not validate return either.
Data == {"good", "bogus"}

\* Results of an upstream attempt: a message, an error whose text contains
\* "NXDOMAIN" (module Iterative says when), or another error.
Outcomes == {"none", "good", "bogus", "nxdomain", "error"}

NoCall == [done |-> FALSE, msg |-> None, err |-> FALSE]

\* The header ID before a reply sets it is the upstream's, None here.
Fresh(data) == [id |-> None, data |-> data]

Reply(id, rcode, data) == [id |-> id, rcode |-> rcode, data |-> data]

\* Where resolve, or the prefetch function, sends the lookup of k first.
FirstHop(k) ==
    IF k \in ZoneKeys \/ Forwarder THEN "servers"
    ELSE IF DNSSEC THEN "dnssec" ELSE "iterate"

\* The prefetch function never validates.
FirstPrefetchHop(k) ==
    IF k \in ZoneKeys \/ Forwarder THEN "servers" ELSE "iterate"

\* Only the forwarders of keys outside the zones have a fallback.
FallsBack(k) == k \notin ZoneKeys /\ Fallback

\* The results an attempt may have: for resolveAtDNSSEC, bogus data is an
\* error.
Possible(hop) ==
    IF hop = "dnssec" THEN {"good", "nxdomain", "error"}
                      ELSE {"good", "bogus", "nxdomain", "error"}

-----------------------------------------------------------------------------
(* handleQuery, before resolve *)

Send(q, reply) == sent' = [sent EXCEPT ![q] = reply]

\* The access list, the rate limiter, an unparsable message or an empty
\* question section end the query without a lookup; only the access list
\* answers.  The decisions themselves are inputs here.
Reject(q) ==
    /\ pc[q] = "arrived"
    /\ pc' = [pc EXCEPT ![q] = "done"]
    /\ \/ Send(q, Reply(q, "refused", None))
       \/ UNCHANGED sent
    /\ UNCHANGED <<key, positive, negative, flagged, inflight, leader, call, sem,
                   outcome, heap, resp, fetch>>

\* The filter blocks the name (NXDOMAIN), or a local record answers it.
AnswerLocally(q) ==
    /\ pc[q] = "arrived"
    /\ pc' = [pc EXCEPT ![q] = "done"]
    /\ \E rcode \in {"nxdomain", "noerror"} : Send(q, Reply(q, rcode, None))
    /\ UNCHANGED <<key, positive, negative, flagged, inflight, leader, call, sem,
                   outcome, heap, resp, fetch>>

-----------------------------------------------------------------------------
(* resolve: the cache *)

\* s.cache.IsNegative
CheckNegative(q) ==
    /\ pc[q] = "arrived"
    /\ pc' = [pc EXCEPT ![q] = IF key[q] \in negative THEN "fail" ELSE "get"]
    /\ UNCHANGED <<key, positive, negative, flagged, inflight, leader, call, sem,
                   outcome, heap, resp, sent, fetch>>

\* Get's compare-and-swap on the flag of an entry close to its expiry.
MaybePrefetch(k, entry) ==
    \/ /\ entry \notin flagged
       /\ \E p \in Prefetchers :
            /\ fetch[p].pc = "idle"
            /\ fetch' = [fetch EXCEPT ![p] =
                            [pc |-> FirstPrefetchHop(k), key |-> k, entry |-> entry]]
       /\ flagged' = flagged \cup {entry}
    \/ UNCHANGED <<flagged, fetch>>

\* Mutant of CacheHit: the stored message itself is returned, not a clone.
CacheHitShares(q) ==
    /\ pc[q] = "get"
    /\ positive[key[q]] # None
    /\ MaybePrefetch(key[q], positive[key[q]])
    /\ resp' = [resp EXCEPT ![q] = positive[key[q]]]
    /\ pc' = [pc EXCEPT ![q] = "setid"]
    /\ UNCHANGED <<key, positive, negative, inflight, leader, call, sem, outcome,
                   heap, sent>>

\* s.cache.Get, a hit: the query gets a clone of its own.
CacheHit(q) ==
    /\ pc[q] = "get"
    /\ positive[key[q]] # None
    /\ LET entry == positive[key[q]] IN
         /\ heap' = [heap EXCEPT ![q] = heap[entry]]
         /\ MaybePrefetch(key[q], entry)
    /\ resp' = [resp EXCEPT ![q] = q]
    /\ pc' = [pc EXCEPT ![q] = "setid"]
    /\ UNCHANGED <<key, positive, negative, inflight, leader, call, sem, outcome, sent>>

CacheMiss(q) ==
    /\ pc[q] = "get"
    /\ positive[key[q]] = None
    /\ pc' = [pc EXCEPT ![q] = "join"]
    /\ UNCHANGED <<key, positive, negative, flagged, inflight, leader, call, sem,
                   outcome, heap, resp, sent, fetch>>

-----------------------------------------------------------------------------
(* resolve: single flight *)

\* Mutant of Join: Load and Store apart, so that a query that has loaded
\* before the leader stored leads as well.
JoinLoadThenStore(q) ==
    /\ pc[q] = "join"
    /\ LET l == inflight[key[q]] IN
       \/ /\ IF l = None THEN TRUE ELSE pc[l] = "acquire"
          /\ inflight' = [inflight EXCEPT ![key[q]] = q]
          /\ pc' = [pc EXCEPT ![q] = "acquire"]
          /\ UNCHANGED leader
       \/ /\ l # None
          /\ leader' = [leader EXCEPT ![q] = l]
          /\ pc' = [pc EXCEPT ![q] = "wait"]
          /\ UNCHANGED inflight
    /\ UNCHANGED <<key, positive, negative, flagged, call, sem, outcome, heap,
                   resp, sent, fetch>>

\* Mutant of Join: the table is keyed by less than the whole question.
JoinIgnoresType(q) ==
    /\ pc[q] = "join"
    /\ LET leaders == {inflight[k] : k \in Keys} \ {None} IN
       IF leaders = {}
       THEN /\ inflight' = [inflight EXCEPT ![key[q]] = q]
            /\ pc' = [pc EXCEPT ![q] = "acquire"]
            /\ UNCHANGED leader
       ELSE /\ \E l \in leaders : leader' = [leader EXCEPT ![q] = l]
            /\ pc' = [pc EXCEPT ![q] = "wait"]
            /\ UNCHANGED inflight
    /\ UNCHANGED <<key, positive, negative, flagged, call, sem, outcome, heap,
                   resp, sent, fetch>>

\* LoadOrStore on the inflight table: the first query for a key leads, the
\* others wait for it.
Join(q) ==
    /\ pc[q] = "join"
    /\ IF inflight[key[q]] = None
       THEN /\ inflight' = [inflight EXCEPT ![key[q]] = q]
            /\ pc' = [pc EXCEPT ![q] = "acquire"]
            /\ UNCHANGED leader
       ELSE /\ leader' = [leader EXCEPT ![q] = inflight[key[q]]]
            /\ pc' = [pc EXCEPT ![q] = "wait"]
            /\ UNCHANGED inflight
    /\ UNCHANGED <<key, positive, negative, flagged, call, sem, outcome, heap,
                   resp, sent, fetch>>

\* <-existing.done: the result is read after the channel is closed.
Wake(q) ==
    /\ pc[q] = "wait"
    /\ call[leader[q]].done
    /\ LET c == call[leader[q]] IN
         /\ resp' = [resp EXCEPT ![q] = c.msg]
         /\ pc' = [pc EXCEPT ![q] = IF c.err THEN "fail" ELSE "setid"]
    /\ UNCHANGED <<key, positive, negative, flagged, inflight, leader, call, sem,
                   outcome, heap, sent, fetch>>

\* Mutant of AcquireSem: the channel has one slot too many.
AcquireSemOneMore(q) ==
    /\ pc[q] = "acquire"
    /\ Cardinality(sem) <= MaxConcurrent
    /\ sem' = sem \cup {q}
    /\ pc' = [pc EXCEPT ![q] = FirstHop(key[q])]
    /\ UNCHANGED <<key, positive, negative, flagged, inflight, leader, call,
                   outcome, heap, resp, sent, fetch>>

\* s.sem <- struct{}{}, then the first upstream is chosen.
AcquireSem(q) ==
    /\ pc[q] = "acquire"
    /\ IF MaxConcurrent > 0
       THEN /\ Cardinality(sem) < MaxConcurrent
            /\ sem' = sem \cup {q}
       ELSE UNCHANGED sem
    /\ pc' = [pc EXCEPT ![q] = FirstHop(key[q])]
    /\ UNCHANGED <<key, positive, negative, flagged, inflight, leader, call,
                   outcome, heap, resp, sent, fetch>>

-----------------------------------------------------------------------------
(* resolve: the upstream lookup *)

\* resolveViaServers returns: any error but NXDOMAIN means every server
\* failed; on any error a forwarder may fall back to iterative resolution.
ServersReturn(q) ==
    /\ pc[q] = "servers"
    /\ \E o \in Possible("servers") :
         /\ outcome' = [outcome EXCEPT ![q] = o]
         /\ IF o \in Data
            THEN /\ heap' = [heap EXCEPT ![q] = Fresh(o)]
                 /\ pc' = [pc EXCEPT ![q] = "finish"]
            ELSE /\ UNCHANGED heap
                 /\ pc' = [pc EXCEPT ![q] =
                             IF FallsBack(key[q]) THEN "iterate" ELSE "finish"]
    /\ UNCHANGED <<key, positive, negative, flagged, inflight, leader, call, sem,
                   resp, sent, fetch>>

\* resolveAt or resolveAtDNSSEC returns.
LookupReturn(q, hop) ==
    /\ pc[q] = hop
    /\ \E o \in Possible(hop) :
         /\ outcome' = [outcome EXCEPT ![q] = o]
         /\ heap' = IF o \in Data THEN [heap EXCEPT ![q] = Fresh(o)] ELSE heap
    /\ pc' = [pc EXCEPT ![q] = "finish"]
    /\ UNCHANGED <<key, positive, negative, flagged, inflight, leader, call, sem,
                   resp, sent, fetch>>

\* Mutant of Finish: a message that is not cached is not published either.
FinishOnlyCached(q) ==
    /\ pc[q] = "finish"
    /\ pc' = [pc EXCEPT ![q] = "release"]
    /\ IF outcome[q] \in Data
       THEN /\ \/ /\ positive' = [positive EXCEPT ![key[q]] = q]
                  /\ call' = [call EXCEPT ![q].msg = q]
               \/ UNCHANGED <<positive, call>>
            /\ resp' = [resp EXCEPT ![q] = q]
            /\ UNCHANGED negative
       ELSE /\ negative' = IF outcome[q] = "nxdomain" THEN negative \cup {key[q]}
                                                      ELSE negative
            /\ call' = [call EXCEPT ![q].err = TRUE]
            /\ UNCHANGED <<positive, resp>>
    /\ UNCHANGED <<key, flagged, inflight, leader, sem, outcome, heap, sent, fetch>>

\* The leader records the result: NXDOMAIN in the negative cache, a message
\* in the cache (unless its TTL is 0), and either in the call the others
\* wait on.
Finish(q) ==
    /\ pc[q] = "finish"
    /\ pc' = [pc EXCEPT ![q] = "release"]
    /\ IF outcome[q] \in Data
       THEN /\ \E cacheable \in BOOLEAN :
                 positive' = IF cacheable THEN [positive EXCEPT ![key[q]] = q] ELSE positive
            /\ call' = [call EXCEPT ![q].msg = q]
            /\ resp' = [resp EXCEPT ![q] = q]
            /\ UNCHANGED negative
       ELSE /\ negative' = IF outcome[q] = "nxdomain" THEN negative \cup {key[q]}
                                                      ELSE negative
            /\ call' = [call EXCEPT ![q].err = TRUE]
            /\ UNCHANGED <<positive, resp>>
    /\ UNCHANGED <<key, flagged, inflight, leader, sem, outcome, heap, sent, fetch>>

\* Mutant of ReleaseSem: an error path keeps the slot.
ReleaseSemOnSuccess(q) ==
    /\ pc[q] = "release"
    /\ sem' = IF call[q].err THEN sem ELSE sem \ {q}
    /\ pc' = [pc EXCEPT ![q] = "delete"]
    /\ UNCHANGED <<key, positive, negative, flagged, inflight, leader, call,
                   outcome, heap, resp, sent, fetch>>

\* The deferred calls run last-in first-out: the semaphore first, then the
\* table, then the channel.
ReleaseSem(q) ==
    /\ pc[q] = "release"
    /\ sem' = sem \ {q}
    /\ pc' = [pc EXCEPT ![q] = "delete"]
    /\ UNCHANGED <<key, positive, negative, flagged, inflight, leader, call,
                   outcome, heap, resp, sent, fetch>>

DeleteInflight(q) ==
    /\ pc[q] = "delete"
    /\ inflight' = [inflight EXCEPT ![key[q]] = None]
    /\ pc' = [pc EXCEPT ![q] = "close"]
    /\ UNCHANGED <<key, positive, negative, flagged, leader, call, sem, outcome,
                   heap, resp, sent, fetch>>

\* Mutant of CloseDone: an error path returns without closing the channel.
CloseDoneOnSuccess(q) ==
    /\ pc[q] = "close"
    /\ call' = IF call[q].err THEN call ELSE [call EXCEPT ![q].done = TRUE]
    /\ pc' = [pc EXCEPT ![q] = IF call[q].err THEN "fail" ELSE "setid"]
    /\ UNCHANGED <<key, positive, negative, flagged, inflight, leader, sem,
                   outcome, heap, resp, sent, fetch>>

CloseDone(q) ==
    /\ pc[q] = "close"
    /\ call' = [call EXCEPT ![q].done = TRUE]
    /\ pc' = [pc EXCEPT ![q] = IF call[q].err THEN "fail" ELSE "setid"]
    /\ UNCHANGED <<key, positive, negative, flagged, inflight, leader, sem,
                   outcome, heap, resp, sent, fetch>>

-----------------------------------------------------------------------------
(* handleQuery, after resolve *)

\* servfail: whatever the error was, NXDOMAIN included.
ReplyFailure(q) ==
    /\ pc[q] = "fail"
    /\ Send(q, Reply(q, "servfail", None))
    /\ pc' = [pc EXCEPT ![q] = "done"]
    /\ UNCHANGED <<key, positive, negative, flagged, inflight, leader, call, sem,
                   outcome, heap, resp, fetch>>

\* resp.ID = msg.ID, in the object resolve returned.
SetID(q) ==
    /\ pc[q] = "setid"
    /\ heap' = [heap EXCEPT ![resp[q]].id = q]
    /\ pc' = [pc EXCEPT ![q] = "pack"]
    /\ UNCHANGED <<key, positive, negative, flagged, inflight, leader, call, sem,
                   outcome, resp, sent, fetch>>

\* resp.Pack reads the object again; the packed bytes are written.
PackAndSend(q) ==
    /\ pc[q] = "pack"
    /\ Send(q, Reply(heap[resp[q]].id, "noerror", heap[resp[q]].data))
    /\ pc' = [pc EXCEPT ![q] = "done"]
    /\ UNCHANGED <<key, positive, negative, flagged, inflight, leader, call, sem,
                   outcome, heap, resp, fetch>>

-----------------------------------------------------------------------------
(* The prefetch goroutine *)

NotFetching == [pc |-> "idle", key |-> None, entry |-> None]

\* The prefetch function returned without a message to store.
PrefetchFails(p) ==
    /\ \/ fetch[p].pc = "servers" /\ ~FallsBack(fetch[p].key)
       \/ fetch[p].pc = "iterate"
    /\ fetch' = [fetch EXCEPT ![p].pc = "reset"]
    /\ UNCHANGED <<pc, key, positive, negative, flagged, inflight, leader, call,
                   sem, outcome, heap, resp, sent>>

PrefetchFallsBack(p) ==
    /\ fetch[p].pc = "servers"
    /\ FallsBack(fetch[p].key)
    /\ fetch' = [fetch EXCEPT ![p].pc = "iterate"]
    /\ UNCHANGED <<pc, key, positive, negative, flagged, inflight, leader, call,
                   sem, outcome, heap, resp, sent>>

\* A message came back; Set stores it unless its TTL is 0.
PrefetchStores(p) ==
    /\ fetch[p].pc \in {"servers", "iterate"}
    /\ \E d \in Data : heap' = [heap EXCEPT ![p] = Fresh(d)]
    /\ \E cacheable \in BOOLEAN :
         positive' = IF cacheable THEN [positive EXCEPT ![fetch[p].key] = p] ELSE positive
    /\ fetch' = [fetch EXCEPT ![p].pc = "reset"]
    /\ UNCHANGED <<pc, key, negative, flagged, inflight, leader, call, sem, outcome,
                   resp, sent>>

PrefetchReset(p) ==
    /\ fetch[p].pc = "reset"
    /\ flagged' = flagged \ {fetch[p].entry}
    /\ fetch' = [fetch EXCEPT ![p].pc = "done"]
    /\ UNCHANGED <<pc, key, positive, negative, inflight, leader, call, sem, outcome,
                   heap, resp, sent>>

-----------------------------------------------------------------------------
(* The cache forgets: expiry, eviction, flush (module Cache) *)

Forget(k) ==
    /\ \/ positive[k] # None
          /\ positive' = [positive EXCEPT ![k] = None]
          /\ UNCHANGED negative
       \/ k \in negative
          /\ negative' = negative \ {k}
          /\ UNCHANGED positive
    /\ UNCHANGED <<pc, key, flagged, inflight, leader, call, sem, outcome, heap,
                   resp, sent, fetch>>

-----------------------------------------------------------------------------
(* The specification *)

Init ==
    /\ pc = [q \in Queries |-> "arrived"]
    /\ key \in [Queries -> Keys]
    /\ positive = [k \in Keys |-> None]
    /\ negative = {}
    /\ flagged = {}
    /\ inflight = [k \in Keys |-> None]
    /\ leader = [q \in Queries |-> None]
    /\ call = [q \in Queries |-> NoCall]
    /\ sem = {}
    /\ outcome = [q \in Queries |-> "none"]
    /\ heap = [o \in Objects |-> Fresh("good")]
    /\ resp = [q \in Queries |-> None]
    /\ sent = [q \in Queries |-> None]
    /\ fetch = [p \in Prefetchers |-> NotFetching]

QueryStep(q) ==
    \/ Reject(q) \/ AnswerLocally(q) \/ CheckNegative(q)
    \/ CacheHit(q) \/ CacheMiss(q)
    \/ Join(q) \/ Wake(q) \/ AcquireSem(q)
    \/ ServersReturn(q) \/ LookupReturn(q, "iterate") \/ LookupReturn(q, "dnssec")
    \/ Finish(q) \/ ReleaseSem(q) \/ DeleteInflight(q) \/ CloseDone(q)
    \/ ReplyFailure(q) \/ SetID(q) \/ PackAndSend(q)

PrefetchStep(p) ==
    PrefetchFails(p) \/ PrefetchFallsBack(p) \/ PrefetchStores(p) \/ PrefetchReset(p)

Next ==
    \/ \E q \in Queries : QueryStep(q)
    \/ \E p \in Prefetchers : PrefetchStep(p)
    \/ \E k \in Keys : Forget(k)

Spec == Init /\ [][Next]_vars

\* Goroutines are scheduled and upstream exchanges have deadlines; a sender
\* blocked on the semaphore's channel is served in FIFO order, so a slot that
\* is freed again and again reaches it (strong fairness).
Fairness ==
    /\ \A q \in Queries : WF_vars(QueryStep(q)) /\ SF_vars(AcquireSem(q))
    /\ \A p \in Prefetchers : WF_vars(PrefetchStep(p))

LiveSpec == Spec /\ Fairness

-----------------------------------------------------------------------------
(* Properties *)

LookupPCs == {"servers", "iterate", "dnssec"}

\* A query leads from the moment it enters the inflight table until it closes
\* the channel of its call.
LeadPCs == {"acquire", "finish", "release", "delete", "close"} \cup LookupPCs

PCs == {"arrived", "get", "join", "wait", "fail", "setid", "pack", "done"} \cup LeadPCs

FetchPCs == {"idle", "servers", "iterate", "reset", "done"}

\* Type correctness of the queries, the cache and the single-flight table.
TypeOK ==
    /\ pc \in [Queries -> PCs]
    /\ key \in [Queries -> Keys]
    /\ positive \in [Keys -> Objects \cup {None}]
    /\ negative \subseteq Keys
    /\ flagged \subseteq Objects
    /\ inflight \in [Keys -> Queries \cup {None}]
    /\ leader \in [Queries -> Queries \cup {None}]
    /\ call \in [Queries -> [done : BOOLEAN, msg : Queries \cup {None}, err : BOOLEAN]]
    /\ sem \subseteq Queries
    /\ outcome \in [Queries -> Outcomes]
    /\ heap \in [Objects -> [id : Queries \cup {None}, data : Data]]
    /\ resp \in [Queries -> Queries \cup {None}]
    /\ sent \in [Queries -> {None} \cup
                    [id : Queries \cup {None},
                     rcode : {"refused", "nxdomain", "noerror", "servfail"},
                     data : Data \cup {None}]]
    /\ fetch \in [Prefetchers ->
                    [pc : FetchPCs, key : Keys \cup {None}, entry : Objects \cup {None}]]

\* Two queries never lead for the same key, from the call's store to its
\* deletion: the second finds the first in the inflight table, also while that
\* one still waits for a slot (resolver.go:61-72).
SingleFlight ==
    \A q, r \in Queries :
        pc[q] \in LeadPCs \ {"close"} /\ pc[r] \in LeadPCs \ {"close"} /\ key[q] = key[r]
            => q = r

\* The lookups that are under way upstream: of queries, and of refreshes.
Looking == {q \in Queries : pc[q] \in LookupPCs}

Refreshing == {p \in Prefetchers : fetch[p].pc \in {"servers", "iterate"}}

\* max_concurrent bounds the lookups of queries only: beyond it there is at most
\* one refresh for every cache entry that is being refreshed, since a refresh
\* takes no slot of the semaphore but sets the entry's flag until it is over
\* (resolver.go:74-77, cache.go:119-128, server.go:93-104).
UpstreamBound ==
    MaxConcurrent > 0 =>
        Cardinality(Looking \cup Refreshing) <= MaxConcurrent + Cardinality(flagged)

\* A query that waits has someone to wake it: the call it waits on is closed
\* already or its leader is still on the way to closing it, whatever happened
\* to the inflight table since (resolver.go:64-72).
WaiterHasLeader ==
    \A q \in Queries : pc[q] = "wait" =>
        /\ leader[q] # None
        /\ call[leader[q]].done \/ pc[leader[q]] \in LeadPCs

\* A query that is about to write into its reply has a message to write into:
\* no waiter wakes to a call with neither message nor error, which handleQuery
\* would dereference (resolver.go:66, 109, 113; server.go:296).
ReplyHasMessage ==
    \A q \in Queries : pc[q] \in {"setid", "pack"} => resp[q] # None

\* A reply only ever answers the question that was asked: the object a query
\* answers with was looked up for the same key (resolver.go:64-66).
AnswersTheQuestion ==
    \A q \in Queries : pc[q] \in {"setid", "pack"} => key[resp[q]] = key[q]

\* A reply to a query that neither led a lookup nor waited for one carries the
\* ID of that query, even if the cache entry it was made from is the message of
\* a lookup that others are still replying from
\* (cloneMessageWithDecrementedTTL, cache.go:137-146).
CachedReplyKeepsID ==
    \A q \in Queries :
        sent[q] # None /\ leader[q] = None /\ outcome[q] = "none" => sent[q].id = q

\* Every query is dealt with: no query waits forever for a slot, a leader or
\* an upstream.
AllDone == \A q \in Queries : pc[q] = "done"

EveryQueryEnds == <>AllDone

-----------------------------------------------------------------------------
(* The inductive invariant *)

\* The inflight table and the queries that lead agree, until the leader has
\* deleted its call.
TableMatchesLeaders ==
    /\ \A k \in Keys : inflight[k] # None =>
          /\ key[inflight[k]] = k
          /\ pc[inflight[k]] \in LeadPCs \ {"close"}
    /\ \A q \in Queries : pc[q] \in LeadPCs \ {"close"} => inflight[key[q]] = q

\* A published call holds a result, and it is the leader's own message.
CallHasResult ==
    \A q \in Queries :
        /\ call[q].done => call[q].err \/ call[q].msg # None
        /\ call[q].msg # None => call[q].msg = q /\ outcome[q] # "none"
        /\ pc[q] \in {"release", "delete", "close"} =>
              call[q].err \/ (call[q].msg = q /\ resp[q] = q)
        /\ pc[q] = "finish" => outcome[q] # "none"

\* Who waits, waits for the leader of its own key.
WaitsForOwnKey ==
    \A q \in Queries : pc[q] = "wait" =>
        /\ leader[q] # None
        /\ key[leader[q]] = key[q]

\* A lookup holds a slot of the semaphore.
LookupHoldsSlot ==
    /\ sem \subseteq {q \in Queries : pc[q] \in LookupPCs \cup {"finish", "release"}}
    /\ MaxConcurrent > 0 =>
          /\ Looking \subseteq sem
          /\ Cardinality(sem) <= MaxConcurrent

\* A clone made from the cache is answered with by one query only, which has
\* put its ID into it by the time it packs it.
CloneIsPrivate ==
    \A q \in Queries :
        /\ resp[q] # None /\ resp[q] # q => outcome[resp[q]] # "none"
        /\ resp[q] # None /\ leader[q] = None /\ outcome[q] = "none" => resp[q] = q
        /\ pc[q] = "pack" /\ resp[q] = q /\ outcome[q] = "none" => heap[q].id = q
        /\ pc[q] # "done" => sent[q] = None
        /\ pc[q] \in {"arrived", "get", "join", "wait", "acquire"} =>
              resp[q] = None /\ outcome[q] = "none"

\* A refresh that is under way has set the flag of an entry, which no other
\* refresh has.
RefreshOwnsFlag ==
    \A p \in Prefetchers : fetch[p].pc \in {"servers", "iterate", "reset"} =>
        /\ fetch[p].entry \in flagged
        /\ \A r \in Prefetchers \ {p} :
              fetch[r].pc \in {"servers", "iterate", "reset"} => fetch[r].entry # fetch[p].entry

IInv ==
    /\ TypeOK
    /\ TableMatchesLeaders
    /\ CallHasResult
    /\ WaitsForOwnKey
    /\ WaiterHasLeader
    /\ ReplyHasMessage
    /\ AnswersTheQuestion
    /\ LookupHoldsSlot
    /\ CloneIsPrivate
    /\ CachedReplyKeepsID

-----------------------------------------------------------------------------
(* What the documentation says *)

\* internal/server/server_test.go:480 wants of every reply: resp.ID equals the
\* ID of the query.
ResponseID == \A q \in Queries : sent[q] # None => sent[q].id = q

\* README.md:6 says: "bogus responses return SERVFAIL".
NoBogusReply ==
    DNSSEC /\ ~Forwarder /\ ZoneKeys = {} =>
        \A q \in Queries : sent[q] # None => sent[q].data # "bogus"
=============================================================================
