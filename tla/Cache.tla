------------------------------- MODULE Cache -------------------------------
(***************************************************************************)
(* The sharded response cache of internal/cache/cache.go.                  *)
(*                                                                         *)
(* A message is abstracted to the set of the TTLs of its answer records:   *)
(* that is all the cache reads of it.  Time advances in ticks,             *)
(* TicksPerSecond of them to a second, so that the truncation of the age   *)
(* to whole seconds in Get is visible.  Every critical section of a shard  *)
(* lock is one step; what the code does between two critical sections      *)
(* (reading the clock, comparing, cloning) is a step of its own, so that   *)
(* the clock and every other goroutine may move in between.                *)
(***************************************************************************)
EXTENDS Integers, FiniteSets, FiniteSetsExt

CONSTANTS
    Keys,            \* the (name, qtype) pairs used
    NumShards,       \* number of shards (64 in the code)
    ShardOf,         \* shardIdx: the FNV hash, as a function of the key
    Threads,         \* goroutines that call Get, Set and SetNegative
    Prefetchers,     \* slots for the goroutines Get starts
    NegativeKeys,    \* the keys upstream may answer with NXDOMAIN
    Modes,           \* the flush modes the administrator uses
    Messages,        \* the answers upstream may give: sets of answer TTLs
    MaxUint32,       \* the largest TTL (2^32 - 1 in the code)
    MinTTL,          \* resolver.cache.min_ttl, in seconds
    NegativeTTL,     \* resolver.cache.negative_ttl, in seconds
    MaxSize,         \* resolver.cache.max_size
    Prefetch,        \* resolver.cache.prefetch
    PrefetchDivisor, \* a prefetch starts in the last 1/10 of an entry's life
    EvictBatch,      \* deletions per critical section of the evictor (64)
    TicksPerSecond,  \* granularity of the model's clock
    MaxTime,         \* bound: the clock stops here
    MaxStores,       \* bound: number of entry objects ever allocated
    NoEntry,         \* "the map has no entry for this key"
    NoNegative       \* "the negative map has no entry for this key"

ASSUME CacheConstants ==
    /\ IsFiniteSet(Keys)
    /\ NumShards \in Nat \ {0}
    /\ ShardOf \in [Keys -> 0 .. NumShards - 1]
    /\ NegativeKeys \subseteq Keys
    /\ Threads \cap Prefetchers = {}
    /\ Modes \subseteq {"negative", "expired", "all"}
    /\ MaxUint32 \in Nat \ {0}
    /\ Messages \subseteq SUBSET (0 .. MaxUint32)
    /\ MinTTL \in Nat
    /\ NegativeTTL \in Nat
    /\ MaxSize \in Nat
    /\ Prefetch \in BOOLEAN
    /\ PrefetchDivisor \in Nat \ {0}
    /\ EvictBatch \in Nat \ {0}
    /\ TicksPerSecond \in Nat \ {0}
    /\ MaxTime \in Nat
    /\ MaxStores \in Nat

\* The two null values are no entry, no time and nothing a caller can see.
ASSUME CacheNulls ==
    /\ NoEntry \notin [id : Nat, msg : Messages, expires : Nat, cached : Nat]
    /\ NoEntry \notin [msg : Messages, expires : Nat, cached : Nat]
    /\ NoEntry \notin Nat
    /\ NoNegative \notin Nat

VARIABLES
    now,          \* the clock, in ticks
    entries,      \* the union of the shards' entries maps
    negative,     \* the union of the shards' negative maps: expiry times
    prefetching,  \* ids of the entry objects whose prefetching flag is set
    nextId,       \* identity of the next entry object
    thread,       \* local state of each calling goroutine
    prefetcher,   \* local state of each prefetch goroutine
    evictor,      \* local state of evictLoop
    flusher       \* local state of the goroutine running Flush

vars == <<now, entries, negative, prefetching, nextId,
          thread, prefetcher, evictor, flusher>>

-----------------------------------------------------------------------------
(* Data *)

Shards == 0 .. NumShards - 1

\* SetMaxSize: the configured total, divided among the shards and rounded up.
maxPerShard ==
    IF MaxSize > 0 THEN (MaxSize + NumShards - 1) \div NumShards ELSE 0

InShard(s) == {k \in Keys : ShardOf[k] = s}

\* The keys that shard s holds an entry for.
Occupied(s) == {k \in InShard(s) : entries[k] # NoEntry}

\* lowestTTL: the running minimum starts at MaxUint32, which also stands for
\* "no answer"; a message all of whose TTLs are MaxUint32 has lowest TTL 0.
lowestTTL(msg) ==
    LET min == Min(msg \cup {MaxUint32})
    IN  IF min = MaxUint32 THEN 0 ELSE min

\* The lifetime Set gives an entry, in seconds.
Lifetime(msg) ==
    IF MinTTL > 0 /\ lowestTTL(msg) < MinTTL THEN MinTTL ELSE lowestTTL(msg)

negTTL == IF NegativeTTL = 0 THEN 300 ELSE NegativeTTL

\* Mutant of decrementRRs: the TTLs are handed out as they were stored.
decrementRRsNever(msg, elapsed) == msg

decrementRRs(msg, elapsed) ==
    {IF ttl > elapsed THEN ttl - elapsed ELSE 0 : ttl \in msg}

Entry == [id : Nat, msg : Messages, expires : Nat, cached : Nat]

Live(k) == entries[k] # NoEntry /\ now <= entries[k].expires

\* IsNegative, at the instant it compares the clock with the expiry time.
IsNegative(k) == negative[k] # NoNegative /\ now < negative[k]

Idle == [pc |-> "idle"]

-----------------------------------------------------------------------------
(* Get *)

\* The first half of Get, under the shard's read lock: the entry pointer is
\* read.  A miss returns at once and changes nothing.
GetRead(t, k) ==
    /\ thread[t] = Idle
    /\ entries[k] # NoEntry
    /\ thread' = [thread EXCEPT ![t] =
                    [pc |-> "check", key |-> k, e |-> entries[k], start |-> now]]
    /\ UNCHANGED <<now, entries, negative, prefetching, nextId,
                   prefetcher, evictor, flusher>>

\* remaining < total/10
NearExpiry(e) ==
    e.expires - now < (e.expires - e.cached) \div PrefetchDivisor

\* CompareAndSwap on the entry's flag succeeded: the goroutine is started.
StartPrefetch(e, k) ==
    /\ prefetching' = prefetching \cup {e.id}
    /\ \E p \in Prefetchers :
          /\ prefetcher[p] = Idle
          /\ prefetcher' = [prefetcher EXCEPT ![p] =
                              [pc |-> "resolve", key |-> k, id |-> e.id]]

\* Mutant of GetCheck: the expiry time is not looked at.
GetCheckExpired(t) ==
    /\ thread[t].pc = "check"
    /\ thread' = [thread EXCEPT ![t].pc = "clone"]
    /\ UNCHANGED <<now, entries, negative, prefetching, nextId, prefetcher,
                   evictor, flusher>>

\* Mutant of GetCheck: the flag is set without being tested.
GetCheckNoCAS(t) ==
    /\ thread[t].pc = "check"
    /\ LET e == thread[t].e IN
       IF now > e.expires
       THEN /\ thread' = [thread EXCEPT ![t] = Idle]
            /\ UNCHANGED <<prefetching, prefetcher>>
       ELSE /\ thread' = [thread EXCEPT ![t].pc = "clone"]
            /\ IF Prefetch /\ NearExpiry(e)
               THEN StartPrefetch(e, thread[t].key)
               ELSE UNCHANGED <<prefetching, prefetcher>>
    /\ UNCHANGED <<now, entries, negative, nextId, evictor, flusher>>

\* The entry is compared with the clock after the lock was released: it may
\* have been replaced or deleted in between.
GetCheck(t) ==
    /\ thread[t].pc = "check"
    /\ LET e == thread[t].e IN
       IF now > e.expires
       THEN /\ thread' = [thread EXCEPT ![t] = Idle]
            /\ UNCHANGED <<prefetching, prefetcher>>
       ELSE /\ thread' = [thread EXCEPT ![t].pc = "clone"]
            /\ IF Prefetch /\ NearExpiry(e) /\ e.id \notin prefetching
               THEN StartPrefetch(e, thread[t].key)
               ELSE UNCHANGED <<prefetching, prefetcher>>
    /\ UNCHANGED <<now, entries, negative, nextId, evictor, flusher>>

\* cloneMessageWithDecrementedTTL: the age is truncated to whole seconds.
GetClone(t) ==
    /\ thread[t].pc = "clone"
    /\ LET e == thread[t].e
           elapsed == (now - e.cached) \div TicksPerSecond
       IN  thread' = [thread EXCEPT ![t] =
                [pc |-> "served", e |-> e, start |-> thread[t].start, at |-> now,
                 msg |-> decrementRRs(e.msg, elapsed)]]
    /\ UNCHANGED <<now, entries, negative, prefetching, nextId,
                   prefetcher, evictor, flusher>>

\* The caller has used the clone.
GetReturn(t) ==
    /\ thread[t].pc = "served"
    /\ thread' = [thread EXCEPT ![t] = Idle]
    /\ UNCHANGED <<now, entries, negative, prefetching, nextId,
                   prefetcher, evictor, flusher>>

-----------------------------------------------------------------------------
(* Set *)

\* The bound on stores: those done, and those whose first half is done.
RoomForStore ==
    nextId + Cardinality({t \in Threads : thread[t].pc = "store"})
           + Cardinality({p \in Prefetchers : prefetcher[p].pc = "store"}) < MaxStores

\* Set reads the clock before it takes the lock.
SetBegin(t, k, msg) ==
    /\ thread[t] = Idle
    /\ lowestTTL(msg) # 0
    /\ RoomForStore
    /\ thread' = [thread EXCEPT ![t] =
                    [pc |-> "store", key |-> k, msg |-> msg, at |-> now]]
    /\ UNCHANGED <<now, entries, negative, prefetching, nextId,
                   prefetcher, evictor, flusher>>

\* Mutant of MustEvict: the limit is off by one.
MustEvictOver(k) ==
    /\ maxPerShard > 0
    /\ Cardinality(Occupied(ShardOf[k])) > maxPerShard
    /\ entries[k] = NoEntry

\* Storing under k needs room: the shard is full and k is not in it.
MustEvict(k) ==
    /\ maxPerShard > 0
    /\ Cardinality(Occupied(ShardOf[k])) >= maxPerShard
    /\ entries[k] = NoEntry

\* The victims the scan of the shard may end with: map iteration order is
\* random, so any of the entries that expire first.
Soonest(s) ==
    {k \in Occupied(s) :
        \A j \in Occupied(s) : entries[k].expires <= entries[j].expires}

\* The second half of Set, under the shard's lock; `at' is the clock reading.
Store(k, msg, at) ==
    /\ nextId' = nextId + 1
    /\ \E victims \in IF MustEvict(k) THEN {{v} : v \in Soonest(ShardOf[k])}
                                      ELSE {{}} :
         entries' = [j \in Keys |->
            IF j = k
            THEN [id |-> nextId, msg |-> msg, cached |-> at,
                  expires |-> at + Lifetime(msg) * TicksPerSecond]
            ELSE IF j \in victims THEN NoEntry ELSE entries[j]]

SetStore(t) ==
    /\ thread[t].pc = "store"
    /\ Store(thread[t].key, thread[t].msg, thread[t].at)
    /\ thread' = [thread EXCEPT ![t] = Idle]
    /\ UNCHANGED <<now, negative, prefetching, prefetcher, evictor, flusher>>

\* SetNegative reads the clock inside the critical section.
SetNegative(t, k) ==
    /\ thread[t] = Idle
    /\ negative' = [negative EXCEPT ![k] = now + negTTL * TicksPerSecond]
    /\ UNCHANGED <<now, entries, prefetching, nextId, thread,
                   prefetcher, evictor, flusher>>

-----------------------------------------------------------------------------
(* The goroutine that refreshes an entry *)

\* Mutant of PrefetchFails: a refresh that failed is tried again, for ever.
PrefetchFailsRetries(p) ==
    /\ prefetcher[p].pc = "resolve"
    /\ UNCHANGED vars

\* prefetchFn returned an error, or an answer Set does not cache.
PrefetchFails(p) ==
    /\ prefetcher[p].pc = "resolve"
    /\ prefetcher' = [prefetcher EXCEPT ![p] = [pc |-> "reset", id |-> prefetcher[p].id]]
    /\ UNCHANGED <<now, entries, negative, prefetching, nextId, thread,
                   evictor, flusher>>

PrefetchResolves(p, msg) ==
    /\ prefetcher[p].pc = "resolve"
    /\ lowestTTL(msg) # 0
    /\ RoomForStore
    /\ prefetcher' = [prefetcher EXCEPT ![p] =
            [pc |-> "store", id |-> prefetcher[p].id, key |-> prefetcher[p].key,
             msg |-> msg, at |-> now]]
    /\ UNCHANGED <<now, entries, negative, prefetching, nextId, thread,
                   evictor, flusher>>

PrefetchStore(p) ==
    /\ prefetcher[p].pc = "store"
    /\ Store(prefetcher[p].key, prefetcher[p].msg, prefetcher[p].at)
    /\ prefetcher' = [prefetcher EXCEPT ![p] = [pc |-> "reset", id |-> prefetcher[p].id]]
    /\ UNCHANGED <<now, negative, prefetching, thread, evictor, flusher>>

\* defer e.prefetching.Store(false): on the object the goroutine was started
\* for, which need not be in the map any more.
PrefetchReset(p) ==
    /\ prefetcher[p].pc = "reset"
    /\ prefetching' = prefetching \ {prefetcher[p].id}
    /\ prefetcher' = [prefetcher EXCEPT ![p] = Idle]
    /\ UNCHANGED <<now, entries, negative, nextId, thread, evictor, flusher>>

-----------------------------------------------------------------------------
(* evictLoop and evictShard *)

\* Mutant of EvictTick: the clock was read before the loop.
EvictTickOnce ==
    /\ evictor = Idle
    /\ evictor' = [pc |-> "scan", now |-> 0, shard |-> 0]
    /\ UNCHANGED <<now, entries, negative, prefetching, nextId, thread,
                   prefetcher, flusher>>

\* The ticker fires: the clock is read once for the whole round.
EvictTick ==
    /\ evictor = Idle
    /\ evictor' = [pc |-> "scan", now |-> now, shard |-> 0]
    /\ UNCHANGED <<now, entries, negative, prefetching, nextId, thread,
                   prefetcher, flusher>>

\* Under the read lock: collect what has expired.
EvictScan ==
    /\ evictor.pc = "scan"
    /\ LET s == evictor.shard IN
       evictor' = [pc |-> "delete", now |-> evictor.now, shard |-> s,
                   deadEntries |-> {k \in Occupied(s) : evictor.now > entries[k].expires},
                   deadNeg |-> {k \in InShard(s) : /\ negative[k] # NoNegative
                                                   /\ evictor.now > negative[k]}]
    /\ UNCHANGED <<now, entries, negative, prefetching, nextId, thread,
                   prefetcher, flusher>>

\* The next batch of a list of dead keys.
Batches(dead) ==
    {b \in SUBSET dead : Cardinality(b) = Min({EvictBatch, Cardinality(dead)})}

\* Mutant of EvictDelete: what the scan collected is deleted unseen.
EvictDeleteUnchecked ==
    /\ evictor.pc = "delete"
    /\ evictor.deadEntries # {}
    /\ \E batch \in Batches(evictor.deadEntries) :
         /\ entries' = [k \in Keys |-> IF k \in batch THEN NoEntry ELSE entries[k]]
         /\ evictor' = [evictor EXCEPT !.deadEntries = @ \ batch]
    /\ UNCHANGED <<now, negative, prefetching, nextId, thread, prefetcher, flusher>>

\* Under the write lock: what was collected may have been replaced since, so
\* each entry is compared with the round's clock reading again.
EvictDelete ==
    /\ evictor.pc = "delete"
    /\ evictor.deadEntries # {}
    /\ \E batch \in Batches(evictor.deadEntries) :
         /\ entries' = [k \in Keys |->
                IF k \in batch /\ entries[k] # NoEntry /\ evictor.now > entries[k].expires
                THEN NoEntry ELSE entries[k]]
         /\ evictor' = [evictor EXCEPT !.deadEntries = @ \ batch]
    /\ UNCHANGED <<now, negative, prefetching, nextId, thread, prefetcher, flusher>>

EvictDeleteNeg ==
    /\ evictor.pc = "delete"
    /\ evictor.deadEntries = {}
    /\ evictor.deadNeg # {}
    /\ \E batch \in Batches(evictor.deadNeg) :
         /\ negative' = [k \in Keys |->
                IF k \in batch /\ negative[k] # NoNegative /\ evictor.now > negative[k]
                THEN NoNegative ELSE negative[k]]
         /\ evictor' = [evictor EXCEPT !.deadNeg = @ \ batch]
    /\ UNCHANGED <<now, entries, prefetching, nextId, thread, prefetcher, flusher>>

EvictNext ==
    /\ evictor.pc = "delete"
    /\ evictor.deadEntries = {}
    /\ evictor.deadNeg = {}
    /\ evictor' = IF evictor.shard + 1 < NumShards
                  THEN [pc |-> "scan", now |-> evictor.now, shard |-> evictor.shard + 1]
                  ELSE Idle
    /\ UNCHANGED <<now, entries, negative, prefetching, nextId, thread,
                   prefetcher, flusher>>

-----------------------------------------------------------------------------
(* Flush *)

\* Mutant of FlushBegin: the loop over the shards starts at the second.
FlushBeginSecond(mode) ==
    /\ flusher = Idle
    /\ flusher' = [pc |-> "run", mode |-> mode, shard |-> 1,
                   firstId |-> nextId, start |-> now]
    /\ UNCHANGED <<now, entries, negative, prefetching, nextId, thread,
                   prefetcher, evictor>>

\* `firstId' and `start' are ghosts: the next entry object and the time when
\* the flush began.
FlushBegin(mode) ==
    /\ flusher = Idle
    /\ flusher' = [pc |-> "run", mode |-> mode, shard |-> 0,
                   firstId |-> nextId, start |-> now]
    /\ UNCHANGED <<now, entries, negative, prefetching, nextId, thread,
                   prefetcher, evictor>>

\* One shard per critical section.
FlushShard ==
    /\ flusher.pc = "run"
    /\ flusher.shard < NumShards
    /\ LET s == flusher.shard
           mode == flusher.mode
       IN  /\ entries' = [k \in Keys |->
                IF /\ k \in Occupied(s)
                   /\ \/ mode = "all"
                      \/ mode = "expired" /\ now > entries[k].expires
                THEN NoEntry ELSE entries[k]]
           /\ negative' = [k \in Keys |->
                IF /\ k \in InShard(s) /\ negative[k] # NoNegative
                   /\ \/ mode \in {"negative", "all"}
                      \/ mode = "expired" /\ now > negative[k]
                THEN NoNegative ELSE negative[k]]
    /\ flusher' = [flusher EXCEPT !.shard = @ + 1]
    /\ UNCHANGED <<now, prefetching, nextId, thread, prefetcher, evictor>>

FlushEnd ==
    /\ flusher.pc = "run"
    /\ flusher.shard = NumShards
    /\ flusher' = Idle
    /\ UNCHANGED <<now, entries, negative, prefetching, nextId, thread,
                   prefetcher, evictor>>

-----------------------------------------------------------------------------
(* The specification *)

Tick ==
    /\ now < MaxTime
    /\ now' = now + 1
    /\ UNCHANGED <<entries, negative, prefetching, nextId, thread,
                   prefetcher, evictor, flusher>>

\* NewCache
Init ==
    /\ now = 0
    /\ entries = [k \in Keys |-> NoEntry]
    /\ negative = [k \in Keys |-> NoNegative]
    /\ prefetching = {}
    /\ nextId = 0
    /\ thread = [t \in Threads |-> Idle]
    /\ prefetcher = [p \in Prefetchers |-> Idle]
    /\ evictor = Idle
    /\ flusher = Idle

ThreadStep(t) == GetCheck(t) \/ GetClone(t) \/ GetReturn(t) \/ SetStore(t)

PrefetchStep(p) ==
    \/ PrefetchFails(p)
    \/ \E msg \in Messages : PrefetchResolves(p, msg)
    \/ PrefetchStore(p)
    \/ PrefetchReset(p)

EvictStep == EvictTick \/ EvictScan \/ EvictDelete \/ EvictDeleteNeg \/ EvictNext

FlushStep == FlushShard \/ FlushEnd

Next ==
    \/ Tick
    \/ \E t \in Threads, k \in Keys : GetRead(t, k)
    \/ \E t \in Threads, k \in NegativeKeys : SetNegative(t, k)
    \/ \E t \in Threads, k \in Keys, msg \in Messages : SetBegin(t, k, msg)
    \/ \E t \in Threads : ThreadStep(t)
    \/ \E p \in Prefetchers : PrefetchStep(p)
    \/ EvictStep
    \/ \E mode \in Modes : FlushBegin(mode)
    \/ FlushStep

Spec == Init /\ [][Next]_vars

\* Goroutines keep running: a call that has begun ends, a prefetch returns
\* (every upstream exchange has a deadline), the ticker keeps firing.
Fairness ==
    /\ \A t \in Threads : WF_vars(ThreadStep(t))
    /\ \A p \in Prefetchers : WF_vars(PrefetchStep(p))
    /\ WF_vars(EvictStep)
    /\ WF_vars(FlushStep)

LiveSpec == Spec /\ Fairness

-----------------------------------------------------------------------------
(* Properties *)

CallState ==
    {Idle}
    \cup [pc : {"check", "clone"}, key : Keys, e : Entry, start : Nat]
    \cup [pc : {"served"}, e : Entry, start : Nat, at : Nat,
          msg : SUBSET (0 .. MaxUint32)]
    \cup [pc : {"store"}, key : Keys, msg : Messages, at : Nat]

PrefetchState ==
    {Idle}
    \cup [pc : {"resolve"}, key : Keys, id : Nat]
    \cup [pc : {"store"}, key : Keys, id : Nat, msg : Messages, at : Nat]
    \cup [pc : {"reset"}, id : Nat]

EvictState ==
    {Idle}
    \cup [pc : {"scan"}, now : Nat, shard : Shards]
    \cup [pc : {"delete"}, now : Nat, shard : Shards,
          deadEntries : SUBSET Keys, deadNeg : SUBSET Keys]

FlushState ==
    {Idle}
    \cup [pc : {"run"}, mode : Modes, shard : 0 .. NumShards,
          firstId : Nat, start : Nat]

\* Type correctness of the cache's maps, flags and goroutine-local state.
TypeOK ==
    /\ now \in Nat
    /\ entries \in [Keys -> Entry \cup {NoEntry}]
    /\ negative \in [Keys -> Nat \cup {NoNegative}]
    /\ nextId \in Nat
    /\ prefetching \subseteq 0 .. nextId - 1
    /\ thread \in [Threads -> CallState]
    /\ prefetcher \in [Prefetchers -> PrefetchState]
    /\ evictor \in EvictState
    /\ flusher \in FlushState

\* Each shard keeps to its own share, max_size divided among the shards and
\* rounded up, however the stores of callers and prefetches, evictions and
\* flushes interleave (Set, cache.go:173-186).
ShardBound ==
    maxPerShard > 0 => \A s \in Shards : Cardinality(Occupied(s)) <= maxPerShard

\* All that the cache holds.
Held == {k \in Keys : entries[k] # NoEntry}

\* All shards together hold less than one entry per shard more than max_size:
\* each has rounded its share up and knows nothing of the others.  This is what
\* is left of "Maximum number of cached entries" (config.yml:58; SetMaxSize and
\* Set, cache.go:52-58, 173-186).
TotalBound == MaxSize > 0 => Cardinality(Held) < MaxSize + NumShards

\* An entry object has at most one refresh running, and its flag is set
\* exactly while it has one: the flag neither leaks (the entry would never be
\* refreshed again) nor is cleared early (Get, cache.go:121-129).
OnePrefetchPerEntry ==
    /\ prefetching = {prefetcher[p].id : p \in {q \in Prefetchers : prefetcher[q] # Idle}}
    /\ \A p, q \in Prefetchers :
         /\ prefetcher[p] # Idle /\ prefetcher[q] # Idle
         /\ prefetcher[p].id = prefetcher[q].id
         => p = q

\* What Get hands out was alive when the call began, even if the entry was
\* replaced, evicted or flushed during the call (Get, cache.go:114).
ServedAlive ==
    \A t \in Threads :
        thread[t].pc = "served" => thread[t].start <= thread[t].e.expires

\* No TTL handed to a client reaches a full second past the moment the record
\* itself expires: a TTL of the clone, counted from the moment it was made,
\* overshoots the stored record's TTL, counted from when it was cached, by
\* less than the second the age is truncated by (cache.go:133-159).
ServedTTLHonest ==
    \A t \in Threads : thread[t].pc = "served" =>
        LET r == thread[t] IN
        \A ttl \in r.msg : ttl > 0 =>
            \E orig \in r.e.msg :
                r.at + ttl * TicksPerSecond
                    < r.e.cached + orig * TicksPerSecond + TicksPerSecond

\* A shard that a running Flush has passed holds nothing from before the
\* flush: every entry in it was stored, and every negative entry set, after
\* the flush began (Flush, cache.go:277-303).
FlushCovers ==
    flusher.pc = "run" =>
        \A k \in Keys : ShardOf[k] < flusher.shard =>
            /\ flusher.mode = "all" /\ entries[k] # NoEntry
                   => entries[k].id >= flusher.firstId
            /\ flusher.mode \in {"all", "negative"} /\ negative[k] # NoNegative
                   => negative[k] >= flusher.start + negTTL * TicksPerSecond

\* The parts of the inductive invariant that no run checks as a property.
\* Nothing the cache holds or remembers is younger than the clock and the
\* next entry object.
Past ==
    /\ \A k \in Keys : entries[k] # NoEntry =>
           entries[k].id < nextId /\ entries[k].cached <= now
    /\ \A t \in Threads :
           /\ thread[t].pc \in {"check", "clone", "served"} =>
                  thread[t].e.id < nextId /\ thread[t].e.cached <= now
           /\ thread[t].pc \in {"check", "clone"} => thread[t].start <= now
           /\ thread[t].pc = "store" => thread[t].at <= now
    /\ \A p \in Prefetchers :
           /\ prefetcher[p] # Idle => prefetcher[p].id < nextId
           /\ prefetcher[p].pc = "store" => prefetcher[p].at <= now
    /\ evictor.pc # "idle" => evictor.now <= now
    /\ flusher.pc = "run" => flusher.firstId <= nextId /\ flusher.start <= now

\* What Get has decided to hand out was alive when the call began.
CloneAlive ==
    \A t \in Threads :
        thread[t].pc = "clone" => thread[t].start <= thread[t].e.expires

IInv ==
    /\ TypeOK
    /\ Past
    /\ CloneAlive
    /\ ServedAlive
    /\ ServedTTLHonest
    /\ OnePrefetchPerEntry
    /\ ShardBound
    /\ FlushCovers

\* What a caller can see of the cache, in the terms of CacheSpec: dead entries
\* are not there, a read begins when Get takes an entry that is alive, a store
\* when Set reads the clock.
Visible(e) == [msg |-> e.msg, cached |-> e.cached, expires |-> e.expires]

AnswerSeen == [k \in Keys |-> IF Live(k) THEN Visible(entries[k]) ELSE NoEntry]

DenialSeen == [k \in Keys |-> IF IsNegative(k) THEN negative[k] ELSE NoEntry]

Storing(r) == [at |-> "storing", for |-> r.key, msg |-> r.msg, since |-> r.at]

Asked(r) ==
    IF r.pc \in {"check", "clone"} /\ r.start <= r.e.expires
    THEN [at |-> "reading", from |-> Visible(r.e)]
    ELSE IF r.pc = "served"
    THEN [at |-> "served", msg |-> r.msg]
    ELSE IF r.pc = "store" THEN Storing(r) ELSE [at |-> "idle"]

Refreshing(r) == IF r.pc = "store" THEN Storing(r) ELSE [at |-> "idle"]

CallSeen == [c \in Threads \cup Prefetchers |->
    IF c \in Threads THEN Asked(thread[c]) ELSE Refreshing(prefetcher[c])]

FlushSeen ==
    IF flusher.pc = "run"
    THEN [mode |-> flusher.mode, left |-> flusher.shard .. NumShards - 1]
    ELSE [mode |-> "none"]

Seen == INSTANCE CacheSpec WITH
    Questions <- Keys,
    Clients <- Threads \cup Prefetchers,
    Answers <- Messages,
    Life <- [msg \in Messages |-> Lifetime(msg) * TicksPerSecond],
    DenialLife <- negTTL * TicksPerSecond,
    Second <- TicksPerSecond,
    Place <- ShardOf,
    Places <- Shards,
    Capacity <- maxPerShard,
    Nothing <- NoEntry,
    clock <- now,
    answer <- AnswerSeen,
    denial <- DenialSeen,
    call <- CallSeen,
    flush <- FlushSeen

\* The cache is a map whose answers and denials die by the clock, are replaced,
\* or go in a flush; a store may push out the live answer of its shard that
\* expires first, if the shard is full of live ones.  The evictor, which works
\* from an old scan and an old clock reading, the refreshes and the entries
\* that are dead but not removed cannot be noticed (cache.go:99-255, 277-303).
ImplementsCacheSpec == Seen!Promise

\* An expired entry does not stay: it is deleted or replaced by a live one
\* (evictLoop, cache.go:209-255).
ExpiredReclaimed ==
    \A k \in Keys :
        (entries[k] # NoEntry /\ ~Live(k)) ~> (entries[k] = NoEntry \/ Live(k))

\* A refresh that was started ends and clears the flag of its entry
\* (cache.go:123-129).
PrefetchEnds ==
    \A p \in Prefetchers : (prefetcher[p] # Idle) ~> (prefetcher[p] = Idle)
=============================================================================
