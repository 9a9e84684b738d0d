---------------------------- MODULE CacheProofs ----------------------------
(***************************************************************************)
(* Proofs about Cache: its safety invariants, and that it implements       *)
(* CacheSpec, for any keys, shards, goroutines, answers and parameters.    *)
(***************************************************************************)
EXTENDS Cache, TLAPS, FiniteSetTheorems, WellFoundedInduction

-----------------------------------------------------------------------------
(* Operators *)

\* A set of naturals that is not empty has a least element, and Min finds it:
\* of the sets of its elements up to one of them, none is below the least.
LEMMA MinOfNaturals ==
    ASSUME NEW S \in SUBSET Nat, S # {}
    PROVE  /\ Min(S) \in S
           /\ \A n \in S : Min(S) <= n
<1> DEFINE UpTo(n) == S \cap (0 .. n)
           F == {UpTo(n) : n \in S}
<1>1. \A n \in S : IsFiniteSet(UpTo(n))
    <2> TAKE n \in S
    <2>1. IsFiniteSet(0 .. n)
        BY FS_Interval
    <2> QED
        BY <2>1, FS_Subset
<1>2. F \subseteq FiniteSubsetsOf(S)
    BY <1>1 DEF FiniteSubsetsOf
<1>3. F # {}
    OBVIOUS
<1> HIDE DEF F
<1>4. PICK A \in F : \A B \in F : ~ (<<B, A>> \in StrictSubsetOrdering(S))
    BY <1>2, <1>3, FS_StrictSubsetOrderingWellFounded, WFMin
<1>5. PICK m \in S : A = UpTo(m)
    BY DEF F
<1>6. ASSUME NEW n \in S
      PROVE  m <= n
    <2> SUFFICES ASSUME n < m
                 PROVE  FALSE
        OBVIOUS
    <2>1. UpTo(n) \in F
        BY DEF F
    <2>2. m \in UpTo(m) /\ m \notin UpTo(n) /\ UpTo(n) \subseteq UpTo(m)
        BY n < m
    <2> QED
        BY <1>2, <1>4, <1>5, <2>1, <2>2 DEF StrictSubsetOrdering, FiniteSubsetsOf
<1> QED
    BY <1>6 DEF Min

\* The lifetime of an answer is a number of seconds.
LEMMA LifetimeIsNat ==
    ASSUME NEW msg \in Messages
    PROVE  /\ lowestTTL(msg) \in Nat
           /\ Lifetime(msg) \in Nat
<1>1. msg \cup {MaxUint32} \in SUBSET Nat /\ msg \cup {MaxUint32} # {}
    BY CacheConstants
<1>2. Min(msg \cup {MaxUint32}) \in msg \cup {MaxUint32}
    BY <1>1, MinOfNaturals
<1>3. lowestTTL(msg) \in Nat
    BY <1>1, <1>2 DEF lowestTTL
<1> QED
    BY <1>3, CacheConstants DEF Lifetime

\* The age in whole seconds is at most the age and less than a second short.
LEMMA WholeSeconds ==
    ASSUME NEW d \in Nat
    PROVE  /\ d \div TicksPerSecond \in Nat
           /\ d < (d \div TicksPerSecond) * TicksPerSecond + TicksPerSecond
<1> DEFINE T == TicksPerSecond
<1>1. T \in Nat \ {0}
    BY CacheConstants
<1> HIDE DEF T
<1>2. /\ d \div T \in Nat
      /\ d < (d \div T) * T + T
    BY <1>1
<1> QED
    BY <1>2 DEF T

-----------------------------------------------------------------------------
(* Types of local states *)

\* What a call has in its local state, by its control state.
LEMMA CallTypes ==
    ASSUME TypeOK, NEW t \in Threads
    PROVE  /\ thread[t].pc \in {"idle", "check", "clone", "served", "store"}
           /\ thread[t].pc = "idle" => thread[t] = Idle
           /\ thread[t].pc \in {"check", "clone"} =>
                  /\ thread[t].key \in Keys
                  /\ thread[t].e \in Entry
                  /\ thread[t].start \in Nat
           /\ thread[t].pc = "served" =>
                  /\ thread[t].e \in Entry
                  /\ thread[t].start \in Nat
                  /\ thread[t].at \in Nat
                  /\ thread[t].msg \in SUBSET (0 .. MaxUint32)
           /\ thread[t].pc = "store" =>
                  /\ thread[t].key \in Keys
                  /\ thread[t].msg \in Messages
                  /\ thread[t].at \in Nat
<1>1. thread[t] \in CallState
    BY DEF TypeOK
<1> QED
    BY <1>1 DEF CallState, Idle

\* What a refresh has in its local state, by its control state.
LEMMA RefreshTypes ==
    ASSUME TypeOK, NEW p \in Prefetchers
    PROVE  /\ prefetcher[p].pc \in {"idle", "resolve", "store", "reset"}
           /\ prefetcher[p].pc = "idle" <=> prefetcher[p] = Idle
           /\ prefetcher[p].pc \in {"resolve", "store", "reset"} =>
                  prefetcher[p].id \in Nat
           /\ prefetcher[p].pc \in {"resolve", "store"} => prefetcher[p].key \in Keys
           /\ prefetcher[p].pc = "store" =>
                  /\ prefetcher[p].msg \in Messages
                  /\ prefetcher[p].at \in Nat
<1>1. prefetcher[p] \in PrefetchState
    BY DEF TypeOK
<1> QED
    BY <1>1 DEF PrefetchState, Idle

\* The evictor's and the flusher's local states.
LEMMA RoundTypes ==
    ASSUME TypeOK
    PROVE  /\ evictor.pc \in {"idle", "scan", "delete"}
           /\ evictor.pc = "idle" <=> evictor = Idle
           /\ evictor.pc # "idle" => evictor.now \in Nat /\ evictor.shard \in Shards
           /\ evictor.pc = "delete" =>
                  /\ evictor.deadEntries \in SUBSET Keys
                  /\ evictor.deadNeg \in SUBSET Keys
           /\ flusher.pc \in {"idle", "run"}
           /\ flusher.pc = "idle" <=> flusher = Idle
           /\ flusher.pc = "run" =>
                  /\ flusher.mode \in Modes
                  /\ flusher.shard \in 0 .. NumShards
                  /\ flusher.firstId \in Nat
                  /\ flusher.start \in Nat
<1>1. evictor \in EvictState /\ flusher \in FlushState
    BY DEF TypeOK
<1>2. /\ evictor.pc \in {"idle", "scan", "delete"}
      /\ evictor.pc = "idle" <=> evictor = Idle
      /\ evictor.pc # "idle" => evictor.now \in Nat /\ evictor.shard \in Shards
      /\ evictor.pc = "delete" =>
             /\ evictor.deadEntries \in SUBSET Keys
             /\ evictor.deadNeg \in SUBSET Keys
    BY <1>1 DEF EvictState, Idle
<1>3. /\ flusher.pc \in {"idle", "run"}
      /\ flusher.pc = "idle" <=> flusher = Idle
      /\ flusher.pc = "run" =>
             /\ flusher.mode \in Modes
             /\ flusher.shard \in 0 .. NumShards
             /\ flusher.firstId \in Nat
             /\ flusher.start \in Nat
    BY <1>1 DEF FlushState, Idle
<1> QED
    BY <1>2, <1>3

-----------------------------------------------------------------------------
(* What a step does to each part of the state *)

Removes(k) == entries'[k] \in {NoEntry, entries[k]}

\* A step stores one entry under an earlier clock reading, or at most removes
\* some; the clock and the counter of entry objects never go back.
LEMMA EntriesStep ==
    ASSUME TypeOK, Past, [Next]_vars
    PROVE  \/ \E k \in Keys, msg \in Messages, at \in Nat :
                 at <= now /\ Store(k, msg, at) /\ now' = now
           \/ /\ nextId' = nextId
              /\ entries' = [k \in Keys |-> entries'[k]]
              /\ \A k \in Keys : Removes(k)
<1> USE DEF Removes
<1>0. entries = [k \in Keys |-> entries[k]]
    BY DEF TypeOK
<1>1. CASE UNCHANGED <<entries, nextId>>
    BY <1>0, <1>1
<1>2. ASSUME NEW t \in Threads, SetStore(t)
      PROVE  \E k \in Keys, msg \in Messages, at \in Nat :
                 at <= now /\ Store(k, msg, at) /\ now' = now
    BY <1>2, CallTypes DEF SetStore, Past
<1>3. ASSUME NEW p \in Prefetchers, PrefetchStore(p)
      PROVE  \E k \in Keys, msg \in Messages, at \in Nat :
                 at <= now /\ Store(k, msg, at) /\ now' = now
    BY <1>3, RefreshTypes DEF PrefetchStore, Past
<1>4. CASE EvictDelete
    BY <1>4 DEF EvictDelete
<1>5. CASE FlushShard
    BY <1>5 DEF FlushShard
<1> QED
    BY <1>1, <1>2, <1>3, <1>4, <1>5
    DEF Next, vars, Tick, GetRead, SetNegative, SetBegin, ThreadStep, GetCheck,
        GetClone, GetReturn, PrefetchStep, PrefetchFails, PrefetchResolves,
        PrefetchReset, EvictStep, EvictTick, EvictScan, EvictDeleteNeg, EvictNext,
        FlushBegin, FlushStep, FlushEnd

LEMMA ClocksAdvance ==
    ASSUME TypeOK, [Next]_vars
    PROVE  /\ now' \in Nat /\ now <= now'
           /\ nextId' \in Nat /\ nextId <= nextId'
<1> USE DEF TypeOK
<1>1. CASE Tick
    BY <1>1 DEF Tick
<1>2. ASSUME NEW t \in Threads, SetStore(t)
      PROVE  nextId' = nextId + 1 /\ now' = now
    BY <1>2 DEF SetStore, Store
<1>3. ASSUME NEW p \in Prefetchers, PrefetchStore(p)
      PROVE  nextId' = nextId + 1 /\ now' = now
    BY <1>3 DEF PrefetchStore, Store
<1>4. CASE UNCHANGED <<now, nextId>>
    BY <1>4
<1> QED
    BY <1>1, <1>2, <1>3, <1>4
    DEF Next, vars, GetRead, SetNegative, SetBegin, ThreadStep, GetCheck,
        GetClone, GetReturn, PrefetchStep, PrefetchFails, PrefetchResolves,
        PrefetchReset, EvictStep, EvictTick, EvictScan, EvictDelete, EvictDeleteNeg,
        EvictNext, FlushBegin, FlushStep, FlushShard, FlushEnd

-----------------------------------------------------------------------------
(* Entries *)

NewEntry(msg, at) ==
    [id |-> nextId, msg |-> msg, cached |-> at,
     expires |-> at + Lifetime(msg) * TicksPerSecond]

LEMMA NewEntryType ==
    ASSUME TypeOK, NEW msg \in Messages, NEW at \in Nat
    PROVE  /\ NewEntry(msg, at) \in Entry
           /\ NewEntry(msg, at) # NoEntry
<1>1. Lifetime(msg) * TicksPerSecond \in Nat
    BY LifetimeIsNat, CacheConstants
<1>2. NewEntry(msg, at) \in Entry
    BY <1>1 DEF NewEntry, Entry, TypeOK
<1> QED
    BY <1>2, CacheNulls DEF Entry

\* A store puts a new entry under its key and at most removes others.
LEMMA StoreEffect ==
    ASSUME TypeOK, NEW k \in Keys, NEW msg \in Messages, NEW at \in Nat,
           Store(k, msg, at)
    PROVE  /\ entries' = [j \in Keys |-> entries'[j]]
           /\ entries'[k] = NewEntry(msg, at)
           /\ \A j \in Keys \ {k} : Removes(j)
           /\ nextId' = nextId + 1
    BY DEF Store, NewEntry, Removes

LEMMA EntriesTyped ==
    ASSUME TypeOK, Past, [Next]_vars
    PROVE  /\ entries' \in [Keys -> Entry \cup {NoEntry}]
           /\ \A k \in Keys : entries'[k] # NoEntry /\ entries'[k] # entries[k] =>
                 /\ entries'[k].id = nextId
                 /\ nextId' = nextId + 1
                 /\ entries'[k].cached <= now
<1>1. ASSUME NEW k \in Keys, NEW msg \in Messages, NEW at \in Nat,
             at <= now, Store(k, msg, at)
      PROVE  /\ entries' \in [Keys -> Entry \cup {NoEntry}]
             /\ \A j \in Keys : entries'[j] # NoEntry /\ entries'[j] # entries[j] =>
                   /\ entries'[j].id = nextId
                   /\ nextId' = nextId + 1
                   /\ entries'[j].cached <= now
    <2>1. NewEntry(msg, at) \in Entry
        BY NewEntryType
    <2>2. /\ entries' = [j \in Keys |-> entries'[j]]
          /\ entries'[k] = NewEntry(msg, at)
          /\ \A j \in Keys \ {k} : Removes(j)
          /\ nextId' = nextId + 1
        BY <1>1, StoreEffect
    <2>3. entries' \in [Keys -> Entry \cup {NoEntry}]
        BY <2>1, <2>2 DEF Removes, TypeOK
    <2>4. NewEntry(msg, at).id = nextId /\ NewEntry(msg, at).cached = at
        BY DEF NewEntry
    <2> QED
        BY <1>1, <2>2, <2>3, <2>4 DEF Removes
<1>2. CASE /\ nextId' = nextId
           /\ entries' = [k \in Keys |-> entries'[k]]
           /\ \A k \in Keys : Removes(k)
    BY <1>2 DEF Removes, TypeOK
<1> QED
    BY <1>1, <1>2, EntriesStep

\* Type correctness is preserved.
LEMMA TypeInductive ==
    ASSUME TypeOK, Past, [Next]_vars
    PROVE  TypeOK'
<1>1. now' \in Nat /\ nextId' \in Nat /\ nextId <= nextId'
    BY ClocksAdvance DEF TypeOK
<1>2. entries' \in [Keys -> Entry \cup {NoEntry}]
    BY EntriesTyped
<1>3. negTTL * TicksPerSecond \in Nat
    BY CacheConstants DEF negTTL
<1>4. negative' \in [Keys -> Nat \cup {NoNegative}]
    <2>1. ASSUME NEW t \in Threads, NEW k \in NegativeKeys, SetNegative(t, k)
          PROVE  negative' \in [Keys -> Nat \cup {NoNegative}]
        <3>1. now + negTTL * TicksPerSecond \in Nat
            BY <1>3 DEF TypeOK
        <3> QED
            BY <2>1, <3>1 DEF SetNegative, TypeOK
    <2>2. CASE EvictDeleteNeg
        BY <2>2 DEF EvictDeleteNeg, TypeOK
    <2>3. CASE FlushShard
        BY <2>3 DEF FlushShard, TypeOK
    <2>4. CASE UNCHANGED negative
        BY <2>4 DEF TypeOK
    <2> QED
        BY <2>1, <2>2, <2>3, <2>4
        DEF Next, vars, Tick, GetRead, SetBegin, SetStore, ThreadStep, GetCheck,
            GetClone, GetReturn, PrefetchStep, PrefetchFails, PrefetchResolves,
            PrefetchStore, PrefetchReset, EvictStep, EvictTick, EvictScan,
            EvictDelete, EvictNext, FlushBegin, FlushStep, FlushEnd
<1>5. thread' \in [Threads -> CallState]
    <2>1. ASSUME NEW t \in Threads, NEW k \in Keys, GetRead(t, k)
          PROVE  thread' \in [Threads -> CallState]
        <3>1. entries[k] \in Entry
            BY <2>1 DEF GetRead, TypeOK
        <3>2. [pc |-> "check", key |-> k, e |-> entries[k], start |-> now] \in CallState
            BY <3>1 DEF CallState, TypeOK
        <3> QED
            BY <2>1, <3>2 DEF GetRead, TypeOK
    <2>2. ASSUME NEW t \in Threads, NEW k \in Keys, NEW msg \in Messages,
                 SetBegin(t, k, msg)
          PROVE  thread' \in [Threads -> CallState]
        <3>1. [pc |-> "store", key |-> k, msg |-> msg, at |-> now] \in CallState
            BY DEF CallState, TypeOK
        <3> QED
            BY <2>2, <3>1 DEF SetBegin, TypeOK
    <2>3. ASSUME NEW t \in Threads, GetCheck(t)
          PROVE  thread' \in [Threads -> CallState]
        <3>1. thread[t] \in CallState /\ thread[t].pc = "check"
            BY <2>3 DEF GetCheck, TypeOK
        <3>2. [thread[t] EXCEPT !.pc = "clone"] \in CallState
            BY <3>1 DEF CallState, Idle
        <3>3. Idle \in CallState
            BY DEF CallState
        <3>4. \/ thread' = [thread EXCEPT ![t] = Idle]
              \/ thread' = [thread EXCEPT ![t] = [thread[t] EXCEPT !.pc = "clone"]]
            BY <2>3 DEF GetCheck, TypeOK
        <3> QED
            BY <3>2, <3>3, <3>4 DEF TypeOK
    <2>4. ASSUME NEW t \in Threads, GetClone(t)
          PROVE  thread' \in [Threads -> CallState]
        <3> DEFINE e == thread[t].e
                   left == decrementRRs(e.msg, (now - e.cached) \div TicksPerSecond)
        <3>1. /\ thread[t].pc = "clone" /\ e \in Entry /\ thread[t].start \in Nat
              /\ e.cached <= now
            BY <2>4, CallTypes DEF GetClone, Past
        <3>2. (now - e.cached) \div TicksPerSecond \in Nat
            BY <3>1, WholeSeconds DEF Entry, TypeOK
        <3>3. left \in SUBSET (0 .. MaxUint32)
            <4>1. e.msg \in SUBSET (0 .. MaxUint32) /\ MaxUint32 \in Nat
                BY <3>1, CacheConstants DEF Entry
            <4>2. ASSUME NEW d \in Nat
                  PROVE  decrementRRs(e.msg, d) \in SUBSET (0 .. MaxUint32)
                BY <4>1 DEF decrementRRs
            <4> QED
                BY <3>2, <4>2
        <3> HIDE DEF e, left
        <3>4. [pc |-> "served", e |-> e, start |-> thread[t].start, at |-> now,
               msg |-> left] \in CallState
            BY <3>1, <3>3 DEF CallState, TypeOK
        <3>5. thread' = [thread EXCEPT ![t] =
                [pc |-> "served", e |-> e, start |-> thread[t].start, at |-> now,
                 msg |-> left]]
            BY <2>4 DEF GetClone, e, left
        <3> QED
            BY <3>4, <3>5 DEF TypeOK
    <2>5. ASSUME NEW t \in Threads, GetReturn(t) \/ SetStore(t)
          PROVE  thread' \in [Threads -> CallState]
        BY <2>5 DEF GetReturn, SetStore, TypeOK, CallState
    <2>6. CASE UNCHANGED thread
        BY <2>6 DEF TypeOK
    <2> QED
        BY <2>1, <2>2, <2>3, <2>4, <2>5, <2>6
        DEF Next, vars, Tick, SetNegative, ThreadStep, PrefetchStep, PrefetchFails,
            PrefetchResolves, PrefetchStore, PrefetchReset, EvictStep, EvictTick,
            EvictScan, EvictDelete, EvictDeleteNeg, EvictNext, FlushBegin, FlushStep,
            FlushShard, FlushEnd
<1>6. /\ prefetcher' \in [Prefetchers -> PrefetchState]
      /\ prefetching' \subseteq 0 .. nextId' - 1
    <2> DEFINE Typed == /\ prefetcher' \in [Prefetchers -> PrefetchState]
                       /\ prefetching' \subseteq 0 .. nextId' - 1
    <2>0. prefetching \subseteq 0 .. nextId' - 1
        <3>1. prefetching \subseteq 0 .. nextId - 1 /\ nextId \in Nat
            BY DEF TypeOK
        <3>2. ASSUME NEW m \in Nat, NEW n \in Nat, m <= n
              PROVE  0 .. m - 1 \subseteq 0 .. n - 1
            BY <3>2
        <3> QED
            BY <1>1, <3>1, <3>2
    <2>1. ASSUME NEW t \in Threads, GetCheck(t)
          PROVE  Typed
        <3>1. /\ thread[t].key \in Keys /\ thread[t].e \in Entry
              /\ thread[t].e.id < nextId
            BY <2>1, CallTypes DEF GetCheck, Past
        <3>2. thread[t].e.id \in 0 .. nextId' - 1
            BY <1>1, <3>1 DEF Entry, TypeOK
        <3>3. [pc |-> "resolve", key |-> thread[t].key, id |-> thread[t].e.id]
                  \in PrefetchState
            BY <3>1 DEF Entry, PrefetchState
        <3>4. CASE UNCHANGED <<prefetching, prefetcher>>
            BY <2>0, <3>4 DEF TypeOK
        <3>5. ASSUME NEW p \in Prefetchers,
                     prefetching' = prefetching \cup {thread[t].e.id},
                     prefetcher' = [prefetcher EXCEPT ![p] =
                         [pc |-> "resolve", key |-> thread[t].key,
                          id |-> thread[t].e.id]]
              PROVE  Typed
            BY <2>0, <3>2, <3>3, <3>5 DEF TypeOK
        <3> QED
            BY <2>1, <3>4, <3>5 DEF GetCheck, StartPrefetch
    <2>2. ASSUME NEW p \in Prefetchers, PrefetchFails(p)
          PROVE  Typed
        <3>1. [pc |-> "reset", id |-> prefetcher[p].id] \in PrefetchState
            BY <2>2, RefreshTypes DEF PrefetchFails, PrefetchState
        <3> QED
            BY <2>0, <2>2, <3>1 DEF PrefetchFails, TypeOK
    <2>3. ASSUME NEW p \in Prefetchers, NEW msg \in Messages, PrefetchResolves(p, msg)
          PROVE  Typed
        <3>1. prefetcher[p].id \in Nat /\ prefetcher[p].key \in Keys
            BY <2>3, RefreshTypes DEF PrefetchResolves
        <3>2. [pc |-> "store", id |-> prefetcher[p].id, key |-> prefetcher[p].key,
               msg |-> msg, at |-> now] \in PrefetchState
            BY <3>1 DEF PrefetchState, TypeOK
        <3> QED
            BY <2>0, <2>3, <3>2 DEF PrefetchResolves, TypeOK
    <2>4. ASSUME NEW p \in Prefetchers, PrefetchStore(p)
          PROVE  Typed
        <3>1. [pc |-> "reset", id |-> prefetcher[p].id] \in PrefetchState
            BY <2>4, RefreshTypes DEF PrefetchStore, PrefetchState
        <3> QED
            BY <2>0, <2>4, <3>1 DEF PrefetchStore, TypeOK
    <2>5. ASSUME NEW p \in Prefetchers, PrefetchReset(p)
          PROVE  Typed
        BY <2>0, <2>5 DEF PrefetchReset, PrefetchState, TypeOK
    <2>6. CASE UNCHANGED <<prefetching, prefetcher>>
        BY <2>0, <2>6 DEF TypeOK
    <2> QED
        BY <2>1, <2>2, <2>3, <2>4, <2>5, <2>6
        DEF Next, vars, Tick, GetRead, SetNegative, SetBegin, SetStore, ThreadStep,
            GetClone, GetReturn, PrefetchStep, EvictStep, EvictTick, EvictScan,
            EvictDelete, EvictDeleteNeg, EvictNext, FlushBegin, FlushStep, FlushShard,
            FlushEnd
<1>7. evictor' \in EvictState
    <2>1. CASE EvictTick
        BY <2>1, CacheConstants DEF EvictTick, EvictState, Shards, TypeOK
    <2>2. CASE EvictScan
        <3>1. evictor.now \in Nat /\ evictor.shard \in Shards
            BY <2>2, RoundTypes DEF EvictScan
        <3> QED
            BY <2>2, <3>1 DEF EvictScan, EvictState, Occupied, InShard
    <2>3. CASE EvictDelete \/ EvictDeleteNeg
        <3>1. /\ evictor.pc = "delete"
              /\ \E b : \/ evictor' = [evictor EXCEPT !.deadEntries = @ \ b]
                        \/ evictor' = [evictor EXCEPT !.deadNeg = @ \ b]
            BY <2>3 DEF EvictDelete, EvictDeleteNeg
        <3>2. evictor \in EvictState
            BY DEF TypeOK
        <3> QED
            BY <3>1, <3>2 DEF EvictState, Idle
    <2>4. CASE EvictNext
        <3>1. evictor.now \in Nat /\ evictor.shard \in Shards
            BY <2>4, RoundTypes DEF EvictNext
        <3>2. evictor.shard + 1 < NumShards => evictor.shard + 1 \in Shards
            BY <3>1, CacheConstants DEF Shards
        <3> QED
            BY <2>4, <3>1, <3>2 DEF EvictNext, EvictState
    <2>5. CASE UNCHANGED evictor
        BY <2>5 DEF TypeOK
    <2> QED
        BY <2>1, <2>2, <2>3, <2>4, <2>5
        DEF Next, vars, Tick, GetRead, SetNegative, SetBegin, SetStore, ThreadStep,
            GetCheck, GetClone, GetReturn, PrefetchStep, PrefetchFails,
            PrefetchResolves, PrefetchStore, PrefetchReset, EvictStep, FlushBegin,
            FlushStep, FlushShard, FlushEnd
<1>8. flusher' \in FlushState
    <2>1. ASSUME NEW mode \in Modes, FlushBegin(mode)
          PROVE  flusher' \in FlushState
        BY <2>1, CacheConstants DEF FlushBegin, FlushState, TypeOK
    <2>2. CASE FlushShard
        <3>1. /\ flusher \in FlushState /\ flusher.pc = "run"
              /\ flusher.shard \in 0 .. NumShards /\ flusher.shard < NumShards
            BY <2>2, RoundTypes DEF FlushShard, TypeOK
        <3>2. flusher.shard + 1 \in 0 .. NumShards
            BY <3>1, CacheConstants
        <3> QED
            BY <2>2, <3>1, <3>2 DEF FlushShard, FlushState, Idle
    <2>3. CASE FlushEnd
        BY <2>3 DEF FlushEnd, FlushState
    <2>4. CASE UNCHANGED flusher
        BY <2>4 DEF TypeOK
    <2> QED
        BY <2>1, <2>2, <2>3, <2>4
        DEF Next, vars, Tick, GetRead, SetNegative, SetBegin, SetStore, ThreadStep,
            GetCheck, GetClone, GetReturn, PrefetchStep, PrefetchFails,
            PrefetchResolves, PrefetchStore, PrefetchReset, EvictStep, EvictTick,
            EvictScan, EvictDelete, EvictDeleteNeg, EvictNext, FlushStep
<1> QED
    BY <1>1, <1>2, <1>4, <1>5, <1>6, <1>7, <1>8 DEF TypeOK

-----------------------------------------------------------------------------
(* What a step does to a call *)

CallGoes(t) ==
    \/ thread'[t] = thread[t]
    \/ thread'[t] = Idle
    \/ \E k \in Keys :
          /\ entries[k] # NoEntry
          /\ thread'[t] = [pc |-> "check", key |-> k, e |-> entries[k], start |-> now]
    \/ /\ thread[t].pc = "check"
       /\ now <= thread[t].e.expires
       /\ thread'[t] = [thread[t] EXCEPT !.pc = "clone"]
    \/ /\ thread[t].pc = "clone"
       /\ thread'[t] =
             [pc |-> "served", e |-> thread[t].e, start |-> thread[t].start, at |-> now,
              msg |-> decrementRRs(thread[t].e.msg,
                         (now - thread[t].e.cached) \div TicksPerSecond)]
    \/ \E k \in Keys, msg \in Messages :
          thread'[t] = [pc |-> "store", key |-> k, msg |-> msg, at |-> now]

\* A step leaves a call alone or is one of the call's own.
LEMMA CallStep ==
    ASSUME TypeOK, [Next]_vars, NEW t \in Threads
    PROVE  CallGoes(t)
<1>0. thread = [u \in Threads |-> thread[u]]
    BY DEF TypeOK
<1>1. ASSUME NEW u \in Threads, NEW k \in Keys, GetRead(u, k)
      PROVE  CallGoes(t)
    BY <1>0, <1>1 DEF GetRead, CallGoes
<1>2. ASSUME NEW u \in Threads, NEW k \in Keys, NEW msg \in Messages,
             SetBegin(u, k, msg)
      PROVE  CallGoes(t)
    BY <1>0, <1>2 DEF SetBegin, CallGoes
<1>3. ASSUME NEW u \in Threads, GetCheck(u)
      PROVE  CallGoes(t)
    <2>1. thread[u].e.expires \in Nat /\ now \in Nat
        BY <1>3, CallTypes DEF GetCheck, Entry, TypeOK
    <2>2. \/ thread' = [thread EXCEPT ![u] = Idle]
          \/ /\ thread' = [thread EXCEPT ![u] = [thread[u] EXCEPT !.pc = "clone"]]
             /\ now <= thread[u].e.expires
        BY <1>0, <1>3, <2>1 DEF GetCheck
    <2> QED
        BY <1>0, <1>3, <2>2 DEF GetCheck, CallGoes
<1>4. ASSUME NEW u \in Threads, GetClone(u)
      PROVE  CallGoes(t)
    BY <1>0, <1>4 DEF GetClone, CallGoes
<1>5. ASSUME NEW u \in Threads, GetReturn(u) \/ SetStore(u)
      PROVE  CallGoes(t)
    BY <1>0, <1>5 DEF GetReturn, SetStore, CallGoes
<1>6. CASE UNCHANGED thread
    BY <1>6 DEF CallGoes
<1>7. \/ UNCHANGED thread
      \/ \E u \in Threads, k \in Keys : GetRead(u, k)
      \/ \E u \in Threads, k \in Keys, msg \in Messages : SetBegin(u, k, msg)
      \/ \E u \in Threads : ThreadStep(u)
    BY DEF Next, vars, Tick, SetNegative, PrefetchStep, PrefetchFails,
           PrefetchResolves, PrefetchStore, PrefetchReset, EvictStep, EvictTick,
           EvictScan, EvictDelete, EvictDeleteNeg, EvictNext, FlushBegin, FlushStep,
           FlushShard, FlushEnd
<1>8. CallGoes(t)
    BY <1>1, <1>2, <1>3, <1>4, <1>5, <1>6, <1>7 DEF ThreadStep
<1> QED
    BY <1>8

\* What Get hands out was alive when the call began.
LEMMA AliveInductive ==
    ASSUME TypeOK, Past, CloneAlive, ServedAlive, [Next]_vars
    PROVE  CloneAlive' /\ ServedAlive'
<1>1. ASSUME NEW t \in Threads
      PROVE  /\ thread'[t].pc = "clone" => thread'[t].start <= thread'[t].e.expires
             /\ thread'[t].pc = "served" => thread'[t].start <= thread'[t].e.expires
    <2> DEFINE Alive(r) == r.pc \in {"clone", "served"} => r.start <= r.e.expires
    <2>0. Alive(thread[t])
        BY CallTypes DEF CloneAlive, ServedAlive
    <2>1. CASE thread'[t] = thread[t]
        BY <2>0, <2>1
    <2>2. CASE thread'[t] = Idle
        BY <2>2 DEF Idle
    <2>3. ASSUME NEW e, NEW k,
                 thread'[t] = [pc |-> "check", key |-> k, e |-> e, start |-> now]
          PROVE  Alive(thread'[t])
        BY <2>3
    <2>4. CASE /\ thread[t].pc = "check"
               /\ now <= thread[t].e.expires
               /\ thread'[t] = [thread[t] EXCEPT !.pc = "clone"]
        <3>1. /\ thread[t].start <= now /\ thread[t].start \in Nat
              /\ thread[t].e.expires \in Nat /\ now \in Nat
            BY <2>4, CallTypes DEF Past, Entry, TypeOK
        <3>2. thread'[t].start = thread[t].start /\ thread'[t].e = thread[t].e
            BY <2>4, thread[t] \in CallState DEF CallState, Idle, TypeOK
        <3> QED
            BY <2>4, <3>1, <3>2
    <2>5. ASSUME NEW m, thread[t].pc = "clone",
                 thread'[t] = [pc |-> "served", e |-> thread[t].e,
                               start |-> thread[t].start, at |-> now, msg |-> m]
          PROVE  Alive(thread'[t])
        BY <2>0, <2>5
    <2>6. ASSUME NEW k, NEW msg,
                 thread'[t] = [pc |-> "store", key |-> k, msg |-> msg, at |-> now]
          PROVE  Alive(thread'[t])
        BY <2>6
    <2>7. Alive(thread'[t])
        BY <2>1, <2>2, <2>3, <2>4, <2>5, <2>6, CallStep DEF CallGoes
    <2> QED
        BY <2>7
<1> QED
    BY <1>1 DEF CloneAlive, ServedAlive

\* What is left of a TTL ends less than a second after its record's end.
LEMMA LeftIsHonest ==
    ASSUME NEW e \in Entry, now \in Nat, e.cached <= now,
           NEW ttl \in decrementRRs(e.msg, (now - e.cached) \div TicksPerSecond)
    PROVE  \E orig \in e.msg :
              /\ ttl \in 0 .. orig
              /\ ttl > 0 => now + ttl * TicksPerSecond
                               < e.cached + orig * TicksPerSecond + TicksPerSecond
<1> DEFINE age == now - e.cached
           d == age \div TicksPerSecond
<1>1. age \in Nat /\ now = e.cached + age /\ e.cached \in Nat
    BY DEF Entry
<1> HIDE DEF age
<1>2. d \in Nat /\ age < d * TicksPerSecond + TicksPerSecond
    BY <1>1, WholeSeconds
<1>3. ttl \in decrementRRs(e.msg, d)
    BY DEF age
<1> HIDE DEF d
<1>4. PICK orig \in e.msg : ttl = IF orig > d THEN orig - d ELSE 0
    BY <1>3 DEF decrementRRs
<1>5. orig \in Nat /\ ttl \in 0 .. orig
    BY <1>2, <1>4, CacheConstants DEF Entry
<1>6. ASSUME ttl > 0
      PROVE  now + ttl * TicksPerSecond
                 < e.cached + orig * TicksPerSecond + TicksPerSecond
    <2>1. ttl = orig - d
        BY <1>2, <1>4, <1>5, <1>6
    <2>2. TicksPerSecond \in Nat
        BY CacheConstants
    <2>3. (orig - d) * TicksPerSecond = orig * TicksPerSecond - d * TicksPerSecond
        BY <1>2, <1>5, <2>2
    <2>4. orig * TicksPerSecond \in Int /\ d * TicksPerSecond \in Int
        BY <1>2, <1>5, <2>2
    <2> QED
        BY <1>1, <1>2, <2>1, <2>2, <2>3, <2>4
<1> QED
    BY <1>5, <1>6

\* A served TTL stays what it was; a new one is honest.
LEMMA HonestInductive ==
    ASSUME TypeOK, Past, ServedTTLHonest, [Next]_vars
    PROVE  ServedTTLHonest'
<1> DEFINE Fair(r) == \A ttl \in r.msg : ttl > 0 =>
                \E orig \in r.e.msg :
                    r.at + ttl * TicksPerSecond
                        < r.e.cached + orig * TicksPerSecond + TicksPerSecond
<1>1. ASSUME NEW t \in Threads, thread'[t].pc = "served"
      PROVE  Fair(thread'[t])
    <2>1. CASE thread'[t] = thread[t]
        BY <1>1, <2>1 DEF ServedTTLHonest
    <2>2. CASE /\ thread[t].pc = "clone"
               /\ thread'[t] =
                     [pc |-> "served", e |-> thread[t].e, start |-> thread[t].start,
                      at |-> now,
                      msg |-> decrementRRs(thread[t].e.msg,
                                 (now - thread[t].e.cached) \div TicksPerSecond)]
        <3>1. thread[t].e \in Entry /\ now \in Nat /\ thread[t].e.cached <= now
            BY <2>2, CallTypes DEF Past, TypeOK
        <3>2. /\ thread'[t].e = thread[t].e /\ thread'[t].at = now
              /\ thread'[t].msg = decrementRRs(thread[t].e.msg,
                                     (now - thread[t].e.cached) \div TicksPerSecond)
            BY <2>2
        <3> QED
            BY <3>1, <3>2, LeftIsHonest
    <2>3. ASSUME thread[t].pc = "check", thread'[t] = [thread[t] EXCEPT !.pc = "clone"]
          PROVE  FALSE
        BY <1>1, <2>3, thread[t] \in CallState DEF CallState, Idle, TypeOK
    <2>4. ASSUME NEW k, NEW e,
                 \/ thread'[t] = Idle
                 \/ thread'[t] = [pc |-> "check", key |-> k, e |-> e, start |-> now]
                 \/ thread'[t] = [pc |-> "store", key |-> k, msg |-> e, at |-> now]
          PROVE  FALSE
        BY <1>1, <2>4 DEF Idle
    <2>5. CallGoes(t)
        BY CallStep
    <2> HIDE DEF Fair
    <2> QED
        BY <2>1, <2>2, <2>3, <2>4, <2>5 DEF CallGoes
<1> QED
    BY <1>1 DEF ServedTTLHonest

-----------------------------------------------------------------------------
(* Refreshes *)

\* A step leaves every refresh alone, starts one for an entry that has none,
\* or takes one forward.
RefreshGoes ==
    \/ UNCHANGED <<prefetching, prefetcher>>
    \/ \E t \in Threads, p \in Prefetchers :
          /\ thread[t].pc = "check"
          /\ thread[t].e.id \notin prefetching
          /\ prefetching' = prefetching \cup {thread[t].e.id}
          /\ prefetcher[p] = Idle
          /\ prefetcher' = [prefetcher EXCEPT ![p] =
                 [pc |-> "resolve", key |-> thread[t].key, id |-> thread[t].e.id]]
    \/ \E p \in Prefetchers, r \in PrefetchState :
          /\ prefetcher[p] # Idle
          /\ prefetching' = prefetching
          /\ prefetcher' = [prefetcher EXCEPT ![p] = r]
          /\ r # Idle
          /\ r.id = prefetcher[p].id
          /\ r.pc = "store" => r.at = now
    \/ \E p \in Prefetchers :
          /\ prefetcher[p] # Idle
          /\ prefetching' = prefetching \ {prefetcher[p].id}
          /\ prefetcher' = [prefetcher EXCEPT ![p] = Idle]

LEMMA RefreshStep ==
    ASSUME TypeOK, [Next]_vars
    PROVE  RefreshGoes
<1>1. ASSUME NEW t \in Threads, GetCheck(t)
      PROVE  RefreshGoes
    BY <1>1 DEF GetCheck, StartPrefetch, RefreshGoes
<1>2. ASSUME NEW p \in Prefetchers, PrefetchFails(p) \/ PrefetchStore(p)
      PROVE  RefreshGoes
    <2> DEFINE r == [pc |-> "reset", id |-> prefetcher[p].id]
    <2>1. /\ prefetcher[p] # Idle /\ prefetching' = prefetching
          /\ prefetcher' = [prefetcher EXCEPT ![p] = r]
          /\ prefetcher[p].id \in Nat
        BY <1>2, RefreshTypes DEF PrefetchFails, PrefetchStore, Idle
    <2>2. r \in PrefetchState /\ r # Idle /\ r.id = prefetcher[p].id /\ r.pc # "store"
        BY <2>1 DEF PrefetchState, Idle
    <2> HIDE DEF r
    <2> QED
        BY <2>1, <2>2 DEF RefreshGoes
<1>3. ASSUME NEW p \in Prefetchers, NEW msg \in Messages, PrefetchResolves(p, msg)
      PROVE  RefreshGoes
    <2> DEFINE r == [pc |-> "store", id |-> prefetcher[p].id,
                     key |-> prefetcher[p].key, msg |-> msg, at |-> now]
    <2>1. /\ prefetcher[p] # Idle /\ prefetching' = prefetching
          /\ prefetcher' = [prefetcher EXCEPT ![p] = r]
          /\ prefetcher[p].id \in Nat /\ prefetcher[p].key \in Keys
        BY <1>3, RefreshTypes DEF PrefetchResolves, Idle
    <2>2. r \in PrefetchState /\ r # Idle /\ r.id = prefetcher[p].id /\ r.at = now
        BY <2>1 DEF PrefetchState, Idle, TypeOK
    <2> HIDE DEF r
    <2> QED
        BY <2>1, <2>2 DEF RefreshGoes
<1>4. ASSUME NEW p \in Prefetchers, PrefetchReset(p)
      PROVE  RefreshGoes
    BY <1>4, RefreshTypes DEF PrefetchReset, RefreshGoes, Idle
<1>5. \/ UNCHANGED <<prefetching, prefetcher>>
      \/ \E t \in Threads : GetCheck(t)
      \/ \E p \in Prefetchers : PrefetchStep(p)
    BY DEF Next, vars, Tick, SetNegative, ThreadStep, GetRead, SetBegin, SetStore,
           GetClone, GetReturn, EvictStep, EvictTick, EvictScan, EvictDelete,
           EvictDeleteNeg, EvictNext, FlushBegin, FlushStep, FlushShard, FlushEnd
<1>6. CASE UNCHANGED <<prefetching, prefetcher>>
    BY <1>6 DEF RefreshGoes
<1> QED
    BY <1>1, <1>2, <1>3, <1>4, <1>5, <1>6 DEF PrefetchStep

\* The flags are those of the entries that are being refreshed, once each.
LEMMA RefreshInductive ==
    ASSUME TypeOK, OnePrefetchPerEntry, [Next]_vars
    PROVE  OnePrefetchPerEntry'
<1> DEFINE Busy(f) == {p \in Prefetchers : f[p] # Idle}
           One(flags, f) ==
              /\ flags = {f[p].id : p \in Busy(f)}
              /\ \A p, q \in Busy(f) : f[p].id = f[q].id => p = q
<1>0. One(prefetching, prefetcher) /\ prefetcher = [p \in Prefetchers |-> prefetcher[p]]
    BY DEF OnePrefetchPerEntry, TypeOK
<1>1. ASSUME UNCHANGED <<prefetching, prefetcher>>
      PROVE  One(prefetching', prefetcher')
    BY <1>0, <1>1
<1>2. ASSUME NEW t \in Threads, NEW p \in Prefetchers,
             thread[t].e.id \notin prefetching,
             prefetching' = prefetching \cup {thread[t].e.id},
             prefetcher[p] = Idle,
             prefetcher' = [prefetcher EXCEPT ![p] =
                 [pc |-> "resolve", key |-> thread[t].key, id |-> thread[t].e.id]]
      PROVE  One(prefetching', prefetcher')
    <2>1. [pc |-> "resolve", key |-> thread[t].key, id |-> thread[t].e.id] # Idle
        BY DEF Idle
    <2>2. Busy(prefetcher') = Busy(prefetcher) \cup {p}
        BY <1>0, <1>2, <2>1
    <2>3. /\ prefetcher'[p].id = thread[t].e.id
          /\ \A q \in Busy(prefetcher) : q # p /\ prefetcher'[q] = prefetcher[q]
        BY <1>0, <1>2
    <2> QED
        BY <1>0, <1>2, <2>2, <2>3
<1>3. ASSUME NEW p \in Prefetchers, NEW r, prefetcher[p] # Idle,
             prefetching' = prefetching,
             prefetcher' = [prefetcher EXCEPT ![p] = r],
             r # Idle, r.id = prefetcher[p].id
      PROVE  One(prefetching', prefetcher')
    <2>1. Busy(prefetcher') = Busy(prefetcher)
        BY <1>0, <1>3
    <2>2. \A q \in Busy(prefetcher) : prefetcher'[q].id = prefetcher[q].id
        BY <1>0, <1>3
    <2> QED
        BY <1>0, <1>3, <2>1, <2>2
<1>4. ASSUME NEW p \in Prefetchers, prefetcher[p] # Idle,
             prefetching' = prefetching \ {prefetcher[p].id},
             prefetcher' = [prefetcher EXCEPT ![p] = Idle]
      PROVE  One(prefetching', prefetcher')
    <2>1. Busy(prefetcher') = Busy(prefetcher) \ {p}
        BY <1>0, <1>4
    <2>2. \A q \in Busy(prefetcher) \ {p} : prefetcher'[q] = prefetcher[q]
        BY <1>0, <1>4
    <2> QED
        BY <1>0, <1>4, <2>1, <2>2
<1> HIDE DEF One
<1>5. One(prefetching', prefetcher')
    BY <1>1, <1>2, <1>3, <1>4, RefreshStep DEF RefreshGoes
<1> QED
    BY <1>5 DEF One, OnePrefetchPerEntry

-----------------------------------------------------------------------------
(* Nothing is younger than the clock and the next entry object *)

LEMMA RoundsPast ==
    ASSUME TypeOK, Past, [Next]_vars
    PROVE  /\ (evictor.pc # "idle" => evictor.now <= now)'
           /\ (flusher.pc = "run" =>
                  flusher.firstId <= nextId /\ flusher.start <= now)'
<1>0. /\ now \in Nat /\ now' \in Nat /\ now <= now'
      /\ nextId \in Nat /\ nextId' \in Nat /\ nextId <= nextId'
    BY ClocksAdvance DEF TypeOK
<1>1. evictor'.pc = "idle" \/ evictor'.now = now
          \/ (evictor.pc # "idle" /\ evictor'.now = evictor.now)
    <2>1. CASE EvictTick \/ EvictScan \/ EvictNext
        BY <2>1 DEF EvictTick, EvictScan, EvictNext, Idle
    <2>2. CASE EvictDelete \/ EvictDeleteNeg
        BY <2>2, evictor \in EvictState
        DEF EvictDelete, EvictDeleteNeg, EvictState, Idle, TypeOK
    <2>3. CASE UNCHANGED evictor
        BY <2>3
    <2>4. EvictTick \/ EvictScan \/ EvictNext \/ EvictDelete \/ EvictDeleteNeg
              \/ UNCHANGED evictor
        BY DEF Next, vars, Tick, GetRead, SetNegative, SetBegin, SetStore, ThreadStep,
            GetCheck, GetClone, GetReturn, PrefetchStep, PrefetchFails,
            PrefetchResolves, PrefetchStore, PrefetchReset, EvictStep, FlushBegin,
            FlushStep, FlushShard, FlushEnd
    <2> QED
        BY <2>1, <2>2, <2>3, <2>4
<1>2. \/ flusher'.pc # "run"
      \/ flusher'.firstId = nextId /\ flusher'.start = now
      \/ /\ flusher.pc = "run"
         /\ flusher'.firstId = flusher.firstId /\ flusher'.start = flusher.start
    <2>1. ASSUME NEW mode \in Modes, FlushBegin(mode)
          PROVE  flusher'.firstId = nextId /\ flusher'.start = now
        BY <2>1 DEF FlushBegin
    <2>2. CASE FlushShard
        BY <2>2, flusher \in FlushState DEF FlushShard, FlushState, Idle, TypeOK
    <2>3. CASE FlushEnd
        BY <2>3 DEF FlushEnd, Idle
    <2>4. CASE UNCHANGED flusher
        BY <2>4
    <2>5. (\E mode \in Modes : FlushBegin(mode)) \/ FlushShard \/ FlushEnd
              \/ UNCHANGED flusher
        BY DEF Next, vars, Tick, GetRead, SetNegative, SetBegin, SetStore, ThreadStep,
            GetCheck, GetClone, GetReturn, PrefetchStep, PrefetchFails,
            PrefetchResolves, PrefetchStore, PrefetchReset, EvictStep, EvictTick,
            EvictScan, EvictDelete, EvictDeleteNeg, EvictNext, FlushStep
    <2> QED
        BY <2>1, <2>2, <2>3, <2>4, <2>5
<1>3. evictor'.pc # "idle" => evictor'.now <= now'
    BY <1>0, <1>1, RoundTypes DEF Past
<1>4. flusher'.pc = "run" => flusher'.firstId <= nextId' /\ flusher'.start <= now'
    BY <1>0, <1>2, RoundTypes DEF Past
<1> QED
    BY <1>3, <1>4

LEMMA PastInductive ==
    ASSUME TypeOK, Past, OnePrefetchPerEntry, [Next]_vars
    PROVE  Past'
<1>0. /\ now \in Nat /\ now' \in Nat /\ now <= now'
      /\ nextId \in Nat /\ nextId' \in Nat /\ nextId <= nextId'
    BY ClocksAdvance DEF TypeOK
<1>e. ASSUME NEW k \in Keys, entries[k] # NoEntry
      PROVE  /\ entries[k].id < nextId' /\ entries[k].cached <= now'
             /\ entries[k].id < nextId /\ entries[k].cached <= now
    <2>1. /\ entries[k].id \in Nat /\ entries[k].cached \in Nat
          /\ entries[k].id < nextId /\ entries[k].cached <= now
        BY <1>e DEF Past, TypeOK, Entry
    <2> QED
        BY <1>0, <2>1
<1>1. ASSUME NEW k \in Keys, entries'[k] # NoEntry
      PROVE  entries'[k].id < nextId' /\ entries'[k].cached <= now'
    <2>1. CASE entries'[k] = entries[k]
        BY <1>1, <1>e, <2>1
    <2>2. CASE entries'[k] # entries[k]
        <3>1. /\ entries'[k].id = nextId /\ nextId' = nextId + 1
              /\ entries'[k].cached <= now /\ entries'[k].cached \in Nat
            BY <1>1, <2>2, EntriesTyped DEF Entry
        <3> QED
            BY <1>0, <3>1
    <2> QED
        BY <2>1, <2>2
<1>2. ASSUME NEW t \in Threads
      PROVE  /\ thread'[t].pc \in {"check", "clone", "served"} =>
                    thread'[t].e.id < nextId' /\ thread'[t].e.cached <= now'
             /\ thread'[t].pc \in {"check", "clone"} => thread'[t].start <= now'
             /\ thread'[t].pc = "store" => thread'[t].at <= now'
    <2> DEFINE Late(r) ==
               /\ r.pc \in {"check", "clone", "served"} =>
                      r.e.id < nextId' /\ r.e.cached <= now'
               /\ r.pc \in {"check", "clone"} => r.start <= now'
               /\ r.pc = "store" => r.at <= now'
    <2>0. Late(thread[t])
        <3>1. /\ thread[t].pc \in {"check", "clone", "served"} =>
                    /\ thread[t].e.id \in Nat /\ thread[t].e.cached \in Nat
                    /\ thread[t].e.id < nextId /\ thread[t].e.cached <= now
              /\ thread[t].pc \in {"check", "clone"} =>
                    thread[t].start \in Nat /\ thread[t].start <= now
              /\ thread[t].pc = "store" => thread[t].at \in Nat /\ thread[t].at <= now
            BY CallTypes DEF Past, Entry
        <3> QED
            BY <1>0, <3>1
    <2>1. ASSUME thread'[t] = thread[t]
          PROVE  Late(thread'[t])
        BY <2>0, <2>1
    <2>2. ASSUME thread'[t] = Idle
          PROVE  Late(thread'[t])
        BY <2>2 DEF Idle
    <2>3. ASSUME NEW k \in Keys, entries[k] # NoEntry,
                 thread'[t] = [pc |-> "check", key |-> k, e |-> entries[k],
                               start |-> now]
          PROVE  Late(thread'[t])
        BY <1>0, <1>e, <2>3
    <2>4. ASSUME thread[t].pc = "check",
                 thread'[t] = [thread[t] EXCEPT !.pc = "clone"]
          PROVE  Late(thread'[t])
        <3>1. /\ thread'[t].start = thread[t].start /\ thread'[t].e = thread[t].e
              /\ thread'[t].pc = "clone"
            BY <2>4, thread[t] \in CallState DEF CallState, Idle, TypeOK
        <3> QED
            BY <2>0, <2>4, <3>1
    <2>5. ASSUME NEW m, thread[t].pc = "clone",
                 thread'[t] = [pc |-> "served", e |-> thread[t].e,
                               start |-> thread[t].start, at |-> now, msg |-> m]
          PROVE  Late(thread'[t])
        BY <2>0, <2>5
    <2>6. ASSUME NEW k, NEW msg,
                 thread'[t] = [pc |-> "store", key |-> k, msg |-> msg, at |-> now]
          PROVE  Late(thread'[t])
        BY <1>0, <2>6
    <2>7. Late(thread'[t])
        BY <2>1, <2>2, <2>3, <2>4, <2>5, <2>6, CallStep DEF CallGoes
    <2> QED
        BY <2>7
<1>3. ASSUME NEW p \in Prefetchers
      PROVE  /\ prefetcher'[p] # Idle => prefetcher'[p].id < nextId'
             /\ prefetcher'[p].pc = "store" => prefetcher'[p].at <= now'
    <2> DEFINE Late(r) == /\ r # Idle => r.id < nextId'
                          /\ r.pc = "store" => r.at <= now'
    <2>0. /\ Late(prefetcher[p])
          /\ prefetcher[p] # Idle => prefetcher[p].id < nextId'
        <3>1. /\ prefetcher[p] # Idle =>
                    prefetcher[p].id \in Nat /\ prefetcher[p].id < nextId
              /\ prefetcher[p].pc = "store" =>
                    prefetcher[p].at \in Nat /\ prefetcher[p].at <= now
            BY RefreshTypes DEF Past
        <3> QED
            BY <1>0, <3>1
    <2>a. prefetcher = [q \in Prefetchers |-> prefetcher[q]]
        BY DEF TypeOK
    <2>1. ASSUME UNCHANGED <<prefetching, prefetcher>>
          PROVE  Late(prefetcher'[p])
        BY <2>0, <2>1
    <2>2. ASSUME NEW t \in Threads, NEW q \in Prefetchers, thread[t].pc = "check",
                 prefetcher' = [prefetcher EXCEPT ![q] =
                    [pc |-> "resolve", key |-> thread[t].key, id |-> thread[t].e.id]]
          PROVE  Late(prefetcher'[p])
        <3>1. thread[t].e.id < nextId /\ thread[t].e.id \in Nat
            BY <2>2, CallTypes DEF Past, Entry
        <3>2. Late([pc |-> "resolve", key |-> thread[t].key, id |-> thread[t].e.id])
            BY <1>0, <3>1
        <3> QED
            BY <2>0, <2>a, <2>2, <3>2
    <2>3. ASSUME NEW q \in Prefetchers, NEW r, prefetcher[q] # Idle,
                 prefetcher' = [prefetcher EXCEPT ![q] = r],
                 r.id = prefetcher[q].id, r.pc = "store" => r.at = now
          PROVE  Late(prefetcher'[p])
        <3>1. CASE p = q
            BY <1>0, <2>0, <2>a, <2>3, <3>1
        <3>2. CASE p # q
            BY <2>0, <2>a, <2>3, <3>2
        <3> QED
            BY <3>1, <3>2
    <2>4. ASSUME NEW q \in Prefetchers, prefetcher' = [prefetcher EXCEPT ![q] = Idle]
          PROVE  Late(prefetcher'[p])
        <3>1. Late(Idle)
            BY DEF Idle
        <3> QED
            BY <2>0, <2>a, <2>4, <3>1
    <2>5. Late(prefetcher'[p])
        BY <2>1, <2>2, <2>3, <2>4, RefreshStep DEF RefreshGoes
    <2> QED
        BY <2>5
<1> QED
    BY <1>1, <1>2, <1>3, RoundsPast DEF Past

-----------------------------------------------------------------------------
(* The bound on a shard *)

LEMMA ShardsAreFinite ==
    ASSUME NEW s
    PROVE  /\ IsFiniteSet(Occupied(s))
           /\ Cardinality(Occupied(s)) \in Nat
<1>1. Occupied(s) \in SUBSET Keys
    BY DEF Occupied, InShard
<1> QED
    BY <1>1, CacheConstants, FS_Subset, FS_CardinalityType

LEMMA OneMore ==
    ASSUME NEW S, NEW x, IsFiniteSet(S)
    PROVE  /\ IsFiniteSet(S \cup {x})
           /\ Cardinality(S \cup {x}) \in Nat
           /\ Cardinality(S \cup {x}) <= Cardinality(S) + 1
<1>1. IsFiniteSet(S \cup {x})
    BY FS_AddElement
<1>2. Cardinality(S) \in Nat
    BY FS_CardinalityType
<1>3. Cardinality(S \cup {x}) \in Nat
    BY <1>1, FS_CardinalityType
<1>4. Cardinality(S \cup {x}) = IF x \in S THEN Cardinality(S) ELSE Cardinality(S) + 1
    BY FS_AddElement
<1>5. Cardinality(S \cup {x}) <= Cardinality(S) + 1
    BY <1>2, <1>4
<1> QED
    BY <1>1, <1>3, <1>5

\* No shard grows past its share.
LEMMA BoundInductive ==
    ASSUME TypeOK, Past, ShardBound, [Next]_vars
    PROVE  ShardBound'
<1> SUFFICES ASSUME maxPerShard > 0, NEW s \in Shards
             PROVE  Cardinality(Occupied(s)') <= maxPerShard
    BY DEF ShardBound, maxPerShard, Shards
<1>0. Cardinality(Occupied(s)) <= maxPerShard
    BY DEF ShardBound
<1>c. maxPerShard \in Int
    BY CacheConstants DEF maxPerShard
<1>f. /\ IsFiniteSet(Occupied(s)) /\ Cardinality(Occupied(s)) \in Nat
    BY ShardsAreFinite
<1>1. ASSUME \A k \in Keys : Removes(k)
      PROVE  Cardinality(Occupied(s)') <= maxPerShard
    <2>1. Occupied(s)' \in SUBSET Occupied(s)
        BY <1>1 DEF Occupied, InShard, Removes
    <2>2. IsFiniteSet(Occupied(s)') /\ Cardinality(Occupied(s)') <= Cardinality(Occupied(s))
        BY <1>f, <2>1, FS_Subset
    <2>3. Cardinality(Occupied(s)') \in Nat
        BY <2>2, FS_CardinalityType
    <2> QED
        BY <1>0, <1>c, <1>f, <2>2, <2>3
<1>2. ASSUME NEW k \in Keys, NEW msg \in Messages, NEW at \in Nat, Store(k, msg, at)
      PROVE  Cardinality(Occupied(s)') <= maxPerShard
    <2>1. /\ entries'[k] = NewEntry(msg, at) /\ entries'[k] # NoEntry
          /\ \A j \in Keys \ {k} : Removes(j)
        BY <1>2, StoreEffect, NewEntryType
    <2>2. CASE ShardOf[k] # s \/ entries[k] # NoEntry
        <3>1. Occupied(s)' \in SUBSET Occupied(s)
            BY <2>1, <2>2 DEF Occupied, InShard, Removes
        <3>2. IsFiniteSet(Occupied(s)')
                  /\ Cardinality(Occupied(s)') <= Cardinality(Occupied(s))
            BY <1>f, <3>1, FS_Subset
        <3>3. Cardinality(Occupied(s)') \in Nat
            BY <3>2, FS_CardinalityType
        <3> QED
            BY <1>0, <1>c, <1>f, <3>2, <3>3
    <2>3. CASE ShardOf[k] = s /\ entries[k] = NoEntry /\ ~ MustEvict(k)
        <3>1. Cardinality(Occupied(s)) < maxPerShard
            BY <1>c, <1>f, <2>3 DEF MustEvict
        <3>2. Occupied(s)' \in SUBSET (Occupied(s) \cup {k})
            BY <2>1 DEF Occupied, InShard, Removes
        <3>3. /\ IsFiniteSet(Occupied(s) \cup {k})
              /\ Cardinality(Occupied(s) \cup {k}) <= Cardinality(Occupied(s)) + 1
              /\ Cardinality(Occupied(s) \cup {k}) \in Nat
            BY <1>f, OneMore
        <3>4. /\ IsFiniteSet(Occupied(s)')
              /\ Cardinality(Occupied(s)') <= Cardinality(Occupied(s) \cup {k})
            BY <3>2, <3>3, FS_Subset
        <3>5. Cardinality(Occupied(s)') \in Nat
            BY <3>4, FS_CardinalityType
        <3> QED
            BY <1>c, <1>f, <3>1, <3>3, <3>4, <3>5
    <2>4. CASE ShardOf[k] = s /\ entries[k] = NoEntry /\ MustEvict(k)
        <3>1. PICK v \in Occupied(s) : entries'[v] = NoEntry
            <4>1. PICK v \in Soonest(s) :
                      entries' = [j \in Keys |->
                         IF j = k
                         THEN [id |-> nextId, msg |-> msg, cached |-> at,
                               expires |-> at + Lifetime(msg) * TicksPerSecond]
                         ELSE IF j \in {v} THEN NoEntry ELSE entries[j]]
                BY <1>2, <2>4 DEF Store
            <4>2. v \in Occupied(s) /\ v \in Keys /\ v # k
                BY <2>4 DEF Soonest, Occupied, InShard
            <4> QED
                BY <4>1, <4>2
        <3>2. Occupied(s)' \in SUBSET ((Occupied(s) \ {v}) \cup {k})
            BY <2>1, <3>1 DEF Occupied, InShard, Removes
        <3>3. /\ IsFiniteSet(Occupied(s) \ {v})
              /\ Cardinality(Occupied(s) \ {v}) = Cardinality(Occupied(s)) - 1
              /\ Cardinality(Occupied(s) \ {v}) \in Nat
            BY <1>f, <3>1, FS_RemoveElement, FS_CardinalityType
        <3>4. /\ IsFiniteSet((Occupied(s) \ {v}) \cup {k})
              /\ Cardinality((Occupied(s) \ {v}) \cup {k})
                     <= Cardinality(Occupied(s) \ {v}) + 1
              /\ Cardinality((Occupied(s) \ {v}) \cup {k}) \in Nat
            BY <3>3, OneMore
        <3>5. /\ IsFiniteSet(Occupied(s)')
              /\ Cardinality(Occupied(s)') <= Cardinality((Occupied(s) \ {v}) \cup {k})
            BY <3>2, <3>4, FS_Subset
        <3>6. Cardinality(Occupied(s)') \in Nat
            BY <3>5, FS_CardinalityType
        <3> QED
            BY <1>0, <1>c, <1>f, <3>3, <3>4, <3>5, <3>6
    <2> QED
        BY <2>2, <2>3, <2>4
<1> QED
    BY <1>1, <1>2, EntriesStep

\* The shares cover the configured maximum and no more than NumShards - 1
\* entries beyond it.
LEMMA SharesOfTheMaximum ==
    ASSUME MaxSize > 0
    PROVE  /\ maxPerShard \in Nat \ {0}
           /\ NumShards * maxPerShard < MaxSize + NumShards
<1> DEFINE n == NumShards
           m == MaxSize
           q == (m + n - 1) \div n
<1>1. n \in Nat \ {0} /\ m \in Nat \ {0}
    BY CacheConstants
<1>2. maxPerShard = q
    BY DEF maxPerShard
<1> HIDE DEF n, m
<1>3. q \in Nat \ {0} /\ n * q <= m + n - 1
    BY <1>1
<1>4. n * q < m + n
    <2> HIDE DEF q
    <2>1. n * q \in Nat
        BY <1>1, <1>3
    <2> QED
        BY <1>1, <1>3, <2>1
<1> QED
    BY <1>2, <1>3, <1>4 DEF n, m

\* The entries of a shard within its share can be numbered by it.
LEMMA ShardNumbered ==
    ASSUME TypeOK, ShardBound, maxPerShard \in Nat \ {0}, NEW s \in Shards
    PROVE  \E h \in [Occupied(s) -> 1 .. maxPerShard] :
              \A j, k \in Occupied(s) : h[j] = h[k] => j = k
<1> DEFINE c == Cardinality(Occupied(s))
<1>1. IsFiniteSet(Occupied(s)) /\ c \in Nat /\ c <= maxPerShard
    BY ShardsAreFinite DEF ShardBound
<1>2. IsFiniteSet(1 .. c) /\ Cardinality(1 .. c) = c
    BY <1>1, FS_Interval
<1>3. ExistsBijection(Occupied(s), 1 .. c)
    BY <1>1, <1>2, FS_SameCardinalityBij
<1>4. PICK h : h \in Bijection(Occupied(s), 1 .. c)
    BY <1>3 DEF ExistsBijection
<1>5. /\ h \in [Occupied(s) -> 1 .. c]
      /\ \A j, k \in Occupied(s) : h[j] = h[k] => j = k
    BY <1>4 DEF Bijection, Injection, IsInjective
<1>6. 1 .. c \subseteq 1 .. maxPerShard
    BY <1>1
<1> QED
    BY <1>5, <1>6

\* The shards within their shares hold fewer entries than the maximum and one
\* for each shard.
LEMMA SharesBoundTotal ==
    ASSUME TypeOK, ShardBound
    PROVE  TotalBound
<1> SUFFICES ASSUME MaxSize > 0
             PROVE  Cardinality(Held) < MaxSize + NumShards
    BY DEF TotalBound
<1> DEFINE m == maxPerShard
           nr == [s \in Shards |-> CHOOSE h \in [Occupied(s) -> 1 .. m] :
                      \A j, k \in Occupied(s) : h[j] = h[k] => j = k]
           place == [k \in Held |-> <<ShardOf[k], nr[ShardOf[k]][k]>>]
<1>1. m \in Nat \ {0} /\ NumShards * m < MaxSize + NumShards
    BY SharesOfTheMaximum
<1>2. ASSUME NEW s \in Shards
      PROVE  /\ nr[s] \in [Occupied(s) -> 1 .. m]
             /\ \A j, k \in Occupied(s) : nr[s][j] = nr[s][k] => j = k
    BY <1>1, ShardNumbered
<1>3. ASSUME NEW k \in Held
      PROVE  ShardOf[k] \in Shards /\ k \in Occupied(ShardOf[k])
    BY CacheConstants DEF Held, Occupied, InShard, Shards
<1> HIDE DEF m, nr
<1>4. place \in Injection(Held, Shards \X (1 .. m))
    <2>1. place \in [Held -> Shards \X (1 .. m)]
        BY <1>2, <1>3
    <2>2. ASSUME NEW j \in Held, NEW k \in Held, place[j] = place[k]
          PROVE  j = k
        BY <1>2, <1>3, <2>2
    <2> HIDE DEF place
    <2> QED
        BY <2>1, <2>2 DEF Injection, IsInjective
<1>5. /\ IsFiniteSet(Shards) /\ Cardinality(Shards) = NumShards
      /\ IsFiniteSet(1 .. m) /\ Cardinality(1 .. m) = m
    BY <1>1, CacheConstants, FS_Interval DEF Shards
<1>6. /\ IsFiniteSet(Shards \X (1 .. m))
      /\ Cardinality(Shards \X (1 .. m)) = NumShards * m
    BY <1>5, FS_Product
<1>7. IsFiniteSet(Held) /\ Cardinality(Held) <= NumShards * m
    BY <1>4, <1>6, FS_Injection
<1>8. Cardinality(Held) \in Nat /\ NumShards * m \in Nat
    BY <1>6, <1>7, FS_CardinalityType
<1> QED
    BY <1>1, <1>7, <1>8, CacheConstants

-----------------------------------------------------------------------------
(* Flush *)

LEMMA NegativeStep ==
    ASSUME TypeOK, [Next]_vars, NEW k \in Keys
    PROVE  \/ negative'[k] \in {negative[k], NoNegative}
           \/ negative'[k] = now + negTTL * TicksPerSecond
<1>0. negative = [j \in Keys |-> negative[j]]
    BY DEF TypeOK
<1>1. ASSUME NEW t \in Threads, NEW j \in NegativeKeys, SetNegative(t, j)
      PROVE  \/ negative'[k] \in {negative[k], NoNegative}
             \/ negative'[k] = now + negTTL * TicksPerSecond
    BY <1>0, <1>1 DEF SetNegative
<1>2. CASE EvictDeleteNeg
    BY <1>2 DEF EvictDeleteNeg
<1>3. CASE FlushShard
    BY <1>3 DEF FlushShard
<1>4. CASE UNCHANGED negative
    BY <1>4
<1>5. (\E t \in Threads, j \in NegativeKeys : SetNegative(t, j))
          \/ EvictDeleteNeg \/ FlushShard \/ UNCHANGED negative
    BY DEF Next, vars, Tick, GetRead, SetBegin, SetStore, ThreadStep,
        GetCheck, GetClone, GetReturn, PrefetchStep, PrefetchFails,
        PrefetchResolves, PrefetchStore, PrefetchReset, EvictStep, EvictTick,
        EvictScan, EvictDelete, EvictNext, FlushBegin, FlushStep, FlushEnd
<1> QED
    BY <1>1, <1>2, <1>3, <1>4, <1>5

\* What a running flush has passed stays without anything from before it.
LEMMA FlushInductive ==
    ASSUME TypeOK, Past, FlushCovers, [Next]_vars
    PROVE  FlushCovers'
<1> SUFFICES ASSUME flusher'.pc = "run", NEW k \in Keys,
                    ShardOf[k] < flusher'.shard
             PROVE  /\ flusher'.mode = "all" /\ entries'[k] # NoEntry
                          => entries'[k].id >= flusher'.firstId
                    /\ flusher'.mode \in {"all", "negative"} /\ negative'[k] # NoNegative
                          => negative'[k] >= flusher'.start + negTTL * TicksPerSecond
    BY DEF FlushCovers
<1>0. ShardOf[k] \in Nat /\ negTTL * TicksPerSecond \in Nat /\ now \in Nat
          /\ nextId \in Nat
    BY CacheConstants DEF negTTL, TypeOK
<1>1. CASE UNCHANGED flusher
    <2>1. /\ flusher.firstId \in Nat /\ flusher.start \in Nat
          /\ flusher.firstId <= nextId /\ flusher.start <= now
        BY <1>1, RoundTypes DEF Past
    <2>2. ASSUME flusher.mode = "all", entries'[k] # NoEntry
          PROVE  entries'[k].id >= flusher.firstId
        <3>1. CASE entries'[k] = entries[k]
            BY <1>1, <2>2, <3>1 DEF FlushCovers
        <3>2. CASE entries'[k] # entries[k]
            BY <1>0, <2>1, <2>2, <3>2, EntriesTyped
        <3> QED
            BY <3>1, <3>2
    <2>3. ASSUME flusher.mode \in {"all", "negative"}, negative'[k] # NoNegative
          PROVE  negative'[k] >= flusher.start + negTTL * TicksPerSecond
        <3>1. CASE negative'[k] = negative[k]
            BY <1>1, <2>3, <3>1 DEF FlushCovers
        <3>2. CASE negative'[k] = now + negTTL * TicksPerSecond
            BY <1>0, <2>1, <3>2
        <3> QED
            BY <2>3, <3>1, <3>2, NegativeStep
    <2> QED
        BY <1>1, <2>2, <2>3
<1>2. ASSUME NEW mode \in Modes, FlushBegin(mode)
      PROVE  FALSE
    BY <1>0, <1>2 DEF FlushBegin
<1>3. CASE FlushShard
    <2>1. /\ flusher.pc = "run" /\ flusher.shard \in Nat
          /\ flusher'.shard = flusher.shard + 1 /\ flusher'.mode = flusher.mode
          /\ flusher'.firstId = flusher.firstId /\ flusher'.start = flusher.start
        BY <1>3, RoundTypes, flusher \in FlushState
        DEF FlushShard, FlushState, Idle, TypeOK
    <2>2. CASE ShardOf[k] < flusher.shard
        BY <1>3, <2>1, <2>2 DEF FlushShard, FlushCovers, Occupied, InShard
    <2>3. CASE ShardOf[k] = flusher.shard
        BY <1>3, <2>1, <2>3 DEF FlushShard, Occupied, InShard
    <2> QED
        BY <1>0, <2>1, <2>2, <2>3
<1>4. CASE FlushEnd
    BY <1>4 DEF FlushEnd, Idle
<1>5. (\E mode \in Modes : FlushBegin(mode)) \/ FlushShard \/ FlushEnd
          \/ UNCHANGED flusher
    BY DEF Next, vars, Tick, GetRead, SetNegative, SetBegin, SetStore, ThreadStep,
        GetCheck, GetClone, GetReturn, PrefetchStep, PrefetchFails,
        PrefetchResolves, PrefetchStore, PrefetchReset, EvictStep, EvictTick,
        EvictScan, EvictDelete, EvictDeleteNeg, EvictNext, FlushStep
<1> QED
    BY <1>1, <1>2, <1>3, <1>4, <1>5

-----------------------------------------------------------------------------
(* The invariant *)

LEMMA InitIInv ==
    ASSUME Init
    PROVE  IInv
<1>1. TypeOK
    BY CacheConstants DEF Init, TypeOK, CallState, PrefetchState, EvictState, FlushState
<1>2. Past /\ CloneAlive /\ ServedAlive /\ ServedTTLHonest
    BY DEF Init, Past, CloneAlive, ServedAlive, ServedTTLHonest, Idle
<1>3. OnePrefetchPerEntry
    BY DEF Init, OnePrefetchPerEntry
<1>4. ShardBound
    <2>1. \A s : Occupied(s) = {}
        BY DEF Init, Occupied, InShard
    <2>2. maxPerShard \in Int
        BY CacheConstants DEF maxPerShard
    <2> QED
        BY <2>1, <2>2, FS_EmptySet DEF ShardBound
<1>5. FlushCovers
    BY DEF Init, FlushCovers, Idle
<1> QED
    BY <1>1, <1>2, <1>3, <1>4, <1>5 DEF IInv

\* The inductive invariant of the cache holds, whatever its parameters.
THEOREM CacheInvariant == Spec => []IInv
<1>1. IInv /\ [Next]_vars => IInv'
    BY TypeInductive, PastInductive, AliveInductive, HonestInductive,
       RefreshInductive, BoundInductive, FlushInductive DEF IInv
<1> QED
    BY InitIInv, <1>1, PTL DEF Spec

\* Type correctness of maps, flags and goroutine-local state.
THEOREM CacheTypeOK == Spec => []TypeOK
    BY CacheInvariant, PTL DEF IInv

\* No shard ever holds more entries than its share of the configured maximum
\* (Set, cache.go:173), for any number of keys, shards and goroutines.
THEOREM CacheShardBound == Spec => []ShardBound
    BY CacheInvariant, PTL DEF IInv

\* The cache as a whole holds less than one entry for each shard beyond the
\* configured maximum (SetMaxSize, Set, cache.go:52-58, 173-186).
THEOREM CacheTotalBound == Spec => []TotalBound
<1>1. IInv => TotalBound
    BY SharesBoundTotal DEF IInv
<1> QED
    BY <1>1, CacheInvariant, PTL

\* What Get hands out was alive when the call began (cache.go:114).
THEOREM CacheServedAlive == Spec => []ServedAlive
    BY CacheInvariant, PTL DEF IInv

\* No TTL handed out ends a full second after its record (cache.go:133-159).
THEOREM CacheServedTTLHonest == Spec => []ServedTTLHonest
    BY CacheInvariant, PTL DEF IInv

\* An entry has at most one refresh, and its flag is set exactly while it has
\* one (cache.go:121-129).
THEOREM CacheOnePrefetch == Spec => []OnePrefetchPerEntry
    BY CacheInvariant, PTL DEF IInv

\* A shard that a running flush has passed holds nothing from before it
\* (cache.go:277-303).
THEOREM CacheFlushCovers == Spec => []FlushCovers
    BY CacheInvariant, PTL DEF IInv

-----------------------------------------------------------------------------
(* The cache implements CacheSpec *)

\* Before anything happened nothing is seen.
LEMMA InitSeen ==
    ASSUME Init
    PROVE  Seen!Begin
<1>1. AnswerSeen = [q \in Keys |-> NoEntry]
    BY DEF Init, AnswerSeen, Live
<1>2. DenialSeen = [q \in Keys |-> NoEntry]
    BY DEF Init, DenialSeen, IsNegative
<1>3. CallSeen = [c \in Threads \cup Prefetchers |-> [at |-> "idle"]]
    BY DEF Init, CallSeen, Asked, Refreshing, Idle
<1>4. FlushSeen = [mode |-> "none"]
    BY DEF Init, FlushSeen, Idle
<1>5. now = 0
    BY DEF Init
<1> QED
    BY <1>1, <1>2, <1>3, <1>4, <1>5 DEF Seen!Begin, Seen!NoCall, Seen!NoFlush

LEMMA NullsAreUnseen ==
    ASSUME TypeOK, NEW k \in Keys
    PROVE  /\ Live(k) => /\ Visible(entries[k]) # NoEntry
                         /\ entries[k] \in Entry
           /\ IsNegative(k) => negative[k] # NoEntry /\ negative[k] \in Nat
<1>1. entries[k] \in Entry \cup {NoEntry} /\ negative[k] \in Nat \cup {NoNegative}
    BY DEF TypeOK
<1>2. ASSUME NEW e \in Entry
      PROVE  Visible(e) # NoEntry
    <2>1. Visible(e) \in [msg : Messages, expires : Nat, cached : Nat]
        BY DEF Visible, Entry
    <2> QED
        BY <2>1, CacheNulls
<1> QED
    BY <1>1, <1>2, CacheNulls DEF Live, IsNegative

\* A step of one thread is seen in its call only, one that starts a refresh too.
LEMMA ThreadSeen ==
    ASSUME TypeOK, NEW t \in Threads, NEW r, thread' = [thread EXCEPT ![t] = r],
           \A p \in Prefetchers : Refreshing(prefetcher'[p]) = Refreshing(prefetcher[p])
    PROVE  /\ CallSeen' = [CallSeen EXCEPT ![t] = Asked(r)]
           /\ CallSeen[t] = Asked(thread[t])
           /\ Asked(r) = Asked(thread[t]) => CallSeen' = CallSeen
<1>1. thread = [u \in Threads |-> thread[u]]
    BY DEF TypeOK
<1>2. CallSeen[t] = Asked(thread[t])
    BY DEF CallSeen
<1>3. CallSeen' = [CallSeen EXCEPT ![t] = Asked(r)]
    BY <1>1 DEF CallSeen
<1>4. [CallSeen EXCEPT ![t] = CallSeen[t]] = CallSeen
    BY DEF CallSeen
<1> QED
    BY <1>2, <1>3, <1>4

LEMMA RefreshSeen ==
    ASSUME TypeOK, NEW p \in Prefetchers, NEW r,
           prefetcher' = [prefetcher EXCEPT ![p] = r], UNCHANGED thread
    PROVE  /\ CallSeen' = [CallSeen EXCEPT ![p] = Refreshing(r)]
           /\ CallSeen[p] = Refreshing(prefetcher[p])
           /\ Refreshing(r) = Refreshing(prefetcher[p]) => CallSeen' = CallSeen
<1>1. prefetcher = [u \in Prefetchers |-> prefetcher[u]]
    BY DEF TypeOK
<1>2. p \notin Threads
    BY CacheConstants
<1>3. CallSeen[p] = Refreshing(prefetcher[p])
    BY <1>2 DEF CallSeen
<1>4. CallSeen' = [CallSeen EXCEPT ![p] = Refreshing(r)]
    BY <1>1, <1>2 DEF CallSeen
<1>5. [CallSeen EXCEPT ![p] = CallSeen[p]] = CallSeen
    BY DEF CallSeen
<1> QED
    BY <1>3, <1>4, <1>5

SeenVars == <<now, AnswerSeen, DenialSeen, CallSeen, FlushSeen>>

\* What is seen of a part of the state changes only if that part does.
LEMMA SameSeen ==
    /\ UNCHANGED <<now, entries>> => AnswerSeen' = AnswerSeen
    /\ UNCHANGED <<now, negative>> => DenialSeen' = DenialSeen
    /\ UNCHANGED <<thread, prefetcher>> => CallSeen' = CallSeen
    /\ UNCHANGED flusher => FlushSeen' = FlushSeen
<1>1. UNCHANGED <<now, entries>> => AnswerSeen' = AnswerSeen
    BY DEF AnswerSeen, Live
<1>2. UNCHANGED <<now, negative>> => DenialSeen' = DenialSeen
    BY DEF DenialSeen, IsNegative
<1>3. UNCHANGED <<thread, prefetcher>> => CallSeen' = CallSeen
    BY DEF CallSeen
<1>4. UNCHANGED flusher => FlushSeen' = FlushSeen
    BY DEF FlushSeen
<1> QED
    BY <1>1, <1>2, <1>3, <1>4

\* Time passes.
LEMMA TickSeen ==
    ASSUME TypeOK, Tick
    PROVE  Seen!Pass
<1>1. /\ now' = now + 1 /\ now \in Nat
      /\ UNCHANGED <<entries, negative, thread, prefetcher, flusher>>
    BY DEF Tick, TypeOK
<1>2. CallSeen' = CallSeen /\ FlushSeen' = FlushSeen
    BY <1>1, SameSeen
<1>3. AnswerSeen' = [q \in Keys |->
          IF AnswerSeen[q] # NoEntry /\ now + 1 <= AnswerSeen[q].expires
          THEN AnswerSeen[q] ELSE NoEntry]
    <2>1. ASSUME NEW k \in Keys
          PROVE  (IF Live(k)' THEN Visible(entries[k]') ELSE NoEntry) =
                 IF AnswerSeen[k] # NoEntry /\ now + 1 <= AnswerSeen[k].expires
                 THEN AnswerSeen[k] ELSE NoEntry
        <3>1. CASE Live(k)
            <4>1. /\ AnswerSeen[k] = Visible(entries[k]) /\ AnswerSeen[k] # NoEntry
                  /\ AnswerSeen[k].expires = entries[k].expires
                BY <3>1, NullsAreUnseen DEF AnswerSeen, Visible
            <4>2. Live(k)' <=> now + 1 <= entries[k].expires
                BY <1>1, <3>1 DEF Live
            <4> QED
                BY <1>1, <4>1, <4>2
        <3>2. CASE ~ Live(k)
            <4>1. AnswerSeen[k] = NoEntry
                BY <3>2 DEF AnswerSeen
            <4>2. ~ Live(k)'
                <5>1. entries[k] = NoEntry \/ entries[k].expires \in Nat
                    BY DEF TypeOK, Entry
                <5> QED
                    BY <1>1, <3>2, <5>1 DEF Live
            <4> QED
                BY <4>1, <4>2
        <3> QED
            BY <3>1, <3>2
    <2> QED
        BY <2>1 DEF AnswerSeen
<1>4. DenialSeen' = [q \in Keys |->
          IF DenialSeen[q] # NoEntry /\ now + 1 < DenialSeen[q]
          THEN DenialSeen[q] ELSE NoEntry]
    <2>1. ASSUME NEW k \in Keys
          PROVE  (IF IsNegative(k)' THEN negative[k]' ELSE NoEntry) =
                 IF DenialSeen[k] # NoEntry /\ now + 1 < DenialSeen[k]
                 THEN DenialSeen[k] ELSE NoEntry
        <3>1. CASE IsNegative(k)
            <4>1. DenialSeen[k] = negative[k] /\ DenialSeen[k] # NoEntry
                BY <3>1, NullsAreUnseen DEF DenialSeen
            <4>2. IsNegative(k)' <=> now + 1 < negative[k]
                BY <1>1, <3>1 DEF IsNegative
            <4> QED
                BY <1>1, <4>1, <4>2
        <3>2. CASE ~ IsNegative(k)
            <4>1. DenialSeen[k] = NoEntry
                BY <3>2 DEF DenialSeen
            <4>2. ~ IsNegative(k)'
                <5>1. negative[k] = NoNegative \/ negative[k] \in Nat
                    BY DEF TypeOK
                <5> QED
                    BY <1>1, <3>2, <5>1 DEF IsNegative
            <4> QED
                BY <4>1, <4>2
        <3> QED
            BY <3>1, <3>2
    <2> QED
        BY <2>1 DEF DenialSeen
<1> QED
    BY <1>1, <1>2, <1>3, <1>4 DEF Seen!Pass

\* A step of Get or the first half of Set is seen as one of the caller, or not.
LEMMA GetSeen ==
    ASSUME TypeOK, Past, NEW t \in Threads, NEW k \in Keys, GetRead(t, k)
    PROVE  Seen!Step \/ UNCHANGED SeenVars
<1> DEFINE r == [pc |-> "check", key |-> k, e |-> entries[k], start |-> now]
<1>1. /\ thread' = [thread EXCEPT ![t] = r]
      /\ UNCHANGED <<now, entries, negative, prefetcher, flusher>>
      /\ thread[t] = Idle /\ entries[k] # NoEntry
    BY DEF GetRead
<1>2. AnswerSeen' = AnswerSeen /\ DenialSeen' = DenialSeen /\ FlushSeen' = FlushSeen
    BY <1>1, SameSeen
<1>3. /\ CallSeen' = [CallSeen EXCEPT ![t] = Asked(r)]
      /\ CallSeen[t] = Asked(thread[t])
      /\ Asked(r) = Asked(thread[t]) => CallSeen' = CallSeen
    BY <1>1, ThreadSeen
<1>4. Asked(thread[t]) = [at |-> "idle"]
    BY <1>1 DEF Asked, Idle
<1>5. CASE now <= entries[k].expires
    <2>1. Live(k) /\ AnswerSeen[k] = Visible(entries[k]) /\ AnswerSeen[k] # NoEntry
        BY <1>1, <1>5, NullsAreUnseen DEF Live, AnswerSeen
    <2>2. Asked(r) = [at |-> "reading", from |-> AnswerSeen[k]]
        BY <1>5, <2>1 DEF Asked
    <2>3. Seen!Ask(t, k)
        BY <1>1, <1>2, <1>3, <1>4, <2>1, <2>2 DEF Seen!Ask, Seen!NoCall
    <2> QED
        BY <2>3 DEF Seen!Step
<1>6. CASE ~ now <= entries[k].expires
    <2>1. Asked(r) = [at |-> "idle"]
        BY <1>6 DEF Asked
    <2> QED
        BY <1>1, <1>2, <1>3, <1>4, <2>1 DEF SeenVars
<1> QED
    BY <1>5, <1>6

LEMMA CheckSeen ==
    ASSUME TypeOK, Past, NEW t \in Threads, GetCheck(t)
    PROVE  Seen!Step \/ UNCHANGED SeenVars
<1> DEFINE e == thread[t].e
           r == [thread[t] EXCEPT !.pc = "clone"]
<1>1. /\ thread[t].pc = "check" /\ thread[t].start \in Nat /\ e.expires \in Nat
      /\ thread[t].start <= now /\ now \in Nat
      /\ UNCHANGED <<now, entries, negative, flusher>>
    BY CallTypes DEF GetCheck, Entry, Past, TypeOK
<1>2. AnswerSeen' = AnswerSeen /\ DenialSeen' = DenialSeen /\ FlushSeen' = FlushSeen
    BY <1>1, SameSeen
<1>3. \A p \in Prefetchers : Refreshing(prefetcher'[p]) = Refreshing(prefetcher[p])
    <2>1. prefetcher = [p \in Prefetchers |-> prefetcher[p]]
        BY DEF TypeOK
    <2>2. \A key, id : Refreshing([pc |-> "resolve", key |-> key, id |-> id])
                          = Refreshing(Idle)
        BY DEF Refreshing, Idle
    <2> QED
        BY <2>1, <2>2 DEF GetCheck, StartPrefetch
<1>4. CASE now > e.expires
    <2>1. thread' = [thread EXCEPT ![t] = Idle]
        BY <1>4 DEF GetCheck
    <2>2. /\ CallSeen' = [CallSeen EXCEPT ![t] = Asked(Idle)]
          /\ CallSeen[t] = Asked(thread[t])
          /\ Asked(Idle) = Asked(thread[t]) => CallSeen' = CallSeen
        BY <1>3, <2>1, ThreadSeen
    <2>3. Asked(Idle) = [at |-> "idle"]
        BY DEF Asked, Idle
    <2>4. CASE thread[t].start <= e.expires
        <3>1. Asked(thread[t]) = [at |-> "reading", from |-> Visible(e)]
            BY <1>1, <2>4 DEF Asked
        <3>2. Seen!TooLate(t)
            BY <1>1, <1>2, <1>4, <2>2, <2>3, <3>1
            DEF Seen!TooLate, Seen!NoCall, Visible
        <3> QED
            BY <3>2 DEF Seen!Step
    <2>5. CASE ~ thread[t].start <= e.expires
        <3>1. Asked(thread[t]) = [at |-> "idle"]
            BY <1>1, <2>5 DEF Asked
        <3> QED
            BY <1>1, <1>2, <2>2, <2>3, <3>1 DEF SeenVars
    <2> QED
        BY <2>4, <2>5
<1>5. CASE ~ now > e.expires
    <2>1. thread' = [thread EXCEPT ![t] = r]
        BY <1>5 DEF GetCheck, TypeOK
    <2>2. /\ r.pc = "clone" /\ r.start = thread[t].start /\ r.e = e
        BY <1>1, thread[t] \in CallState DEF CallState, Idle, TypeOK
    <2>3. thread[t].start <= e.expires
        BY <1>1, <1>5
    <2>4. Asked(r) = Asked(thread[t])
        BY <1>1, <2>2, <2>3 DEF Asked
    <2> HIDE DEF r
    <2>5. CallSeen' = CallSeen
        BY <1>3, <2>1, <2>4, ThreadSeen
    <2> QED
        BY <1>1, <1>2, <2>5 DEF SeenVars
<1> QED
    BY <1>4, <1>5

LEMMA CloneSeen ==
    ASSUME TypeOK, Past, CloneAlive, NEW t \in Threads, GetClone(t)
    PROVE  Seen!Step
<1> DEFINE e == thread[t].e
           left == decrementRRs(e.msg, (now - e.cached) \div TicksPerSecond)
           r == [pc |-> "served", e |-> e, start |-> thread[t].start, at |-> now,
                 msg |-> left]
<1>1. /\ thread[t].pc = "clone" /\ thread[t].start <= e.expires
      /\ e \in Entry /\ e.cached <= now /\ now \in Nat
      /\ thread' = [thread EXCEPT ![t] = r]
      /\ UNCHANGED <<now, entries, negative, prefetcher, flusher>>
    BY CallTypes DEF GetClone, CloneAlive, Past, TypeOK
<1>2. AnswerSeen' = AnswerSeen /\ DenialSeen' = DenialSeen /\ FlushSeen' = FlushSeen
    BY <1>1, SameSeen
<1>3. /\ CallSeen' = [CallSeen EXCEPT ![t] = Asked(r)]
      /\ CallSeen[t] = Asked(thread[t])
    BY <1>1, ThreadSeen
<1>4. Asked(r) = [at |-> "served", msg |-> left]
    BY DEF Asked
<1>5. Asked(thread[t]) = [at |-> "reading", from |-> Visible(e)]
    BY <1>1 DEF Asked
<1>6. \A ttl \in left : \E orig \in e.msg :
          /\ ttl \in 0 .. orig
          /\ ttl > 0 => now + ttl * TicksPerSecond
                           < e.cached + orig * TicksPerSecond + TicksPerSecond
    BY <1>1, LeftIsHonest
<1> HIDE DEF left
<1>7. left \in SUBSET Seen!TTLsLeft
    <2>1. e.msg \in Messages
        BY <1>1 DEF Entry
    <2> QED
        BY <1>6, <2>1 DEF Seen!TTLsLeft
<1>8. Seen!Honest(left, Visible(e))
    BY <1>6 DEF Seen!Honest, Visible
<1>9. Seen!Serve(t, left)
    <2>1. CallSeen[t].at = "reading" /\ CallSeen[t].from = Visible(e)
        BY <1>3, <1>5
    <2>2. Seen!Honest(left, CallSeen[t].from)
        BY <1>8, <2>1
    <2>3. CallSeen' = [CallSeen EXCEPT ![t] = [at |-> "served", msg |-> left]]
        BY <1>3, <1>4
    <2>4. now' = now
        BY <1>1
    <2> QED
        BY <1>2, <2>1, <2>2, <2>3, <2>4 DEF Seen!Serve
<1> QED
    BY <1>7, <1>9 DEF Seen!Step

LEMMA ReturnSeen ==
    ASSUME TypeOK, NEW t \in Threads, GetReturn(t)
    PROVE  Seen!Step
<1>1. /\ thread[t].pc = "served" /\ thread' = [thread EXCEPT ![t] = Idle]
      /\ UNCHANGED <<now, entries, negative, prefetcher, flusher>>
    BY DEF GetReturn
<1>2. AnswerSeen' = AnswerSeen /\ DenialSeen' = DenialSeen /\ FlushSeen' = FlushSeen
    BY <1>1, SameSeen
<1>3. /\ CallSeen' = [CallSeen EXCEPT ![t] = Asked(Idle)]
      /\ CallSeen[t] = Asked(thread[t])
    BY <1>1, ThreadSeen
<1>4. /\ Asked(Idle) = [at |-> "idle"]
      /\ Asked(thread[t]).at = "served"
    BY <1>1 DEF Asked, Idle
<1>5. Seen!Used(t)
    BY <1>1, <1>2, <1>3, <1>4 DEF Seen!Used, Seen!NoCall
<1> QED
    BY <1>5 DEF Seen!Step

LEMMA SetBeginSeen ==
    ASSUME TypeOK, NEW t \in Threads, NEW k \in Keys, NEW msg \in Messages,
           SetBegin(t, k, msg)
    PROVE  Seen!Step
<1> DEFINE r == [pc |-> "store", key |-> k, msg |-> msg, at |-> now]
<1>1. /\ thread[t] = Idle /\ thread' = [thread EXCEPT ![t] = r]
      /\ UNCHANGED <<now, entries, negative, prefetcher, flusher>>
    BY DEF SetBegin
<1>2. AnswerSeen' = AnswerSeen /\ DenialSeen' = DenialSeen /\ FlushSeen' = FlushSeen
    BY <1>1, SameSeen
<1>3. /\ CallSeen' = [CallSeen EXCEPT ![t] = Asked(r)]
      /\ CallSeen[t] = Asked(thread[t])
    BY <1>1, ThreadSeen
<1>4. /\ Asked(Idle) = [at |-> "idle"]
      /\ Asked(r) = [at |-> "storing", for |-> k, msg |-> msg, since |-> now]
    BY DEF Asked, Idle, Storing
<1>5. Seen!Receive(t, k, msg)
    BY <1>1, <1>2, <1>3, <1>4 DEF Seen!Receive, Seen!NoCall
<1> QED
    BY <1>5 DEF Seen!Step

LEMMA ResolvesSeen ==
    ASSUME TypeOK, NEW p \in Prefetchers, NEW msg \in Messages, PrefetchResolves(p, msg)
    PROVE  Seen!Step
<1> DEFINE k == prefetcher[p].key
           r == [pc |-> "store", id |-> prefetcher[p].id, key |-> k, msg |-> msg,
                 at |-> now]
<1>1. /\ prefetcher[p].pc = "resolve" /\ prefetcher' = [prefetcher EXCEPT ![p] = r]
      /\ UNCHANGED <<now, entries, negative, thread, flusher>>
      /\ k \in Keys
    BY RefreshTypes DEF PrefetchResolves
<1>2. AnswerSeen' = AnswerSeen /\ DenialSeen' = DenialSeen /\ FlushSeen' = FlushSeen
    BY <1>1, SameSeen
<1>3. /\ CallSeen' = [CallSeen EXCEPT ![p] = Refreshing(r)]
      /\ CallSeen[p] = Refreshing(prefetcher[p])
    BY <1>1, RefreshSeen
<1>4. /\ Refreshing(prefetcher[p]) = [at |-> "idle"]
      /\ Refreshing(r) = [at |-> "storing", for |-> k, msg |-> msg, since |-> now]
    BY <1>1 DEF Refreshing, Storing
<1>5. Seen!Receive(p, k, msg)
    BY <1>1, <1>2, <1>3, <1>4 DEF Seen!Receive, Seen!NoCall
<1> QED
    BY <1>1, <1>5 DEF Seen!Step

\* A refresh that fails, or has stored its answer and ends, is not seen.
LEMMA RefreshUnseen ==
    ASSUME TypeOK, NEW p \in Prefetchers, PrefetchFails(p) \/ PrefetchReset(p)
    PROVE  UNCHANGED SeenVars
<1>1. /\ prefetcher[p].pc \in {"resolve", "reset"}
      /\ \/ prefetcher' = [prefetcher EXCEPT ![p] = Idle]
         \/ prefetcher' = [prefetcher EXCEPT ![p] =
                               [pc |-> "reset", id |-> prefetcher[p].id]]
      /\ UNCHANGED <<now, entries, negative, thread, flusher>>
    BY DEF PrefetchFails, PrefetchReset
<1>2. AnswerSeen' = AnswerSeen /\ DenialSeen' = DenialSeen /\ FlushSeen' = FlushSeen
    BY <1>1, SameSeen
<1>3. /\ Refreshing(Idle) = Refreshing(prefetcher[p])
      /\ Refreshing([pc |-> "reset", id |-> prefetcher[p].id])
            = Refreshing(prefetcher[p])
    BY <1>1 DEF Refreshing, Idle
<1>4. CallSeen' = CallSeen
    BY <1>1, <1>3, RefreshSeen
<1> QED
    BY <1>1, <1>2, <1>4 DEF SeenVars

-----------------------------------------------------------------------------
(* Stores, evictions and flushes as they are seen *)

\* A store pushes out at most one live answer, the first to expire of a full
\* shard, and is seen only as the store of its own answer.
LEMMA StoreSeen ==
    ASSUME TypeOK, NEW k \in Keys, NEW msg \in Messages, NEW at \in Nat,
           Store(k, msg, at), now' = now
    PROVE  \E out \in {{}} \cup {{o} : o \in Seen!FirstToExpire(ShardOf[k])} :
              /\ out # {} => Seen!NoRoom(k)
              /\ AnswerSeen' = [j \in Keys |->
                    IF j = k
                    THEN IF now <= at + Lifetime(msg) * TicksPerSecond
                         THEN [msg |-> msg, cached |-> at,
                               expires |-> at + Lifetime(msg) * TicksPerSecond]
                         ELSE NoEntry
                    ELSE IF j \in out THEN NoEntry ELSE AnswerSeen[j]]
<1> DEFINE new == NewEntry(msg, at)
           dies == at + Lifetime(msg) * TicksPerSecond
           kept == IF now <= dies THEN [msg |-> msg, cached |-> at, expires |-> dies]
                   ELSE NoEntry
           After(out) == [j \in Keys |-> IF j = k THEN kept
                            ELSE IF j \in out THEN NoEntry ELSE AnswerSeen[j]]
<1>0. new # NoEntry /\ new.expires = dies /\ Visible(new) =
          [msg |-> msg, cached |-> at, expires |-> dies]
    BY NewEntryType DEF NewEntry, Visible
<1>1. PICK victims \in IF MustEvict(k) THEN {{v} : v \in Soonest(ShardOf[k])} ELSE {{}} :
          entries' = [j \in Keys |-> IF j = k THEN new
                        ELSE IF j \in victims THEN NoEntry ELSE entries[j]]
    BY DEF Store, NewEntry
<1> HIDE DEF new, dies
<1>2. ASSUME NEW out, \A j \in Keys \ {k} :
                (j \in out /\ j \in victims) \/ (j \notin out /\ (j \in victims => ~ Live(j)))
      PROVE  AnswerSeen' = After(out)
    <2>1. ASSUME NEW j \in Keys
          PROVE  (IF Live(j)' THEN Visible(entries[j]') ELSE NoEntry) = After(out)[j]
        <3>1. CASE j = k
            BY <1>0, <1>1, <3>1 DEF Live
        <3>2. CASE j # k /\ j \in victims
            <4>1. ~ Live(j)'
                BY <1>1, <3>2 DEF Live
            <4> QED
                BY <1>2, <3>2, <4>1 DEF AnswerSeen
        <3>3. CASE j # k /\ j \notin victims
            <4>1. entries'[j] = entries[j] /\ (Live(j)' <=> Live(j)) /\ j \notin out
                BY <1>1, <1>2, <3>3 DEF Live
            <4> QED
                BY <3>3, <4>1 DEF AnswerSeen
        <3> QED
            BY <3>1, <3>2, <3>3
    <2> QED
        BY <2>1 DEF AnswerSeen
<1>3. CASE \A j \in victims : ~ Live(j)
    <2>1. \A j \in Keys \ {k} :
             \/ j \in {} /\ j \in victims
             \/ j \notin {} /\ (j \in victims => ~ Live(j))
        BY <1>3
    <2>2. AnswerSeen' = After({})
        BY <1>2, <2>1
    <2> QED
        BY <2>2 DEF dies
<1>4. CASE \E j \in victims : Live(j)
    <2>1. PICK v \in Soonest(ShardOf[k]) : MustEvict(k) /\ victims = {v} /\ Live(v)
        BY <1>1, <1>4
    <2>2. AnswerSeen' = After({v})
        BY <1>2, <2>1
    <2>3. \A j \in Occupied(ShardOf[k]) :
             /\ j \in Keys /\ ShardOf[j] = ShardOf[k]
             /\ Live(j) /\ AnswerSeen[j] = Visible(entries[j]) /\ AnswerSeen[j] # NoEntry
             /\ AnswerSeen[v].expires <= AnswerSeen[j].expires
        <3> TAKE j \in Occupied(ShardOf[k])
        <3>1. /\ j \in Keys /\ ShardOf[j] = ShardOf[k] /\ entries[j] \in Entry
              /\ v \in Keys /\ entries[v] \in Entry /\ now \in Nat
              /\ entries[v].expires <= entries[j].expires /\ now <= entries[v].expires
            BY <2>1 DEF Soonest, Occupied, InShard, TypeOK, Live
        <3>2. Live(j)
            BY <3>1 DEF Live, Entry, Occupied
        <3>3. /\ AnswerSeen[j] = Visible(entries[j]) /\ AnswerSeen[j] # NoEntry
              /\ AnswerSeen[v] = Visible(entries[v])
            BY <2>1, <3>1, <3>2, NullsAreUnseen DEF AnswerSeen
        <3> QED
            BY <3>1, <3>2, <3>3 DEF Visible
    <2>4. Seen!Held(ShardOf[k]) = Occupied(ShardOf[k])
        <3>1. \A j \in Keys : AnswerSeen[j] # NoEntry => entries[j] # NoEntry
            BY DEF AnswerSeen, Live
        <3> QED
            BY <2>3, <3>1 DEF Seen!Held, Occupied, InShard
    <2>5. v \in Seen!FirstToExpire(ShardOf[k])
        BY <2>1, <2>3, <2>4 DEF Seen!FirstToExpire, Soonest
    <2>6. Seen!NoRoom(k)
        <3>1. AnswerSeen[k] = NoEntry
            BY <2>1 DEF AnswerSeen, Live, MustEvict
        <3>2. maxPerShard > 0 /\ Cardinality(Occupied(ShardOf[k])) >= maxPerShard
            BY <2>1 DEF MustEvict
        <3>3. Cardinality(Seen!Held(ShardOf[k])) >= maxPerShard
            BY <2>4, <3>2
        <3>4. Seen!Cardinality(Seen!Held(ShardOf[k])) = Cardinality(Seen!Held(ShardOf[k]))
            BY DEF Seen!Cardinality, Cardinality, Seen!IsFiniteSet, IsFiniteSet
        <3> QED
            BY <3>1, <3>2, <3>3, <3>4 DEF Seen!NoRoom
    <2> QED
        BY <2>2, <2>5, <2>6 DEF dies
<1> QED
    BY <1>3, <1>4

\* Life, as CacheSpec is given it.
LEMMA LifeOf ==
    ASSUME NEW msg \in Messages
    PROVE  [m \in Messages |-> Lifetime(m) * TicksPerSecond][msg] =
               Lifetime(msg) * TicksPerSecond
    OBVIOUS

LEMMA SetStoreSeen ==
    ASSUME TypeOK, NEW t \in Threads, SetStore(t)
    PROVE  Seen!Step
<1> DEFINE k == thread[t].key
           msg == thread[t].msg
           at == thread[t].at
<1>1. /\ thread[t].pc = "store" /\ k \in Keys /\ msg \in Messages /\ at \in Nat
      /\ Store(k, msg, at)
      /\ thread' = [thread EXCEPT ![t] = Idle]
      /\ UNCHANGED <<now, negative, prefetcher, flusher>>
    BY CallTypes DEF SetStore
<1>2. DenialSeen' = DenialSeen /\ FlushSeen' = FlushSeen
    BY <1>1, SameSeen
<1>3. /\ CallSeen' = [CallSeen EXCEPT ![t] = Asked(Idle)]
      /\ CallSeen[t] = Asked(thread[t])
    BY <1>1, ThreadSeen
<1>4. /\ Asked(Idle) = [at |-> "idle"]
      /\ CallSeen[t] = [at |-> "storing", for |-> k, msg |-> msg, since |-> at]
    BY <1>1, <1>3 DEF Asked, Idle, Storing
<1>5. \E out \in {{}} \cup {{o} : o \in Seen!FirstToExpire(ShardOf[k])} :
         /\ out # {} => Seen!NoRoom(k)
         /\ AnswerSeen' = [j \in Keys |->
               IF j = k
               THEN IF now <= at + Lifetime(msg) * TicksPerSecond
                    THEN [msg |-> msg, cached |-> at,
                          expires |-> at + Lifetime(msg) * TicksPerSecond]
                    ELSE NoEntry
               ELSE IF j \in out THEN NoEntry ELSE AnswerSeen[j]]
    BY <1>1, StoreSeen
<1> HIDE DEF k, msg, at
<1>6. Seen!Keep(t)
    <2> DEFINE life == [m \in Messages |-> Lifetime(m) * TicksPerSecond]
    <2>1. /\ CallSeen[t].at = "storing" /\ CallSeen[t].for = k
          /\ CallSeen[t].msg = msg /\ CallSeen[t].since = at
          /\ life[CallSeen[t].msg] = Lifetime(msg) * TicksPerSecond
        BY <1>1, <1>4, LifeOf
    <2>2. CallSeen' = [CallSeen EXCEPT ![t] = [at |-> "idle"]]
        BY <1>3, <1>4
    <2> HIDE DEF life
    <2>3. \E out \in {{}} \cup {{o} : o \in Seen!FirstToExpire(ShardOf[CallSeen[t].for])} :
             /\ out # {} => Seen!NoRoom(CallSeen[t].for)
             /\ AnswerSeen' = [j \in Keys |->
                   IF j = CallSeen[t].for
                   THEN IF now <= CallSeen[t].since + life[CallSeen[t].msg]
                        THEN [msg |-> CallSeen[t].msg, cached |-> CallSeen[t].since,
                              expires |-> CallSeen[t].since + life[CallSeen[t].msg]]
                        ELSE NoEntry
                   ELSE IF j \in out THEN NoEntry ELSE AnswerSeen[j]]
        BY <1>5, <2>1
    <2> QED
        BY <1>1, <1>2, <2>1, <2>2, <2>3 DEF Seen!Keep, Seen!NoCall, life
<1> QED
    BY <1>6 DEF Seen!Step

LEMMA PrefetchStoreSeen ==
    ASSUME TypeOK, NEW p \in Prefetchers, PrefetchStore(p)
    PROVE  Seen!Step
<1> DEFINE k == prefetcher[p].key
           msg == prefetcher[p].msg
           at == prefetcher[p].at
           r == [pc |-> "reset", id |-> prefetcher[p].id]
<1>1. /\ prefetcher[p].pc = "store" /\ k \in Keys /\ msg \in Messages /\ at \in Nat
      /\ Store(k, msg, at)
      /\ prefetcher' = [prefetcher EXCEPT ![p] = r]
      /\ UNCHANGED <<now, negative, thread, flusher>>
    BY RefreshTypes DEF PrefetchStore
<1>2. DenialSeen' = DenialSeen /\ FlushSeen' = FlushSeen
    BY <1>1, SameSeen
<1>3. /\ CallSeen' = [CallSeen EXCEPT ![p] = Refreshing(r)]
      /\ CallSeen[p] = Refreshing(prefetcher[p])
    BY <1>1, RefreshSeen
<1>4. /\ Refreshing(r) = [at |-> "idle"]
      /\ CallSeen[p] = [at |-> "storing", for |-> k, msg |-> msg, since |-> at]
    BY <1>1, <1>3 DEF Refreshing, Storing
<1>5. \E out \in {{}} \cup {{o} : o \in Seen!FirstToExpire(ShardOf[k])} :
         /\ out # {} => Seen!NoRoom(k)
         /\ AnswerSeen' = [j \in Keys |->
               IF j = k
               THEN IF now <= at + Lifetime(msg) * TicksPerSecond
                    THEN [msg |-> msg, cached |-> at,
                          expires |-> at + Lifetime(msg) * TicksPerSecond]
                    ELSE NoEntry
               ELSE IF j \in out THEN NoEntry ELSE AnswerSeen[j]]
    BY <1>1, StoreSeen
<1> HIDE DEF k, msg, at, r
<1>6. Seen!Keep(p)
    <2> DEFINE life == [m \in Messages |-> Lifetime(m) * TicksPerSecond]
    <2>1. /\ CallSeen[p].at = "storing" /\ CallSeen[p].for = k
          /\ CallSeen[p].msg = msg /\ CallSeen[p].since = at
          /\ life[CallSeen[p].msg] = Lifetime(msg) * TicksPerSecond
        BY <1>1, <1>4, LifeOf
    <2>2. CallSeen' = [CallSeen EXCEPT ![p] = [at |-> "idle"]]
        BY <1>3, <1>4
    <2> HIDE DEF life
    <2>3. \E out \in {{}} \cup {{o} : o \in Seen!FirstToExpire(ShardOf[CallSeen[p].for])} :
             /\ out # {} => Seen!NoRoom(CallSeen[p].for)
             /\ AnswerSeen' = [j \in Keys |->
                   IF j = CallSeen[p].for
                   THEN IF now <= CallSeen[p].since + life[CallSeen[p].msg]
                        THEN [msg |-> CallSeen[p].msg, cached |-> CallSeen[p].since,
                              expires |-> CallSeen[p].since + life[CallSeen[p].msg]]
                        ELSE NoEntry
                   ELSE IF j \in out THEN NoEntry ELSE AnswerSeen[j]]
        BY <1>5, <2>1
    <2> QED
        BY <1>1, <1>2, <2>1, <2>2, <2>3 DEF Seen!Keep, Seen!NoCall, life
<1> QED
    BY <1>6 DEF Seen!Step

LEMMA DenySeen ==
    ASSUME TypeOK, NEW t \in Threads, NEW k \in Keys, SetNegative(t, k)
    PROVE  Seen!Step
<1> DEFINE until == now + negTTL * TicksPerSecond
<1>1. /\ negative' = [negative EXCEPT ![k] = until]
      /\ UNCHANGED <<now, entries, thread, prefetcher, flusher>>
    BY DEF SetNegative
<1>2. AnswerSeen' = AnswerSeen /\ CallSeen' = CallSeen /\ FlushSeen' = FlushSeen
    BY <1>1, SameSeen
<1>3. until \in Nat /\ now < until
    <2>1. negTTL \in Nat \ {0} /\ TicksPerSecond \in Nat \ {0} /\ now \in Nat
        BY CacheConstants DEF negTTL, TypeOK
    <2>2. \A a, b \in Nat \ {0} : a * b \in Nat \ {0}
        OBVIOUS
    <2>3. negTTL * TicksPerSecond \in Nat \ {0}
        BY <2>1, <2>2
    <2> QED
        BY <2>1, <2>3
<1> HIDE DEF until
<1>4. DenialSeen' = [DenialSeen EXCEPT ![k] = until]
    <2>1. negative = [j \in Keys |-> negative[j]]
        BY DEF TypeOK
    <2>2. until # NoNegative
        BY <1>3, CacheNulls
    <2> QED
        BY <1>1, <1>3, <2>1, <2>2 DEF DenialSeen, IsNegative
<1>5. Seen!Deny(k)
    BY <1>1, <1>2, <1>4 DEF Seen!Deny, until
<1> QED
    BY <1>5 DEF Seen!Step

\* The evictor removes what its round, and so the clock, has left behind.
LEMMA EvictUnseen ==
    ASSUME TypeOK, Past, EvictStep
    PROVE  UNCHANGED SeenVars
<1>1. UNCHANGED <<now, thread, prefetcher, flusher>>
    BY DEF EvictStep, EvictTick, EvictScan, EvictDelete, EvictDeleteNeg, EvictNext
<1>2. CallSeen' = CallSeen /\ FlushSeen' = FlushSeen
    BY <1>1, SameSeen
<1>3. now \in Nat /\ evictor \in EvictState
    BY DEF TypeOK
<1>4. evictor.pc = "delete" => evictor.now \in Nat /\ evictor.now <= now
    BY <1>3, RoundTypes DEF Past
<1>5. AnswerSeen' = AnswerSeen
    <2>1. CASE UNCHANGED entries
        BY <1>1, <2>1, SameSeen
    <2>2. CASE EvictDelete
        <3>1. ASSUME NEW k \in Keys
              PROVE  /\ Live(k)' <=> Live(k)
                     /\ Live(k) => entries'[k] = entries[k]
            <4>1. entries[k] \in Entry \cup {NoEntry}
                BY DEF TypeOK
            <4>2. \/ entries'[k] = entries[k]
                  \/ /\ entries'[k] = NoEntry /\ entries[k] # NoEntry
                     /\ evictor.now > entries[k].expires
                BY <2>2 DEF EvictDelete
            <4>3. evictor.now \in Nat /\ evictor.now <= now
                BY <1>4, <2>2 DEF EvictDelete
            <4> QED
                BY <1>1, <1>3, <4>1, <4>2, <4>3 DEF Live, Entry
        <3> QED
            BY <3>1 DEF AnswerSeen
    <2> QED
        BY <2>1, <2>2
           DEF EvictStep, EvictTick, EvictScan, EvictDeleteNeg, EvictNext
<1>6. DenialSeen' = DenialSeen
    <2>1. CASE UNCHANGED negative
        BY <1>1, <2>1, SameSeen
    <2>2. CASE EvictDeleteNeg
        <3>1. ASSUME NEW k \in Keys
              PROVE  /\ IsNegative(k)' <=> IsNegative(k)
                     /\ IsNegative(k) => negative'[k] = negative[k]
            <4>1. negative[k] \in Nat \cup {NoNegative}
                BY DEF TypeOK
            <4>2. \/ negative'[k] = negative[k]
                  \/ /\ negative'[k] = NoNegative /\ negative[k] # NoNegative
                     /\ evictor.now > negative[k]
                BY <2>2 DEF EvictDeleteNeg
            <4>3. evictor.now \in Nat /\ evictor.now <= now
                BY <1>4, <2>2 DEF EvictDeleteNeg
            <4> QED
                BY <1>1, <1>3, <4>1, <4>2, <4>3 DEF IsNegative
        <3> QED
            BY <3>1 DEF DenialSeen
    <2> QED
        BY <2>1, <2>2
           DEF EvictStep, EvictTick, EvictScan, EvictDelete, EvictNext
<1> QED
    BY <1>1, <1>2, <1>5, <1>6 DEF SeenVars

LEMMA FlushBeginSeen ==
    ASSUME TypeOK, NEW mode \in Modes, FlushBegin(mode)
    PROVE  Seen!Step
<1>1. /\ flusher = Idle
      /\ flusher' = [pc |-> "run", mode |-> mode, shard |-> 0,
                     firstId |-> nextId, start |-> now]
      /\ UNCHANGED <<now, entries, negative, thread, prefetcher>>
    BY DEF FlushBegin
<1>2. AnswerSeen' = AnswerSeen /\ DenialSeen' = DenialSeen /\ CallSeen' = CallSeen
    BY <1>1, SameSeen
<1>3. /\ FlushSeen = [mode |-> "none"]
      /\ FlushSeen' = [mode |-> mode, left |-> Shards]
    BY <1>1 DEF FlushSeen, Idle, Shards
<1>4. Seen!FlushStarts(mode)
    BY <1>1, <1>2, <1>3 DEF Seen!FlushStarts, Seen!NoFlush
<1> QED
    BY <1>4, CacheConstants DEF Seen!Step

\* Clearing a shard, the entries that are dead but not removed included.
LEMMA FlushShardSeen ==
    ASSUME TypeOK, FlushShard
    PROVE  Seen!Step
<1> DEFINE s == flusher.shard
           mode == flusher.mode
<1>1. /\ flusher.pc = "run" /\ s < NumShards
      /\ entries' = [k \in Keys |->
              IF /\ k \in Occupied(s)
                 /\ \/ mode = "all"
                    \/ mode = "expired" /\ now > entries[k].expires
              THEN NoEntry ELSE entries[k]]
      /\ negative' = [k \in Keys |->
              IF /\ k \in InShard(s) /\ negative[k] # NoNegative
                 /\ \/ mode \in {"negative", "all"}
                    \/ mode = "expired" /\ now > negative[k]
              THEN NoNegative ELSE negative[k]]
      /\ flusher' = [flusher EXCEPT !.shard = @ + 1]
      /\ UNCHANGED <<now, thread, prefetcher>>
    BY DEF FlushShard
<1>2. CallSeen' = CallSeen
    BY <1>1, SameSeen
<1>3. /\ mode \in Modes /\ s \in 0 .. NumShards - 1
      /\ NumShards \in Nat /\ now \in Nat
      /\ mode \in {"negative", "expired", "all"}
    BY <1>1, RoundTypes, CacheConstants DEF TypeOK
<1>4. /\ FlushSeen = [mode |-> mode, left |-> s .. NumShards - 1]
      /\ FlushSeen' = [FlushSeen EXCEPT !.left = @ \ {s}]
    <2>1. /\ flusher'.pc = "run" /\ flusher'.mode = mode /\ flusher'.shard = s + 1
        BY <1>1, flusher \in FlushState DEF FlushState, Idle, TypeOK
    <2>2. (s + 1) .. NumShards - 1 = (s .. NumShards - 1) \ {s}
        BY <1>3
    <2>3. /\ FlushSeen = [mode |-> mode, left |-> s .. NumShards - 1]
          /\ FlushSeen' = [mode |-> mode, left |-> (s + 1) .. NumShards - 1]
        BY <1>1, <2>1 DEF FlushSeen
    <2> HIDE DEF s, mode
    <2>4. ASSUME NEW left
          PROVE  [[mode |-> mode, left |-> left] EXCEPT !.left = @ \ {s}] =
                     [mode |-> mode, left |-> left \ {s}]
        OBVIOUS
    <2>5. [FlushSeen EXCEPT !.left = @ \ {s}] =
              [mode |-> mode, left |-> (s .. NumShards - 1) \ {s}]
        BY <2>3, <2>4
    <2> QED
        BY <2>2, <2>3, <2>5
<1> HIDE DEF s, mode
<1>5. AnswerSeen' = [q \in Keys |->
          IF ShardOf[q] = s /\ mode = "all" THEN NoEntry ELSE AnswerSeen[q]]
    <2>1. ASSUME NEW q \in Keys
          PROVE  (IF Live(q)' THEN Visible(entries[q]') ELSE NoEntry) =
                 IF ShardOf[q] = s /\ mode = "all" THEN NoEntry ELSE AnswerSeen[q]
        <3>1. entries[q] \in Entry \cup {NoEntry}
            BY DEF TypeOK
        <3>2. CASE ShardOf[q] = s /\ mode = "all"
            <4>1. entries'[q] = NoEntry
                BY <1>1, <3>2 DEF Occupied, InShard
            <4> QED
                BY <3>2, <4>1 DEF Live
        <3>3. CASE ~ (ShardOf[q] = s /\ mode = "all")
            <4>1. \/ entries'[q] = entries[q]
                  \/ /\ entries'[q] = NoEntry /\ entries[q] # NoEntry
                     /\ now > entries[q].expires
                BY <1>1, <3>3 DEF Occupied, InShard
            <4>2. /\ Live(q)' <=> Live(q)
                  /\ Live(q) => entries'[q] = entries[q]
                BY <1>1, <1>3, <3>1, <4>1 DEF Live, Entry
            <4> QED
                BY <3>3, <4>2 DEF AnswerSeen
        <3> QED
            BY <3>2, <3>3
    <2> QED
        BY <2>1 DEF AnswerSeen
<1>6. DenialSeen' = [q \in Keys |->
          IF ShardOf[q] = s /\ mode \in {"negative", "all"}
          THEN NoEntry ELSE DenialSeen[q]]
    <2>1. ASSUME NEW q \in Keys
          PROVE  (IF IsNegative(q)' THEN negative[q]' ELSE NoEntry) =
                 IF ShardOf[q] = s /\ mode \in {"negative", "all"}
                 THEN NoEntry ELSE DenialSeen[q]
        <3>1. negative[q] \in Nat \cup {NoNegative}
            BY DEF TypeOK
        <3>2. CASE ShardOf[q] = s /\ mode \in {"negative", "all"}
            <4>1. negative'[q] = NoNegative
                BY <1>1, <3>2 DEF InShard
            <4> QED
                BY <3>2, <4>1 DEF IsNegative
        <3>3. CASE ~ (ShardOf[q] = s /\ mode \in {"negative", "all"})
            <4>1. \/ negative'[q] = negative[q]
                  \/ /\ negative'[q] = NoNegative /\ negative[q] # NoNegative
                     /\ now > negative[q]
                BY <1>1, <3>3 DEF InShard
            <4>2. /\ IsNegative(q)' <=> IsNegative(q)
                  /\ IsNegative(q) => negative'[q] = negative[q]
                BY <1>1, <1>3, <3>1, <4>1 DEF IsNegative
            <4> QED
                BY <3>3, <4>2 DEF DenialSeen
        <3> QED
            BY <3>2, <3>3
    <2> QED
        BY <2>1 DEF DenialSeen
<1>7. FlushSeen # [mode |-> "none"] /\ s \in FlushSeen.left
    <2>1. FlushSeen.mode = mode /\ FlushSeen.left = s .. NumShards - 1
        BY <1>4
    <2>2. mode # "none" /\ s \in s .. NumShards - 1
        BY <1>3
    <2> QED
        BY <2>1, <2>2
<1>8. Seen!Clear(s)
    BY <1>1, <1>2, <1>4, <1>5, <1>6, <1>7 DEF Seen!Clear, Seen!NoFlush
<1>9. s \in Shards
    BY <1>3 DEF Shards
<1> QED
    BY <1>8, <1>9 DEF Seen!Step

LEMMA FlushEndSeen ==
    ASSUME TypeOK, FlushEnd
    PROVE  Seen!Step
<1>1. /\ flusher.pc = "run" /\ flusher.shard = NumShards /\ flusher' = Idle
      /\ UNCHANGED <<now, entries, negative, thread, prefetcher>>
    BY DEF FlushEnd
<1>2. AnswerSeen' = AnswerSeen /\ DenialSeen' = DenialSeen /\ CallSeen' = CallSeen
    BY <1>1, SameSeen
<1>3. NumShards .. NumShards - 1 = {} /\ flusher.mode # "none"
    BY <1>1, RoundTypes, CacheConstants
<1>4. /\ FlushSeen = [mode |-> flusher.mode, left |-> NumShards .. NumShards - 1]
      /\ FlushSeen' = [mode |-> "none"]
    BY <1>1 DEF FlushSeen, Idle
<1>5. FlushSeen.mode # "none" /\ FlushSeen.left = {}
    BY <1>3, <1>4
<1>6. FlushSeen # [mode |-> "none"]
    BY <1>5
<1>7. Seen!FlushIsOver
    BY <1>1, <1>2, <1>4, <1>5, <1>6 DEF Seen!FlushIsOver, Seen!NoFlush
<1> QED
    BY <1>7 DEF Seen!Step

LEMMA StepSeen ==
    ASSUME IInv, [Next]_vars
    PROVE  [Seen!Step]_SeenVars
<1>1. TypeOK /\ Past /\ CloneAlive
    BY DEF IInv
<1>2. CASE UNCHANGED vars
    <2>1. UNCHANGED <<now, entries, negative, thread, prefetcher, flusher>>
        BY <1>2 DEF vars
    <2> QED
        BY <2>1, SameSeen DEF SeenVars
<1>3. CASE Tick
    BY <1>1, <1>3, TickSeen DEF Seen!Step
<1>4. ASSUME NEW t \in Threads, NEW k \in Keys, GetRead(t, k)
      PROVE  [Seen!Step]_SeenVars
    BY <1>1, <1>4, GetSeen
<1>5. ASSUME NEW t \in Threads, NEW k \in NegativeKeys, SetNegative(t, k)
      PROVE  [Seen!Step]_SeenVars
    BY <1>1, <1>5, DenySeen, CacheConstants
<1>6. ASSUME NEW t \in Threads, NEW k \in Keys, NEW msg \in Messages,
             SetBegin(t, k, msg)
      PROVE  [Seen!Step]_SeenVars
    BY <1>1, <1>6, SetBeginSeen
<1>7. ASSUME NEW t \in Threads, ThreadStep(t)
      PROVE  [Seen!Step]_SeenVars
    BY <1>1, <1>7, CheckSeen, CloneSeen, ReturnSeen, SetStoreSeen DEF ThreadStep
<1>8. ASSUME NEW p \in Prefetchers, PrefetchStep(p)
      PROVE  [Seen!Step]_SeenVars
    BY <1>1, <1>8, RefreshUnseen, ResolvesSeen, PrefetchStoreSeen DEF PrefetchStep
<1>9. CASE EvictStep
    BY <1>1, <1>9, EvictUnseen
<1>10. ASSUME NEW mode \in Modes, FlushBegin(mode)
       PROVE  [Seen!Step]_SeenVars
    BY <1>1, <1>10, FlushBeginSeen
<1>11. CASE FlushStep
    BY <1>1, <1>11, FlushShardSeen, FlushEndSeen DEF FlushStep
<1> QED
    BY <1>2, <1>3, <1>4, <1>5, <1>6, <1>7, <1>8, <1>9, <1>10, <1>11 DEF Next

\* Every behaviour of the cache, its evictor, refreshes and flushes, is one of
\* the abstract map CacheSpec as its callers see it (cache.go:99-255, 277-303).
THEOREM CacheImplementsSpec == Spec => ImplementsCacheSpec
<1>1. Init => Seen!Begin
    BY InitSeen
<1>2. IInv /\ [Next]_vars => [Seen!Step]_(Seen!specVars)
    BY StepSeen DEF Seen!specVars, SeenVars
<1> QED
    BY <1>1, <1>2, CacheInvariant, PTL DEF Spec, ImplementsCacheSpec, Seen!Promise
=============================================================================
