------------------------------ MODULE QueryLog ------------------------------
(***************************************************************************)
(* What the server keeps about the queries it has seen: the counters that  *)
(* handleQuery adds to (internal/server/server.go), the query log          *)
(* (querylog.go) and the history of the counters that sampleHistory takes  *)
(* every second (statshistory.go).  Log and history are ring buffers under *)
(* a mutex of their own; the counters are atomic and have none, so that    *)
(* queries pass the sampler between two of its readings.                   *)
(*                                                                         *)
(* A query appears from the point where it is counted; what the filter,    *)
(* the records and the resolver make of it is any of their outcomes.  The  *)
(* goroutines are alike, so that it only matters how many are at a point.  *)
(* statTotalLatencyMs, a sum that nothing else depends on, is left out.    *)
(***************************************************************************)
EXTENDS Integers, Sequences, FiniteSets

CONSTANTS
    LogSize,      \* QueryLog.max
    Window,       \* historyWindow
    MaxQueries,   \* bound: the queries that arrive
    MaxReadings,  \* bound: the sampler's readings
    Empty         \* a slot of the log that was never written

ASSUME QueryLogConstants ==
    /\ LogSize \in Nat \ {0}
    /\ Window \in Nat \ {0}
    /\ MaxQueries \in Nat
    /\ MaxReadings \in Nat

VARIABLES
    totalQueries,   \* statTotalQueries
    cacheHits,      \* statCacheHits
    blocked,        \* statBlocked
    counted,        \* the handlers that have counted their query only
    replying,       \* the handlers that know the status of their query
    dropped,        \* ghost: the handlers that ended without a log entry
    entries,        \* QueryLog.entries
    head,           \* QueryLog.head
    count,          \* QueryLog.count
    added,          \* ghost: every entry that was added, in order
    history,        \* statsHistory.buckets
    historyHead,    \* statsHistory.head
    sampler,        \* local state of sampleHistory: where it is, what it has read
    readings        \* ghost: every complete reading of the counters, in order

handlerVars == <<totalQueries, cacheHits, blocked, counted, replying, dropped>>
logVars == <<entries, head, count, added>>
historyVars == <<history, historyHead, sampler, readings>>
queryLogVars == <<handlerVars, logVars, historyVars>>

-----------------------------------------------------------------------------
(* Data *)

Statuses == {"resolved", "cached", "blocked", "error"}

\* Entries are told apart by the order in which they are added.
Entry == [n : Nat, status : Statuses]

Reading == [queries : Nat, hits : Nat, blocked : Nat]

Zero == [queries |-> 0, hits |-> 0, blocked |-> 0]

\* The HistoryBucket between two readings.
Increase(from, to) ==
    [queries |-> to.queries - from.queries,
     hits    |-> to.hits - from.hits,
     blocked |-> to.blocked - from.blocked]

-----------------------------------------------------------------------------
(* handleQuery, from the point where it counts the query *)

Count ==
    /\ totalQueries < MaxQueries
    /\ totalQueries' = totalQueries + 1
    /\ counted' = counted + 1
    /\ UNCHANGED <<cacheHits, blocked, replying, dropped, logVars, historyVars>>

Outcome(status) ==
    /\ counted > 0
    /\ counted' = counted - 1
    /\ replying' = [replying EXCEPT ![status] = @ + 1]
    /\ UNCHANGED <<totalQueries, dropped, logVars, historyVars>>

\* Mutant of Block: the handler goes on to the custom records.
BlockGoesOn ==
    /\ blocked' = blocked + 1
    /\ \E status \in {"blocked", "resolved"} : Outcome(status)
    /\ UNCHANGED cacheHits

Block ==
    /\ blocked' = blocked + 1
    /\ Outcome("blocked")
    /\ UNCHANGED cacheHits

\* A custom record, an answer from upstream, or none.
Resolve ==
    /\ Outcome("resolved") \/ Outcome("error")
    /\ UNCHANGED <<cacheHits, blocked>>

Hit ==
    /\ cacheHits' = cacheHits + 1
    /\ Outcome("cached")
    /\ UNCHANGED blocked

\* An answer that cannot be packed is neither sent nor logged.
PackFails(status) ==
    /\ status \in {"resolved", "cached"}
    /\ replying[status] > 0
    /\ replying' = [replying EXCEPT ![status] = @ - 1]
    /\ dropped' = [dropped EXCEPT ![status] = @ + 1]
    /\ UNCHANGED <<totalQueries, cacheHits, blocked, counted, logVars, historyVars>>

\* Mutant of Push: the count stops one short.
PushOneLess(e) ==
    /\ entries' = [entries EXCEPT ![head] = e]
    /\ head' = (head + 1) % LogSize
    /\ count' = IF count < LogSize - 1 THEN count + 1 ELSE count

\* QueryLog.Add, under the mutex.
Push(e) ==
    /\ entries' = [entries EXCEPT ![head] = e]
    /\ head' = (head + 1) % LogSize
    /\ count' = IF count < LogSize THEN count + 1 ELSE count

\* The reply has been sent.
Log(status) ==
    /\ replying[status] > 0
    /\ replying' = [replying EXCEPT ![status] = @ - 1]
    /\ LET e == [n |-> Len(added) + 1, status |-> status] IN
         /\ Push(e)
         /\ added' = Append(added, e)
    /\ UNCHANGED <<totalQueries, cacheHits, blocked, counted, dropped, historyVars>>

\* QueryLog.Recent, under the read lock: the oldest entry first.
Recent(n) ==
    LET m == IF n > count THEN count ELSE n IN
    [i \in 1 .. m |-> entries[(head - m + (i - 1) + LogSize) % LogSize]]

-----------------------------------------------------------------------------
(* sampleHistory *)

\* The counters are loaded one after the other.
LoadQueries ==
    /\ sampler.pc = "queries"
    /\ Len(readings) < MaxReadings
    /\ sampler' = [sampler EXCEPT !.pc = "hits", !.read.queries = totalQueries]
    /\ UNCHANGED <<handlerVars, logVars, history, historyHead, readings>>

LoadHits ==
    /\ sampler.pc = "hits"
    /\ sampler' = [sampler EXCEPT !.pc = "blocked", !.read.hits = cacheHits]
    /\ UNCHANGED <<handlerVars, logVars, history, historyHead, readings>>

LoadBlocked ==
    /\ sampler.pc = "blocked"
    /\ sampler' = [sampler EXCEPT !.pc = "record", !.read.blocked = blocked]
    /\ UNCHANGED <<handlerVars, logVars, history, historyHead, readings>>

\* What was counted before the loop began is in no bucket.
Begin ==
    /\ sampler.pc = "record"
    /\ ~sampler.begun
    /\ sampler' = [sampler EXCEPT !.pc = "queries", !.prev = sampler.read, !.begun = TRUE]
    /\ readings' = <<sampler.read>>
    /\ UNCHANGED <<handlerVars, logVars, history, historyHead>>

\* Mutant of Sample: the previous reading is not replaced.
SampleForgets ==
    /\ sampler.pc = "record"
    /\ sampler.begun
    /\ history' = [history EXCEPT ![historyHead] = Increase(sampler.prev, sampler.read)]
    /\ historyHead' = (historyHead + 1) % Window
    /\ sampler' = [sampler EXCEPT !.pc = "queries"]
    /\ readings' = Append(readings, sampler.read)
    /\ UNCHANGED <<handlerVars, logVars>>

\* statsHistory.record, under the mutex.
Sample ==
    /\ sampler.pc = "record"
    /\ sampler.begun
    /\ history' = [history EXCEPT ![historyHead] = Increase(sampler.prev, sampler.read)]
    /\ historyHead' = (historyHead + 1) % Window
    /\ sampler' = [sampler EXCEPT !.pc = "queries", !.prev = sampler.read]
    /\ readings' = Append(readings, sampler.read)
    /\ UNCHANGED <<handlerVars, logVars>>

\* statsHistory.snapshot, under the read lock: the oldest bucket first.
Snapshot == [i \in 1 .. Window |-> history[(historyHead + (i - 1)) % Window]]

-----------------------------------------------------------------------------
(* The specification *)

QueryLogInit ==
    /\ totalQueries = 0 /\ cacheHits = 0 /\ blocked = 0
    /\ counted = 0
    /\ replying = [status \in Statuses |-> 0]
    /\ dropped = [status \in Statuses |-> 0]
    /\ entries = [i \in 0 .. LogSize - 1 |-> Empty]
    /\ head = 0
    /\ count = 0
    /\ history = [i \in 0 .. Window - 1 |-> Zero]
    /\ historyHead = 0
    /\ sampler = [pc |-> "queries", begun |-> FALSE, read |-> Zero, prev |-> Zero]
    /\ added = <<>>
    /\ readings = <<>>

QueryLogNext ==
    \/ Count \/ Block \/ Resolve \/ Hit
    \/ \E status \in Statuses : PackFails(status) \/ Log(status)
    \/ LoadQueries \/ LoadHits \/ LoadBlocked \/ Begin \/ Sample

QueryLogSpec == QueryLogInit /\ [][QueryLogNext]_queryLogVars

-----------------------------------------------------------------------------
(* Properties *)

\* Type correctness of counters, log, history and sampler.
QueryLogTypeOK ==
    /\ totalQueries \in Nat /\ cacheHits \in Nat /\ blocked \in Nat
    /\ counted \in Nat
    /\ replying \in [Statuses -> Nat]
    /\ dropped \in [Statuses -> Nat]
    /\ entries \in [0 .. LogSize - 1 -> Entry \cup {Empty}]
    /\ head \in 0 .. LogSize - 1
    /\ count \in 0 .. LogSize
    /\ history \in [0 .. Window - 1 -> Reading]
    /\ historyHead \in 0 .. Window - 1
    /\ sampler \in [pc : {"queries", "hits", "blocked", "record"}, begun : BOOLEAN,
                    read : Reading, prev : Reading]
    /\ added \in Seq(Entry)
    /\ readings \in Seq(Reading)

\* Recent(n) returns the last n entries that were added, the oldest first, or
\* as many as there are, while the ring fills and after it has wrapped
\* (querylog.go:43-68).
RecentIsLast ==
    \A n \in 0 .. LogSize + 1 :
        LET kept == IF Len(added) < LogSize THEN Len(added) ELSE LogSize
            m == IF n < kept THEN n ELSE kept
        IN  Recent(n) = SubSeq(added, Len(added) - m + 1, Len(added))

\* The history shows, for each of the last seconds, how far the counters went
\* on between two readings of the sampler, no count being negative, lost or
\* shown twice; seconds before the start are zero (server.go:138-156,
\* statshistory.go:19-34).
HistoryIsLast ==
    \A i \in 0 .. Window - 1 :
        LET k == Len(readings) - i IN
        /\ Snapshot[Window - i] = IF k >= 2 THEN Increase(readings[k - 1], readings[k])
                                  ELSE Zero
        /\ Snapshot[Window - i] \in Reading

Logged(status) == {i \in DOMAIN added : added[i].status = status}

\* The queries whose status is known.
Known(status) == Cardinality(Logged(status)) + replying[status] + dropped[status]

\* The counters and the log tell the same story about the queries: each one
\* that was counted is logged once, under what it was counted as, unless it is
\* still under way or its answer could not be packed (server.go:225-316).
CountersMatchLog ==
    /\ totalQueries = counted + Known("resolved") + Known("cached")
                              + Known("blocked") + Known("error")
    /\ blocked = Known("blocked")
    /\ cacheHits = Known("cached")
-----------------------------------------------------------------------------
(* The inductive invariant *)

\* The slot k places before h in a ring.
Back(h, k, size) == IF h >= k THEN h - k ELSE h - k + size

RingHoldsLast ==
    /\ count = IF Len(added) < LogSize THEN Len(added) ELSE LogSize
    /\ \A k \in 1 .. count : entries[Back(head, k, LogSize)] = added[Len(added) - k + 1]

WindowHoldsLast ==
    \A k \in 1 .. Window :
        history[Back(historyHead, k, Window)] =
            IF Len(readings) - k >= 1
            THEN Increase(readings[Len(readings) - k], readings[Len(readings) - k + 1])
            ELSE Zero

\* The counters only grow: what has been loaded in this round lies between the
\* previous reading and the counter.
InOrder(prev, read, counter, loaded) ==
    /\ prev <= counter
    /\ loaded => prev <= read /\ read <= counter

SamplerInOrder ==
    /\ InOrder(sampler.prev.queries, sampler.read.queries, totalQueries, sampler.pc # "queries")
    /\ InOrder(sampler.prev.hits, sampler.read.hits, cacheHits,
               sampler.pc \in {"blocked", "record"})
    /\ InOrder(sampler.prev.blocked, sampler.read.blocked, blocked, sampler.pc = "record")

PrevIsLast ==
    /\ sampler.begun => Len(readings) >= 1 /\ sampler.prev = readings[Len(readings)]
    /\ ~sampler.begun => readings = <<>>

QueryLogIInv ==
    /\ QueryLogTypeOK
    /\ RingHoldsLast
    /\ WindowHoldsLast
    /\ SamplerInOrder
    /\ PrevIsLast
    /\ CountersMatchLog
=============================================================================
