---------------------------- MODULE FrontProofs ----------------------------
(***************************************************************************)
(* Proofs about what handleQuery does beside resolving.  The rings: what   *)
(* Recent and Snapshot return, for any size of the rings and any number of *)
(* queries and readings, and that counters and log agree.  The limiter: it *)
(* never grants more than burst and rate allow.                            *)
(***************************************************************************)
EXTENDS RateLimiter, QueryLog, FiniteSetTheorems, TLAPS

-----------------------------------------------------------------------------
(* Rings *)

\* Remainders of numbers below twice the divisor.
LEMMA SmallMod ==
    ASSUME NEW n \in Nat \ {0}, NEW a \in 0 .. n - 1
    PROVE  a % n = a /\ (a + n) % n = a
OBVIOUS

\* Writing moves every slot one place back.
LEMMA RingNext ==
    ASSUME NEW n \in Nat \ {0}, NEW h \in 0 .. n - 1
    PROVE  /\ (h + 1) % n \in 0 .. n - 1
           /\ Back((h + 1) % n, 1, n) = h
           /\ \A k \in 2 .. n : /\ Back((h + 1) % n, k, n) = Back(h, k - 1, n)
                               /\ Back(h, k - 1, n) # h
           /\ \A k \in 1 .. n : Back(h, k, n) \in 0 .. n - 1
<1>1. (h + 1) % n = IF h + 1 = n THEN 0 ELSE h + 1
    <2>1. CASE h + 1 = n
        <3>1. 0 \in 0 .. n - 1 /\ 0 + n = h + 1
            BY <2>1
        <3> QED
            BY <2>1, <3>1, SmallMod
    <2>2. CASE h + 1 # n
        <3>1. h + 1 \in 0 .. n - 1
            BY <2>2
        <3> QED
            BY <2>2, <3>1, SmallMod
    <2> QED
        BY <2>1, <2>2
<1> QED
    BY <1>1 DEF Back

\* What Recent and Snapshot read are the slots before the head, oldest first.
LEMMA RingIndex ==
    ASSUME NEW n \in Nat \ {0}, NEW h \in 0 .. n - 1, NEW m \in 1 .. n, NEW i \in 1 .. m
    PROVE  /\ (h - m + (i - 1) + n) % n = Back(h, m - i + 1, n)
           /\ m = n => (h + (i - 1)) % n = Back(h, m - i + 1, n)
<1> DEFINE a == h - m + (i - 1)
<1>1. a \in Int /\ (h >= m - i + 1 <=> a >= 0)
      /\ a < n /\ a >= -n
    OBVIOUS
<1>2. (a + n) % n = IF a >= 0 THEN a ELSE a + n
    <2>1. CASE a >= 0
        BY <1>1, <2>1, SmallMod
    <2>2. CASE ~(a >= 0)
        <3>1. a + n \in 0 .. n - 1
            BY <1>1, <2>2
        <3> QED
            BY <2>2, <3>1, SmallMod
    <2> QED
        BY <2>1, <2>2
<1>3. Back(h, m - i + 1, n) = IF a >= 0 THEN a ELSE a + n
    BY <1>1 DEF Back
<1>4. m = n => a + n = h + (i - 1)
    OBVIOUS
<1> QED
    BY <1>2, <1>3, <1>4

-----------------------------------------------------------------------------
(* The initial state *)

LEMMA InitQueryLogIInv == QueryLogInit => QueryLogIInv
<1> SUFFICES ASSUME QueryLogInit
             PROVE  QueryLogIInv
    OBVIOUS
<1> USE QueryLogConstants DEF QueryLogInit
<1>1. Zero \in Reading
    BY DEF Zero, Reading
<1>2. QueryLogTypeOK
    BY <1>1 DEF QueryLogTypeOK
<1>3. RingHoldsLast /\ WindowHoldsLast
    <2>1. \A k \in 1 .. Window : Back(0, k, Window) \in 0 .. Window - 1
        BY DEF Back
    <2> QED
        BY <2>1 DEF RingHoldsLast, WindowHoldsLast
<1>4. SamplerInOrder /\ PrevIsLast
    BY DEF SamplerInOrder, PrevIsLast, InOrder, Zero
<1>5. CountersMatchLog
    <2>1. \A status \in Statuses : Logged(status) = {}
        BY DEF Logged
    <2>2. \A status \in Statuses : Known(status) = 0
        BY <2>1, FS_EmptySet DEF Known
    <2> QED
        BY <2>2 DEF CountersMatchLog, Statuses
<1> QED
    BY <1>2, <1>3, <1>4, <1>5 DEF QueryLogIInv

-----------------------------------------------------------------------------
(* The log *)

\* An entry is added to the ring.
LEMMA LogKeepsRing ==
    ASSUME QueryLogTypeOK, RingHoldsLast, NEW status \in Statuses, Log(status)
    PROVE  RingHoldsLast'
<1>1. PICK e \in Entry : /\ Push(e)
                        /\ added' = Append(added, e)
    <2>1. [n |-> Len(added) + 1, status |-> status] \in Entry
        BY DEF QueryLogTypeOK, Entry
    <2> QED
        BY <2>1 DEF Log
<1>2. PICK s \in Nat : s = Len(added)
    BY DEF QueryLogTypeOK
<1>3. /\ Len(added') = s + 1 /\ added'[s + 1] = e
      /\ \A i \in 1 .. s : added'[i] = added[i]
    BY <1>1, <1>2 DEF QueryLogTypeOK
<1>4. /\ head' = (head + 1) % LogSize
      /\ \A i \in 0 .. LogSize - 1 : entries'[i] = IF i = head THEN e ELSE entries[i]
      /\ count' = IF count < LogSize THEN count + 1 ELSE count
    BY <1>1 DEF Push, QueryLogTypeOK
<1>5. LogSize \in Nat \ {0} /\ head \in 0 .. LogSize - 1 /\ count \in 0 .. LogSize
    BY QueryLogConstants DEF QueryLogTypeOK
<1>6. /\ Back(head', 1, LogSize) = head
      /\ \A k \in 2 .. LogSize : /\ Back(head', k, LogSize) = Back(head, k - 1, LogSize)
                                 /\ Back(head, k - 1, LogSize) # head
      /\ \A k \in 1 .. LogSize : Back(head, k, LogSize) \in 0 .. LogSize - 1
    BY <1>4, <1>5, RingNext
<1>7. count = IF s < LogSize THEN s ELSE LogSize
    BY <1>2 DEF RingHoldsLast
<1>8. count' = IF s + 1 < LogSize THEN s + 1 ELSE LogSize
    BY <1>2, <1>4, <1>5, <1>7
<1>9. ASSUME NEW k \in 1 .. count'
      PROVE  entries'[Back(head', k, LogSize)] = added'[s + 1 - k + 1]
    <2>1. CASE k = 1
        BY <1>2, <1>3, <1>4, <1>5, <1>6, <2>1
    <2>2. CASE k # 1
        <3>1. k - 1 \in 1 .. count /\ k \in 2 .. LogSize /\ k - 1 \in 1 .. LogSize
            BY <1>2, <1>5, <1>7, <1>8, <2>2
        <3>2. entries[Back(head, k - 1, LogSize)] = added[s - (k - 1) + 1]
            BY <1>2, <3>1 DEF RingHoldsLast
        <3>3. s - (k - 1) + 1 = s + 1 - k + 1 /\ s + 1 - k + 1 \in 1 .. s
            BY <1>2, <1>5, <1>7, <3>1
        <3> QED
            BY <1>3, <1>4, <1>6, <3>1, <3>2, <3>3
    <2> QED
        BY <2>1, <2>2
<1> QED
    BY <1>3, <1>8, <1>9 DEF RingHoldsLast

LEMMA LoggedFinite ==
    ASSUME QueryLogTypeOK, NEW status
    PROVE  IsFiniteSet(Logged(status)) /\ Cardinality(Logged(status)) \in Nat
<1>1. PICK s \in Nat : s = Len(added) /\ DOMAIN added = 1 .. s
    BY DEF QueryLogTypeOK
<1>2. IsFiniteSet(1 .. s)
    BY FS_Interval
<1>3. Logged(status) \in SUBSET (1 .. s)
    BY <1>1 DEF Logged
<1> QED
    BY <1>2, <1>3, FS_Subset, FS_CardinalityType

\* One more entry with its status is in the log.
LEMMA LogKnown ==
    ASSUME QueryLogTypeOK, NEW status \in Statuses, Log(status), NEW other \in Statuses
    PROVE  Known(other)' = Known(other)
<1>1. PICK e \in Entry : added' = Append(added, e) /\ e.status = status
    <2>1. [n |-> Len(added) + 1, status |-> status] \in Entry
        BY DEF QueryLogTypeOK, Entry
    <2> QED
        BY <2>1 DEF Log
<1>2. PICK s \in Nat : s = Len(added) /\ DOMAIN added = 1 .. s
    BY DEF QueryLogTypeOK
<1>3. /\ DOMAIN added' = 1 .. s + 1 /\ added'[s + 1] = e
      /\ \A i \in 1 .. s : added'[i] = added[i]
    BY <1>1, <1>2 DEF QueryLogTypeOK
<1>4. Logged(other)' = IF other = status THEN Logged(other) \cup {s + 1} ELSE Logged(other)
    <2>1. \A i \in 1 .. s + 1 : i \in 1 .. s \/ i = s + 1
        BY <1>2
    <2>2. \A i \in 1 .. s : i \in 1 .. s + 1
        BY <1>2
    <2>3. s + 1 \in 1 .. s + 1
        BY <1>2
    <2> QED
        BY <1>1, <1>2, <1>3, <2>1, <2>2, <2>3 DEF Logged
<1>5. IsFiniteSet(Logged(other)) /\ Cardinality(Logged(other)) \in Nat /\ s + 1 \notin Logged(other)
    <2>1. s + 1 \notin 1 .. s
        BY <1>2
    <2> QED
        BY <1>2, <2>1, LoggedFinite DEF Logged
<1>6. Cardinality(Logged(other)') =
          IF other = status THEN Cardinality(Logged(other)) + 1 ELSE Cardinality(Logged(other))
    BY <1>4, <1>5, FS_AddElement
<1>7. /\ replying'[other] = IF other = status THEN replying[other] - 1 ELSE replying[other]
      /\ dropped' = dropped
      /\ replying[other] \in Nat /\ dropped[other] \in Nat
    BY DEF Log, QueryLogTypeOK
<1> QED
    BY <1>5, <1>6, <1>7 DEF Known

\* Counters and log go on together.
LEMMA CountersInductive ==
    ASSUME QueryLogTypeOK, CountersMatchLog, [QueryLogNext]_queryLogVars
    PROVE  CountersMatchLog'
<1> DEFINE Same(status) == Known(status)' = Known(status)
<1>1. \A status \in Statuses : Known(status) \in Int
    <2> TAKE status \in Statuses
    <2>1. Cardinality(Logged(status)) \in Nat
        BY LoggedFinite
    <2> QED
        BY <2>1 DEF Known, QueryLogTypeOK
<1>2. /\ "resolved" \in Statuses /\ "cached" \in Statuses
      /\ "blocked" \in Statuses /\ "error" \in Statuses
      /\ totalQueries \in Int /\ counted \in Int /\ cacheHits \in Int /\ blocked \in Int
    BY DEF Statuses, QueryLogTypeOK
<1>3. CASE UNCHANGED handlerVars /\ UNCHANGED logVars
    <2>1. \A status \in Statuses : Same(status)
        BY <1>3 DEF Known, Logged, handlerVars, logVars
    <2> QED
        BY <1>2, <1>3, <2>1 DEF CountersMatchLog, handlerVars
<1>4. CASE Count
    <2>1. \A status \in Statuses : Same(status)
        BY <1>4 DEF Count, Known, Logged, logVars
    <2> QED
        BY <1>1, <1>2, <1>4, <2>1 DEF CountersMatchLog, Count
<1>5. ASSUME NEW status \in Statuses, Outcome(status)
      PROVE  /\ Known(status)' = Known(status) + 1
             /\ \A other \in Statuses \ {status} : Same(other)
    <2>1. \A other \in Statuses :
             /\ Logged(other)' = Logged(other)
             /\ replying'[other] = IF other = status THEN replying[other] + 1 ELSE replying[other]
             /\ dropped'[other] = dropped[other]
             /\ replying[other] \in Nat /\ dropped[other] \in Nat
        BY <1>5 DEF Outcome, Logged, logVars, QueryLogTypeOK
    <2>2. Cardinality(Logged(status)) \in Nat
        BY LoggedFinite
    <2> QED
        BY <2>1, <2>2 DEF Known
<1>6. CASE Block
    <2>1. Outcome("blocked") /\ blocked' = blocked + 1 /\ UNCHANGED cacheHits
        BY <1>6 DEF Block
    <2>2. /\ Known("blocked")' = Known("blocked") + 1
          /\ Same("resolved") /\ Same("cached") /\ Same("error")
        BY <1>2, <1>5, <2>1
    <2> QED
        BY <1>1, <1>2, <2>1, <2>2 DEF CountersMatchLog, Outcome
<1>7. CASE Hit
    <2>1. Outcome("cached") /\ cacheHits' = cacheHits + 1 /\ UNCHANGED blocked
        BY <1>7 DEF Hit
    <2>2. /\ Known("cached")' = Known("cached") + 1
          /\ Same("resolved") /\ Same("blocked") /\ Same("error")
        BY <1>2, <1>5, <2>1
    <2> QED
        BY <1>1, <1>2, <2>1, <2>2 DEF CountersMatchLog, Outcome
<1>8. CASE Resolve
    <2>1. PICK status \in {"resolved", "error"} : Outcome(status)
        BY <1>8 DEF Resolve
    <2>2. /\ Known(status)' = Known(status) + 1
          /\ \A other \in Statuses \ {status} : Same(other)
        BY <1>2, <1>5, <2>1
    <2>3. /\ counted' = counted - 1
          /\ UNCHANGED <<totalQueries, cacheHits, blocked>>
        BY <1>8, <2>1 DEF Resolve, Outcome
    <2> QED
        BY <1>1, <1>2, <2>2, <2>3 DEF CountersMatchLog
<1>9. ASSUME NEW status \in Statuses, PackFails(status)
      PROVE  CountersMatchLog'
    <2>1. \A other \in Statuses :
             /\ Logged(other)' = Logged(other)
             /\ replying'[other] = IF other = status THEN replying[other] - 1 ELSE replying[other]
             /\ dropped'[other] = IF other = status THEN dropped[other] + 1 ELSE dropped[other]
             /\ replying[other] \in Nat /\ dropped[other] \in Nat
        BY <1>9 DEF PackFails, Logged, logVars, QueryLogTypeOK
    <2>2. \A other \in Statuses : Cardinality(Logged(other)) \in Nat
        BY LoggedFinite
    <2>3. \A other \in Statuses : Same(other)
        BY <2>1, <2>2 DEF Known
    <2>4. UNCHANGED <<totalQueries, cacheHits, blocked, counted>>
        BY <1>9 DEF PackFails
    <2> QED
        BY <1>2, <2>3, <2>4 DEF CountersMatchLog
<1>10. ASSUME NEW status \in Statuses, Log(status)
       PROVE  CountersMatchLog'
    <2>1. \A other \in Statuses : Same(other)
        BY <1>10, LogKnown
    <2>2. UNCHANGED <<totalQueries, cacheHits, blocked, counted>>
        BY <1>10 DEF Log
    <2> QED
        BY <1>2, <2>1, <2>2 DEF CountersMatchLog
<1> QED
    BY <1>3, <1>4, <1>6, <1>7, <1>8, <1>9, <1>10
    DEF QueryLogNext, queryLogVars, LoadQueries, LoadHits, LoadBlocked, Begin, Sample

-----------------------------------------------------------------------------
(* The history *)

\* A round's readings lie between those of the round before and the counters.
LEMMA SamplerInductive ==
    ASSUME QueryLogTypeOK, SamplerInOrder, [QueryLogNext]_queryLogVars
    PROVE  SamplerInOrder'
<1>1. /\ sampler \in [pc : {"queries", "hits", "blocked", "record"}, begun : BOOLEAN,
                      read : Reading, prev : Reading]
      /\ totalQueries \in Nat /\ cacheHits \in Nat /\ blocked \in Nat
    BY DEF QueryLogTypeOK
<1>2. CASE /\ UNCHANGED sampler
           /\ totalQueries' \in Nat /\ cacheHits' \in Nat /\ blocked' \in Nat
           /\ totalQueries <= totalQueries' /\ cacheHits <= cacheHits' /\ blocked <= blocked'
    BY <1>1, <1>2 DEF SamplerInOrder, InOrder, Reading
<1>3. CASE Count \/ Block \/ Resolve \/ Hit
    BY <1>1, <1>2, <1>3 DEF Count, Block, Resolve, Hit, Outcome, historyVars
<1>4. CASE UNCHANGED <<handlerVars, sampler>>
    BY <1>1, <1>2, <1>4 DEF handlerVars
<1>5. CASE \E status \in Statuses : PackFails(status) \/ Log(status)
    BY <1>1, <1>2, <1>5 DEF PackFails, Log, historyVars
<1>6. CASE LoadQueries
    BY <1>1, <1>6 DEF LoadQueries, SamplerInOrder, InOrder, Reading, handlerVars
<1>7. CASE LoadHits
    BY <1>1, <1>7 DEF LoadHits, SamplerInOrder, InOrder, Reading, handlerVars
<1>8. CASE LoadBlocked
    BY <1>1, <1>8 DEF LoadBlocked, SamplerInOrder, InOrder, Reading, handlerVars
<1>9. CASE Begin
    BY <1>1, <1>9 DEF Begin, SamplerInOrder, InOrder, Reading, handlerVars
<1>10. CASE Sample
    BY <1>1, <1>10 DEF Sample, SamplerInOrder, InOrder, Reading, handlerVars
<1> QED
    BY <1>3, <1>4, <1>5, <1>6, <1>7, <1>8, <1>9, <1>10 DEF QueryLogNext, queryLogVars, historyVars

\* What is recorded is not negative.
LEMMA IncreaseType ==
    ASSUME QueryLogTypeOK, SamplerInOrder, sampler.pc = "record"
    PROVE  Increase(sampler.prev, sampler.read) \in Reading
<1>1. sampler.prev \in Reading /\ sampler.read \in Reading
    BY DEF QueryLogTypeOK
<1>2. /\ sampler.prev.queries <= sampler.read.queries
      /\ sampler.prev.hits <= sampler.read.hits
      /\ sampler.prev.blocked <= sampler.read.blocked
    BY DEF SamplerInOrder, InOrder
<1> QED
    BY <1>1, <1>2 DEF Increase, Reading

LEMMA TypeInductive ==
    ASSUME QueryLogTypeOK, SamplerInOrder, [QueryLogNext]_queryLogVars
    PROVE  QueryLogTypeOK'
<1> USE QueryLogConstants
<1>1. CASE Count
    BY <1>1 DEF Count, logVars, historyVars, QueryLogTypeOK
<1>2. ASSUME NEW status \in Statuses, Outcome(status)
      PROVE  counted' \in Nat /\ replying' \in [Statuses -> Nat]
    BY <1>2 DEF Outcome, QueryLogTypeOK
<1>3. CASE Block \/ Resolve \/ Hit
    <2>1. counted' \in Nat /\ replying' \in [Statuses -> Nat]
        BY <1>2, <1>3 DEF Block, Resolve, Hit, Statuses
    <2>2. cacheHits' \in Nat /\ blocked' \in Nat
        BY <1>3 DEF Block, Resolve, Hit, QueryLogTypeOK
    <2>3. UNCHANGED <<totalQueries, dropped, logVars, historyVars>>
        BY <1>3 DEF Block, Resolve, Hit, Outcome
    <2> QED
        BY <2>1, <2>2, <2>3 DEF QueryLogTypeOK, logVars, historyVars
<1>4. ASSUME NEW status \in Statuses, PackFails(status)
      PROVE  QueryLogTypeOK'
    BY <1>4 DEF PackFails, QueryLogTypeOK, logVars, historyVars
<1>5. ASSUME NEW status \in Statuses, Log(status)
      PROVE  QueryLogTypeOK'
    <2>1. PICK e \in Entry : Push(e) /\ added' = Append(added, e)
        <3>1. [n |-> Len(added) + 1, status |-> status] \in Entry
            BY DEF QueryLogTypeOK, Entry
        <3> QED
            BY <1>5, <3>1 DEF Log
    <2>2. /\ added' \in Seq(Entry)
          /\ entries' \in [0 .. LogSize - 1 -> Entry \cup {Empty}]
          /\ head' \in 0 .. LogSize - 1
          /\ count' \in 0 .. LogSize
        <3>1. added' \in Seq(Entry)
            BY <2>1 DEF QueryLogTypeOK
        <3>2. entries' \in [0 .. LogSize - 1 -> Entry \cup {Empty}]
            BY <2>1 DEF Push, QueryLogTypeOK
        <3>3. head' \in 0 .. LogSize - 1
            BY <2>1, RingNext DEF Push, QueryLogTypeOK
        <3>4. count' \in 0 .. LogSize
            BY <2>1 DEF Push, QueryLogTypeOK
        <3> QED
            BY <3>1, <3>2, <3>3, <3>4
    <2>3. replying' \in [Statuses -> Nat]
        BY <1>5 DEF Log, QueryLogTypeOK
    <2> QED
        BY <1>5, <2>2, <2>3 DEF Log, historyVars, QueryLogTypeOK
<1>6. CASE LoadQueries \/ LoadHits \/ LoadBlocked
    <2>1. sampler' \in [pc : {"queries", "hits", "blocked", "record"}, begun : BOOLEAN,
                        read : Reading, prev : Reading]
        <3>1. CASE LoadQueries
            BY <3>1 DEF LoadQueries, QueryLogTypeOK, Reading
        <3>2. CASE LoadHits
            BY <3>2 DEF LoadHits, QueryLogTypeOK, Reading
        <3>3. CASE LoadBlocked
            BY <3>3 DEF LoadBlocked, QueryLogTypeOK, Reading
        <3> QED
            BY <1>6, <3>1, <3>2, <3>3
    <2>2. UNCHANGED <<handlerVars, logVars, history, historyHead, readings>>
        BY <1>6 DEF LoadQueries, LoadHits, LoadBlocked
    <2> QED
        BY <2>1, <2>2 DEF QueryLogTypeOK, handlerVars, logVars
<1>7. CASE Begin
    <2>1. readings' \in Seq(Reading)
        BY <1>7 DEF Begin, QueryLogTypeOK
    <2>2. sampler' \in [pc : {"queries", "hits", "blocked", "record"}, begun : BOOLEAN,
                        read : Reading, prev : Reading]
        BY <1>7 DEF Begin, QueryLogTypeOK
    <2> QED
        BY <1>7, <2>1, <2>2 DEF Begin, QueryLogTypeOK, handlerVars, logVars
<1>8. CASE Sample
    <2>1. Increase(sampler.prev, sampler.read) \in Reading
        BY <1>8, IncreaseType DEF Sample
    <2>2. /\ history' \in [0 .. Window - 1 -> Reading]
          /\ historyHead' \in 0 .. Window - 1
        BY <1>8, <2>1, RingNext DEF Sample, QueryLogTypeOK
    <2>3. readings' \in Seq(Reading)
        BY <1>8 DEF Sample, QueryLogTypeOK
    <2>4. sampler' \in [pc : {"queries", "hits", "blocked", "record"}, begun : BOOLEAN,
                        read : Reading, prev : Reading]
        BY <1>8 DEF Sample, QueryLogTypeOK
    <2> QED
        BY <1>8, <2>2, <2>3, <2>4 DEF Sample, QueryLogTypeOK, handlerVars, logVars
<1>9. CASE UNCHANGED queryLogVars
    BY <1>9 DEF QueryLogTypeOK, queryLogVars, handlerVars, logVars, historyVars
<1> QED
    BY <1>1, <1>3, <1>4, <1>5, <1>6, <1>7, <1>8, <1>9 DEF QueryLogNext

\* The sampler remembers its last reading.
LEMMA PrevInductive ==
    ASSUME QueryLogTypeOK, PrevIsLast, [QueryLogNext]_queryLogVars
    PROVE  PrevIsLast'
<1>1. CASE UNCHANGED historyVars
    BY <1>1 DEF PrevIsLast, historyVars
<1>2. CASE LoadQueries \/ LoadHits \/ LoadBlocked
    <2>1. sampler'.begun = sampler.begun /\ sampler'.prev = sampler.prev
        BY <1>2 DEF LoadQueries, LoadHits, LoadBlocked, QueryLogTypeOK
    <2>2. UNCHANGED readings
        BY <1>2 DEF LoadQueries, LoadHits, LoadBlocked
    <2> QED
        BY <2>1, <2>2 DEF PrevIsLast
<1>3. CASE Begin
    <2>1. sampler'.begun
        BY <1>3 DEF Begin, QueryLogTypeOK
    <2>2. sampler'.prev = sampler.read /\ readings' = <<sampler.read>>
        BY <1>3 DEF Begin, QueryLogTypeOK
    <2> QED
        BY <2>1, <2>2 DEF PrevIsLast
<1>4. CASE Sample
    <2>1. sampler'.begun
        BY <1>4 DEF Sample, QueryLogTypeOK
    <2>2. sampler'.prev = sampler.read /\ readings' = Append(readings, sampler.read)
        BY <1>4 DEF Sample, QueryLogTypeOK
    <2>3. Len(readings') >= 1 /\ readings'[Len(readings')] = sampler.read
        BY <2>2 DEF QueryLogTypeOK
    <2> QED
        BY <2>1, <2>2, <2>3 DEF PrevIsLast
<1> QED
    BY <1>1, <1>2, <1>3, <1>4
    DEF QueryLogNext, queryLogVars, Count, Block, Resolve, Hit, Outcome, PackFails, Log

LEMMA WindowInductive ==
    ASSUME QueryLogTypeOK, PrevIsLast, WindowHoldsLast, [QueryLogNext]_queryLogVars
    PROVE  WindowHoldsLast'
<1>1. CASE UNCHANGED <<history, historyHead, readings>>
    BY <1>1 DEF WindowHoldsLast
<1>2. CASE Begin
    <2>1. readings = <<>>
        BY <1>2 DEF Begin, PrevIsLast
    <2>2. Len(readings) = 0 /\ Len(readings') = 1
        BY <1>2, <2>1 DEF Begin
    <2>3. UNCHANGED <<history, historyHead>>
        BY <1>2 DEF Begin
    <2>4. Window \in Nat
        BY QueryLogConstants
    <2>5. \A k \in 1 .. Window : history[Back(historyHead, k, Window)] = Zero
        BY <2>2, <2>4 DEF WindowHoldsLast
    <2> QED
        BY <2>2, <2>3, <2>4, <2>5 DEF WindowHoldsLast
<1>3. CASE Sample
    <2>1. PICK r \in Nat : r = Len(readings)
        BY DEF QueryLogTypeOK
    <2>2. r >= 1 /\ sampler.prev = readings[r]
        BY <1>3, <2>1 DEF Sample, PrevIsLast
    <2>3. /\ Len(readings') = r + 1 /\ readings'[r + 1] = sampler.read
          /\ \A i \in 1 .. r : readings'[i] = readings[i]
        BY <1>3, <2>1 DEF Sample, QueryLogTypeOK
    <2>4. /\ historyHead' = (historyHead + 1) % Window
          /\ \A i \in 0 .. Window - 1 :
                history'[i] = IF i = historyHead THEN Increase(sampler.prev, sampler.read)
                              ELSE history[i]
        BY <1>3 DEF Sample, QueryLogTypeOK
    <2>5. Window \in Nat \ {0} /\ historyHead \in 0 .. Window - 1
        BY QueryLogConstants DEF QueryLogTypeOK
    <2>6. /\ Back(historyHead', 1, Window) = historyHead
          /\ \A k \in 2 .. Window : /\ Back(historyHead', k, Window) = Back(historyHead, k - 1, Window)
                                    /\ Back(historyHead, k - 1, Window) # historyHead
          /\ \A k \in 1 .. Window : Back(historyHead, k, Window) \in 0 .. Window - 1
        BY <2>4, <2>5, RingNext
    <2>7. ASSUME NEW k \in 1 .. Window
          PROVE  history'[Back(historyHead', k, Window)] =
                     IF r + 1 - k >= 1
                     THEN Increase(readings'[r + 1 - k], readings'[r + 1 - k + 1])
                     ELSE Zero
        <3>1. CASE k = 1
            <4>1. r + 1 - k = r /\ r \in 1 .. r
                BY <2>2, <3>1
            <4>2. history'[Back(historyHead', k, Window)] = Increase(readings[r], sampler.read)
                BY <2>2, <2>4, <2>5, <2>6, <3>1
            <4> QED
                BY <2>2, <2>3, <4>1, <4>2
        <3>2. CASE k # 1
            <4>1. k \in 2 .. Window /\ k - 1 \in 1 .. Window
                BY <2>5, <3>2
            <4>2. history'[Back(historyHead', k, Window)] = history[Back(historyHead, k - 1, Window)]
                BY <2>4, <2>6, <4>1
            <4>3. history[Back(historyHead, k - 1, Window)] =
                     IF r - (k - 1) >= 1
                     THEN Increase(readings[r - (k - 1)], readings[r - (k - 1) + 1])
                     ELSE Zero
                BY <2>1, <4>1 DEF WindowHoldsLast
            <4>4. r - (k - 1) = r + 1 - k
                BY <2>1, <4>1
            <4>5. r + 1 - k >= 1 => r + 1 - k \in 1 .. r /\ r + 1 - k + 1 \in 1 .. r
                BY <2>1, <4>1
            <4> QED
                BY <2>3, <4>2, <4>3, <4>4, <4>5
        <3> QED
            BY <3>1, <3>2
    <2> QED
        BY <2>3, <2>7 DEF WindowHoldsLast
<1> QED
    BY <1>1, <1>2, <1>3
    DEF QueryLogNext, queryLogVars, historyVars, Count, Block, Resolve, Hit, Outcome, PackFails,
        Log, LoadQueries, LoadHits, LoadBlocked

-----------------------------------------------------------------------------
(* The invariant and what follows from it *)

LEMMA QueryLogIInvInductive == QueryLogIInv /\ [QueryLogNext]_queryLogVars => QueryLogIInv'
<1> SUFFICES ASSUME QueryLogIInv, [QueryLogNext]_queryLogVars
             PROVE  QueryLogIInv'
    OBVIOUS
<1>1. RingHoldsLast'
    <2>1. CASE UNCHANGED logVars
        BY <2>1 DEF QueryLogIInv, RingHoldsLast, logVars
    <2>2. ASSUME NEW status \in Statuses, Log(status)
          PROVE  RingHoldsLast'
        BY <2>2, LogKeepsRing DEF QueryLogIInv
    <2> QED
        BY <2>1, <2>2
        DEF QueryLogNext, queryLogVars, Count, Block, Resolve, Hit, Outcome, PackFails,
            LoadQueries, LoadHits, LoadBlocked, Begin, Sample
<1> QED
    BY <1>1, TypeInductive, SamplerInductive, PrevInductive, WindowInductive, CountersInductive
    DEF QueryLogIInv

\* The inductive invariant of counters, query log and history (querylog.go,
\* statshistory.go, server.go:138-156 and 225-316).
THEOREM QueryLogInvariant == QueryLogSpec => []QueryLogIInv
BY InitQueryLogIInv, QueryLogIInvInductive, PTL DEF QueryLogSpec

\* The query log shows the last entries, in order, for any size of the ring
\* (querylog.go:58-68).
THEOREM QueryLogRecentIsLast == QueryLogSpec => []RecentIsLast
<1>1. QueryLogIInv => RecentIsLast
    <2> SUFFICES ASSUME QueryLogIInv, NEW n \in 0 .. LogSize + 1
                 PROVE  LET kept == IF Len(added) < LogSize THEN Len(added) ELSE LogSize
                            m == IF n < kept THEN n ELSE kept
                        IN  Recent(n) = SubSeq(added, Len(added) - m + 1, Len(added))
        BY DEF RecentIsLast
    <2>1. /\ LogSize \in Nat \ {0} /\ head \in 0 .. LogSize - 1 /\ count \in 0 .. LogSize
          /\ Len(added) \in Nat /\ added \in Seq(Entry)
          /\ count = IF Len(added) < LogSize THEN Len(added) ELSE LogSize
        BY QueryLogConstants DEF QueryLogIInv, QueryLogTypeOK, RingHoldsLast
    <2>2. PICK m \in 0 .. count : m = IF n > count THEN count ELSE n
        BY <2>1
    <2>3. m = IF n < count THEN n ELSE count
        BY <2>1, <2>2
    <2>4. Recent(n) = [i \in 1 .. m |-> entries[(head - m + (i - 1) + LogSize) % LogSize]]
        BY <2>2 DEF Recent
    <2>5. ASSUME NEW i \in 1 .. m
          PROVE  entries[(head - m + (i - 1) + LogSize) % LogSize]
                     = added[Len(added) - m + 1 + i - 1]
        <3>1. m \in 1 .. LogSize /\ m - i + 1 \in 1 .. count
            BY <2>1
        <3>2. (head - m + (i - 1) + LogSize) % LogSize = Back(head, m - i + 1, LogSize)
            BY <2>1, <3>1, RingIndex
        <3>3. entries[Back(head, m - i + 1, LogSize)] = added[Len(added) - (m - i + 1) + 1]
            BY <3>1 DEF QueryLogIInv, RingHoldsLast
        <3>4. Len(added) - (m - i + 1) + 1 = Len(added) - m + 1 + i - 1
            BY <2>1
        <3> QED
            BY <3>2, <3>3, <3>4
    <2>6. SubSeq(added, Len(added) - m + 1, Len(added))
             = [i \in 1 .. m |-> added[Len(added) - m + 1 + i - 1]]
        BY <2>1
    <2>7. Recent(n) = SubSeq(added, Len(added) - m + 1, Len(added))
        BY <2>4, <2>5, <2>6
    <2> QED
        BY <2>1, <2>3, <2>7
<1> QED
    BY <1>1, QueryLogInvariant, PTL

\* The history shows what the counters went on by, second by second, for any
\* length of the window (statshistory.go:26-34).
THEOREM QueryLogHistoryIsLast == QueryLogSpec => []HistoryIsLast
<1>1. QueryLogIInv => HistoryIsLast
    <2> SUFFICES ASSUME QueryLogIInv, NEW i \in 0 .. Window - 1
                 PROVE  LET k == Len(readings) - i IN
                        /\ Snapshot[Window - i] =
                              IF k >= 2 THEN Increase(readings[k - 1], readings[k]) ELSE Zero
                        /\ Snapshot[Window - i] \in Reading
        BY DEF HistoryIsLast
    <2>1. /\ Window \in Nat \ {0} /\ historyHead \in 0 .. Window - 1
          /\ Len(readings) \in Nat /\ history \in [0 .. Window - 1 -> Reading]
        BY QueryLogConstants DEF QueryLogIInv, QueryLogTypeOK
    <2>2. Window \in 1 .. Window /\ Window - i \in 1 .. Window /\ i + 1 \in 1 .. Window
        BY <2>1
    <2>3. \A j \in 1 .. Window :
             (historyHead + (j - 1)) % Window = Back(historyHead, Window - j + 1, Window)
        BY <2>1, <2>2, RingIndex
    <2>4. (historyHead + ((Window - i) - 1)) % Window = Back(historyHead, i + 1, Window)
        <3>1. Window - (Window - i) + 1 = i + 1
            BY <2>1
        <3> QED
            BY <2>2, <2>3, <3>1
    <2>5. Snapshot[Window - i] = history[Back(historyHead, i + 1, Window)]
        BY <2>2, <2>4 DEF Snapshot
    <2>6. Snapshot[Window - i] =
             IF Len(readings) - (i + 1) >= 1
             THEN Increase(readings[Len(readings) - (i + 1)], readings[Len(readings) - (i + 1) + 1])
             ELSE Zero
        BY <2>2, <2>5 DEF QueryLogIInv, WindowHoldsLast
    <2>7. /\ Len(readings) - (i + 1) >= 1 <=> Len(readings) - i >= 2
          /\ Len(readings) - (i + 1) = (Len(readings) - i) - 1
          /\ Len(readings) - (i + 1) + 1 = Len(readings) - i
        BY <2>1
    <2>8. Snapshot[Window - i] \in Reading
        BY <2>1, <2>2, <2>5, RingNext
    <2> QED
        BY <2>6, <2>7, <2>8
<1> QED
    BY <1>1, QueryLogInvariant, PTL

\* Counters and log agree about any number of queries (server.go:225-316).
THEOREM QueryLogCountersMatchLog == QueryLogSpec => []CountersMatchLog
<1>1. QueryLogIInv => CountersMatchLog
    BY DEF QueryLogIInv
<1> QED
    BY <1>1, QueryLogInvariant, PTL

-----------------------------------------------------------------------------
(* The rate limiter *)

USE DEF Idle, Bucket

\* What a dropped bucket brings covers the lead of a full bucket over one that
\* was idle for rateLimitIdleTTL, once more for every drop.
LEMMA GainFacts ==
  /\ Gain \in Nat
  /\ Gain >= Burst + 2 * MaxSkew - (IdleTTL + 1)
  /\ \A n \in Nat : Gain * n \in Nat /\ Gain * (n + 1) = Gain * n + Gain
<1>1. /\ Gain \in Nat
      /\ Gain >= Burst + 2 * MaxSkew - (IdleTTL + 1)
  BY LimiterConstants DEF Gain
<1>2. \A n \in Nat : Gain * n \in Nat /\ Gain * (n + 1) = Gain * n + Gain
  BY <1>1
<1> QED
  BY <1>1, <1>2

\* The empty limiter satisfies the inductive invariant (newRateLimiter).
LEMMA InitIInv == Init => IInv
<1> SUFFICES ASSUME Init PROVE IInv
  OBVIOUS
<1>1. TypeOK
  BY LimiterConstants DEF Init, TypeOK
<1>2. ReadingsRecent
  BY DEF Init, ReadingsRecent
<1>3. \A ip \in IPs : windowStart[ip] <= now /\ Balance(ip) /\ Earned(ip)
  <2> SUFFICES ASSUME NEW ip \in IPs
               PROVE  windowStart[ip] <= now /\ Balance(ip) /\ Earned(ip)
    OBVIOUS
  <2>1. windowStart[ip] = 0 /\ now = 0 /\ buckets[ip] = None /\ spent[ip] = 0
    BY DEF Init
  <2>2. Balance(ip)
    BY <2>1 DEF Balance
  <2>3. Earned(ip)
    BY <2>1 DEF Earned
  <2> QED
    BY <2>1, <2>2, <2>3
<1>4. \A ip \in IPs : spent[ip] = 0 => drops[ip] = 0
  BY DEF Init
<1>5. RateConforms
  <2> SUFFICES ASSUME NEW ip \in IPs
               PROVE  spent[ip] <= Burst + (now - windowStart[ip]) + MaxSkew
                                     + Gain * drops[ip]
    BY DEF RateConforms
  <2>1. spent[ip] = 0 /\ now = 0 /\ windowStart[ip] = 0 /\ drops[ip] = 0
    BY DEF Init
  <2>2. Gain * drops[ip] \in Nat
    BY <2>1, GainFacts
  <2> QED
    BY <2>1, <2>2, LimiterConstants
<1> QED
  BY <1>1, <1>2, <1>3, <1>4, <1>5 DEF IInv

\* What was granted so far when a bucket is missing: it has been earned, or
\* gained by drops, the one that may happen now included (cleanup,
\* ratelimit.go:102-108).
LEMMA GrantedWithoutBucket ==
  ASSUME IInv, NEW j \in IPs, NEW at \in Nat, at <= now, spent[j] > 0, Kept(at)[j] = None,
         NEW n \in Nat, n = IF buckets[j] # None THEN drops[j] + 1 ELSE drops[j]
  PROVE  spent[j] <= now - windowStart[j] + Gain * n
<1> DEFINE b == buckets[j]
           g == Gain * drops[j]
<1>1. /\ now \in Nat /\ b \in Bucket \cup {None} /\ spent[j] \in Nat
      /\ windowStart[j] \in Nat /\ Burst \in Nat /\ MaxSkew \in Nat
      /\ IdleTTL \in Nat /\ drops[j] \in Nat
  BY LimiterConstants DEF IInv, TypeOK
<1>2. Balance(j) /\ Earned(j)
  BY DEF IInv
<1>3. /\ Gain \in Nat /\ g \in Nat /\ Gain * (drops[j] + 1) = g + Gain
      /\ Gain >= Burst + 2 * MaxSkew - (IdleTTL + 1)
  BY <1>1, GainFacts
<1>4. CASE b = None
  BY <1>2, <1>4 DEF Earned
<1>5. CASE b # None /\ at - b.lastSeen > IdleTTL
  <2>1. /\ b.last = b.lastSeen /\ b.tokens >= -MaxSkew
        /\ spent[j] + b.tokens <= Burst + (b.last - windowStart[j]) + MaxSkew + g
    BY <1>2, <1>5 DEF Balance, Earned
  <2>2. b.tokens \in Int /\ b.last \in Nat /\ b.lastSeen \in Nat
    BY <1>1, <1>5
  <2>3. Gain * n = g + Gain
    BY <1>3, <1>5
  <2> HIDE DEF b, g
  <2>4. spent[j] <= now - windowStart[j] + (g + Gain)
    BY <1>1, <1>3, <1>5, <2>1, <2>2
  <2> QED
    BY <2>3, <2>4
<1> QED
  BY <1>4, <1>5 DEF Kept

\* What the mutex holder finds in a bucket before it pays: not above the
\* burst, not deeper in debt than the skew (allow, ratelimit.go:84-91).
LEMMA RefilledBounds ==
  ASSUME IInv, NEW t \in Threads, thread[t].pc = "lock",
         NEW ip \in IPs, ip = thread[t].ip,
         NEW at \in Nat, at = thread[t].at,
         NEW tokens, tokens = Refilled(Kept(at)[ip], at),
         NEW n \in Nat,
         n = IF Dropped(ip, at) /\ spent[ip] > 0 THEN drops[ip] + 1 ELSE drops[ip]
  PROVE  /\ tokens \in Int
         /\ tokens <= Burst
         /\ tokens >= -MaxSkew
         /\ tokens - at >= -now
         /\ spent[ip] > 0 =>
              spent[ip] + tokens <= Burst + (at - windowStart[ip]) + MaxSkew + Gain * n
<1> DEFINE b == buckets[ip]
<1>1. /\ now \in Nat /\ b \in Bucket \cup {None} /\ spent[ip] \in Nat
      /\ windowStart[ip] \in Nat /\ Cost \in Nat /\ Burst \in Nat /\ MaxSkew \in Nat
      /\ IdleTTL \in Nat /\ Gain * n \in Nat
  BY LimiterConstants, GainFacts DEF IInv, TypeOK
<1>2. at <= now /\ now - at <= MaxSkew
  BY DEF IInv, ReadingsRecent
<1>3. windowStart[ip] <= now /\ Balance(ip) /\ Earned(ip)
  BY DEF IInv
<1>4. CASE Kept(at)[ip] = None
  <2>1. tokens = Burst
    BY <1>4 DEF Refilled
  <2>2. spent[ip] > 0 => spent[ip] <= now - windowStart[ip] + Gain * n
    BY <1>2, <1>4, GrantedWithoutBucket DEF Dropped
  <2> QED
    BY <1>1, <1>2, <2>1, <2>2
<1>5. CASE Kept(at)[ip] # None
  <2>1. b # None /\ Kept(at)[ip] = b
    BY <1>5 DEF Kept
  <2>2. /\ b.tokens \in Int /\ b.last \in Nat
        /\ tokens = IF b.tokens + (at - b.last) < Burst THEN b.tokens + (at - b.last)
                                                       ELSE Burst
    BY <1>1, <2>1 DEF Refilled
  <2>3. n = drops[ip]
    BY <1>5 DEF Dropped
  <2>4. /\ b.last <= now /\ b.tokens <= Burst /\ b.tokens >= -MaxSkew
        /\ b.tokens - b.last >= -now
        /\ spent[ip] > 0 =>
              spent[ip] + b.tokens <= Burst + (b.last - windowStart[ip]) + MaxSkew + Gain * n
    BY <1>3, <2>1, <2>3 DEF Balance, Earned
  <2> HIDE DEF b
  <2> QED
    BY <1>1, <1>2, <2>2, <2>4
<1> QED
  BY <1>4, <1>5

\* The critical section of allow preserves the invariant.
LEMMA AllowIInv ==
  ASSUME IInv, NEW t \in Threads, Allow(t)
  PROVE  IInv'
<1> DEFINE ip == thread[t].ip
           at == thread[t].at
           tokens == Refilled(Kept(at)[ip], at)
           granted == tokens >= Cost
           more == [j \in IPs |-> IF Dropped(j, at) /\ spent[j] > 0 THEN drops[j] + 1 ELSE drops[j]]
           new == [tokens |-> IF granted THEN tokens - Cost ELSE tokens,
                   last |-> at, lastSeen |-> at]
<1>1. /\ thread[t].pc = "lock" /\ ip \in IPs /\ at \in Nat
      /\ buckets \in [IPs -> Bucket \cup {None}]
      /\ spent \in [IPs -> Nat] /\ windowStart \in [IPs -> Nat] /\ now \in Nat
      /\ Cost \in Nat \ {0} /\ Burst \in Nat /\ MaxSkew \in Nat
      /\ CleanupEvery \in Nat /\ nextCleanup \in Nat \cup {None} /\ None \notin Int
      /\ drops \in [IPs -> Nat] /\ more \in [IPs -> Nat]
  BY LimiterConstants DEF IInv, TypeOK, Allow, Left
<1>2. at <= now /\ now - at <= MaxSkew
  BY <1>1 DEF IInv, ReadingsRecent
<1>3. /\ tokens \in Int /\ tokens <= Burst /\ tokens >= -MaxSkew /\ tokens - at >= -now
      /\ spent[ip] > 0 =>
            spent[ip] + tokens <= Burst + (at - windowStart[ip]) + MaxSkew + Gain * more[ip]
  <2>1. more[ip] \in Nat
        /\ more[ip] = IF Dropped(ip, at) /\ spent[ip] > 0 THEN drops[ip] + 1 ELSE drops[ip]
    BY <1>1
  <2> HIDE DEF ip, at, tokens, more
  <2> QED BY <1>1, <2>1, RefilledBounds DEF ip, at, tokens
<1>4. /\ Kept(at) \in [IPs -> Bucket \cup {None}]
      /\ \A j \in IPs : Kept(at)[j] = buckets[j]
                        \/ /\ Kept(at)[j] = None
                           /\ buckets[j] # None
                           /\ at - buckets[j].lastSeen > IdleTTL
  BY <1>1 DEF Kept
<1>5. /\ buckets' = [Kept(at) EXCEPT ![ip] = new]
      /\ spent' = IF granted THEN [spent EXCEPT ![ip] = @ + Cost] ELSE spent
      /\ thread' = [thread EXCEPT ![t] = Idle]
      /\ now' = now /\ windowStart' = windowStart
      /\ nextCleanup' = IF nextCleanup = None \/ CleanupDue(at)
                        THEN at + CleanupEvery ELSE nextCleanup
      /\ drops' = more
  BY DEF Allow, Left
<1>11. \A j \in IPs :
         /\ drops[j] \in Nat /\ more[j] \in Nat
         /\ Gain * drops[j] \in Nat /\ Gain * more[j] \in Nat
         /\ Gain * more[j] >= Gain * drops[j]
         /\ spent[j] = 0 => more[j] = 0
         /\ spent[j] > 0 /\ Kept(at)[j] = None => spent[j] <= now - windowStart[j] + Gain * more[j]
         /\ Kept(at)[j] # None => more[j] = drops[j]
  <2> SUFFICES ASSUME NEW j \in IPs
               PROVE  /\ drops[j] \in Nat /\ more[j] \in Nat
                      /\ Gain * drops[j] \in Nat /\ Gain * more[j] \in Nat
                      /\ Gain * more[j] >= Gain * drops[j]
                      /\ spent[j] = 0 => more[j] = 0
                      /\ spent[j] > 0 /\ Kept(at)[j] = None =>
                            spent[j] <= now - windowStart[j] + Gain * more[j]
                      /\ Kept(at)[j] # None => more[j] = drops[j]
    OBVIOUS
  <2>1. /\ drops[j] \in Nat /\ more[j] \in Nat
        /\ more[j] = IF Dropped(j, at) /\ spent[j] > 0 THEN drops[j] + 1 ELSE drops[j]
        /\ spent[j] = 0 => drops[j] = 0
    BY <1>1 DEF IInv
  <2> HIDE DEF more
  <2>2. /\ Gain \in Nat /\ Gain * drops[j] \in Nat
        /\ Gain * (drops[j] + 1) = Gain * drops[j] + Gain
    BY <2>1, GainFacts
  <2>3. spent[j] = 0 => more[j] = 0
    BY <2>1
  <2>4. Gain * more[j] \in Nat /\ Gain * more[j] >= Gain * drops[j]
    <3>1. more[j] = drops[j] \/ more[j] = drops[j] + 1
      BY <2>1
    <3> QED
      BY <2>2, <3>1
  <2>5. spent[j] > 0 /\ Kept(at)[j] = None => spent[j] <= now - windowStart[j] + Gain * more[j]
    BY <1>1, <1>2, <2>1, GrantedWithoutBucket DEF Dropped
  <2>6. Kept(at)[j] # None => more[j] = drops[j]
    BY <2>1 DEF Dropped
  <2> QED
    BY <2>1, <2>2, <2>3, <2>4, <2>5, <2>6
<1> HIDE DEF tokens, more
<1>6. new \in Bucket /\ new # None
  BY <1>1, <1>3, LimiterConstants
<1> HIDE DEF ip, at, granted
<1>7. TypeOK'
  <2>1. nextCleanup' \in Nat \cup {None}
    BY <1>1, <1>5
  <2>2. buckets' \in [IPs -> Bucket \cup {None}]
    BY <1>4, <1>5, <1>6
  <2>3. spent' \in [IPs -> Nat]
    BY <1>1, <1>5
  <2>4. thread' \in [Threads -> {Idle} \cup [pc : {"lock"}, ip : IPs, at : Nat]]
    BY <1>5 DEF IInv, TypeOK
  <2>5. drops' \in [IPs -> Nat]
    BY <1>1, <1>5
  <2> QED BY <1>1, <1>5, <2>1, <2>2, <2>3, <2>4, <2>5 DEF TypeOK
<1>8. ReadingsRecent'
  BY <1>5 DEF IInv, TypeOK, ReadingsRecent, ip, at
<1>9. ASSUME NEW j \in IPs PROVE windowStart[j] <= now /\ Balance(j)' /\ Earned(j)'
  <2>1. windowStart[j] <= now /\ Balance(j) /\ Earned(j)
    BY DEF IInv
  <2>2. CASE j = ip
    <3>1. buckets'[j] = new /\ spent'[j] = IF granted THEN spent[ip] + Cost ELSE spent[ip]
      BY <1>1, <1>4, <1>5, <2>2
    <3>2. granted <=> tokens >= Cost
      BY DEF granted
    <3>3. at \in Nat /\ tokens \in Int
      BY <1>1, <1>3
    <3>4. Balance(j)'
      BY <1>1, <1>2, <1>3, <1>5, <1>6, <3>1, <3>2, <3>3 DEF Balance
    <3>5. Earned(j)'
      <4> DEFINE g == Gain * more[ip]
      <4>1. spent[ip] = 0 => at >= windowStart[ip] - MaxSkew
        BY <1>1, <1>2, <2>1, <2>2
      <4>2. g \in Nat /\ Gain * drops'[j] = g
        BY <1>1, <1>5, <1>11, <2>2
      <4>3. spent[ip] > 0 => spent[ip] + tokens <= Burst + (at - windowStart[ip]) + MaxSkew + g
        BY <1>3
      <4> HIDE DEF g
      <4>4. new.tokens = IF granted THEN tokens - Cost ELSE tokens
        OBVIOUS
      <4>5. new.last = at
        OBVIOUS
      <4> HIDE DEF new
      <4>6. spent'[j] > 0 => spent'[j] + new.tokens
                               <= Burst + (at - windowStart[ip]) + MaxSkew + g
        BY <1>1, <1>2, <1>3, <3>1, <3>2, <3>3, <4>1, <4>2, <4>3, <4>4
      <4> QED
        BY <1>5, <1>6, <2>2, <3>1, <4>2, <4>5, <4>6 DEF Earned
    <3> QED BY <2>1, <3>4, <3>5
  <2>3. CASE j # ip
    <3>1. buckets'[j] = Kept(at)[j] /\ spent'[j] = spent[j]
      BY <1>1, <1>4, <1>5, <2>3
    <3>2. drops'[j] = more[j]
      BY <1>5
    <3>3. CASE Kept(at)[j] # None
      <4>1. buckets'[j] = buckets[j] /\ drops'[j] = drops[j]
        BY <1>4, <1>11, <3>1, <3>2, <3>3
      <4> QED
        BY <1>5, <2>1, <3>1, <4>1 DEF Balance, Earned
    <3>4. CASE Kept(at)[j] = None
      <4>1. Balance(j)'
        BY <3>1, <3>4 DEF Balance
      <4>2. spent[j] > 0 => spent[j] <= now - windowStart[j] + Gain * more[j]
        BY <1>11, <3>4
      <4>3. Earned(j)'
        BY <1>5, <3>1, <3>2, <3>4, <4>2 DEF Earned
      <4> QED BY <2>1, <4>1, <4>3
    <3> QED BY <3>3, <3>4
  <2> QED BY <2>2, <2>3
<1>10. RateConforms'
  <2> SUFFICES ASSUME NEW j \in IPs
               PROVE  spent'[j] <= Burst + (now - windowStart[j]) + MaxSkew + Gain * drops'[j]
    BY <1>5 DEF RateConforms
  <2> DEFINE g == Gain * more[j]
  <2>1. spent[j] <= Burst + (now - windowStart[j]) + MaxSkew + g /\ windowStart[j] <= now
    <3>1. spent[j] <= Burst + (now - windowStart[j]) + MaxSkew + Gain * drops[j]
          /\ windowStart[j] <= now
      BY DEF IInv, RateConforms
    <3> QED BY <1>1, <1>11, <3>1
  <2>2. g \in Nat /\ Gain * drops'[j] = g
    BY <1>5, <1>11
  <2>3. j = ip /\ spent[ip] > 0 =>
          spent[ip] + tokens <= Burst + (at - windowStart[ip]) + MaxSkew + g
    BY <1>3
  <2> HIDE DEF g
  <2>4. CASE j = ip /\ granted
    <3>1. tokens >= Cost /\ spent'[j] = spent[ip] + Cost
      BY <1>1, <1>5, <2>4 DEF granted
    <3> QED BY <1>1, <1>2, <1>3, <2>1, <2>2, <2>3, <2>4, <3>1
  <2>5. CASE ~(j = ip /\ granted)
    BY <1>1, <1>5, <2>1, <2>2, <2>5
  <2> QED BY <2>4, <2>5
<1>12. ASSUME NEW j \in IPs PROVE spent'[j] = 0 => drops'[j] = 0
  <2>1. spent'[j] = 0 => spent[j] = 0
    BY <1>1, <1>5
  <2> QED BY <1>5, <1>11, <2>1
<1> QED BY <1>5, <1>7, <1>8, <1>9, <1>10, <1>12 DEF IInv

\* Every step preserves the invariant.
LEMMA NextIInv == IInv /\ [Next]_vars => IInv'
<1> SUFFICES ASSUME IInv, [Next]_vars PROVE IInv'
  OBVIOUS
<1> USE LimiterConstants
<1>1. CASE Tick
  <2>1. TypeOK' /\ ReadingsRecent'
    BY <1>1 DEF Tick, IInv, TypeOK, ReadingsRecent
  <2>2. ASSUME NEW ip \in IPs
        PROVE  /\ (windowStart[ip] <= now /\ Balance(ip) /\ Earned(ip))'
               /\ spent'[ip] <= Burst + (now' - windowStart'[ip]) + MaxSkew + Gain * drops'[ip]
               /\ spent'[ip] = 0 => drops'[ip] = 0
    <3>1. drops[ip] \in Nat /\ Gain * drops[ip] \in Nat
      BY GainFacts DEF IInv, TypeOK
    <3>2. /\ now \in Nat /\ now' = now + 1 /\ windowStart[ip] \in Nat
          /\ UNCHANGED <<buckets, spent, windowStart, drops>>
          /\ spent[ip] \in Nat /\ buckets[ip] \in Bucket \cup {None}
      BY <1>1 DEF Tick, IInv, TypeOK
    <3>3. /\ windowStart[ip] <= now /\ Balance(ip) /\ Earned(ip)
          /\ spent[ip] <= Burst + (now - windowStart[ip]) + MaxSkew + Gain * drops[ip]
          /\ spent[ip] = 0 => drops[ip] = 0
      BY DEF IInv, RateConforms
    <3> QED BY <3>1, <3>2, <3>3 DEF Balance, Earned
  <2> QED BY <2>1, <2>2 DEF IInv, RateConforms
<1>2. ASSUME NEW t \in Threads, NEW ip \in IPs, ReadClock(t, ip) PROVE IInv'
  <2>1. TypeOK' /\ ReadingsRecent'
    BY <1>2 DEF ReadClock, IInv, TypeOK, ReadingsRecent
  <2> QED BY <1>2, <2>1 DEF ReadClock, IInv, Balance, Earned, RateConforms
<1>3. ASSUME NEW t \in Threads, Allow(t) PROVE IInv'
  BY <1>3, AllowIInv
<1>4. ASSUME NEW ip \in IPs, StartWindow(ip) PROVE IInv'
  <2>1. TypeOK' /\ ReadingsRecent'
    BY <1>4 DEF StartWindow, IInv, TypeOK, ReadingsRecent
  <2>2. ASSUME NEW j \in IPs
        PROVE  (windowStart[j] <= now /\ Balance(j) /\ Earned(j))' /\ (spent'[j] = 0 => drops'[j] = 0)
    BY <1>4 DEF StartWindow, IInv, TypeOK, Balance, Earned
  <2>3. RateConforms'
    <3> SUFFICES ASSUME NEW j \in IPs
                 PROVE  spent'[j] <= Burst + (now' - windowStart'[j]) + MaxSkew + Gain * drops'[j]
      BY DEF RateConforms
    <3>1. /\ now' = now /\ now \in Nat /\ spent \in [IPs -> Nat] /\ windowStart \in [IPs -> Nat]
          /\ drops \in [IPs -> Nat] /\ spent' = [spent EXCEPT ![ip] = 0]
          /\ windowStart' = [windowStart EXCEPT ![ip] = now]
          /\ drops' = [drops EXCEPT ![ip] = 0]
      BY <1>4 DEF StartWindow, IInv, TypeOK
    <3>2. CASE j = ip
      <4>1. spent'[j] = 0 /\ windowStart'[j] = now /\ drops'[j] = 0
        BY <3>1, <3>2
      <4>2. Gain * drops'[j] \in Nat
        BY <4>1, GainFacts
      <4> QED BY <3>1, <4>1, <4>2
    <3>3. CASE j # ip
      <4>1. spent'[j] = spent[j] /\ windowStart'[j] = windowStart[j] /\ drops'[j] = drops[j]
        BY <3>1, <3>3
      <4>2. spent[j] <= Burst + (now - windowStart[j]) + MaxSkew + Gain * drops[j]
        BY DEF IInv, RateConforms
      <4> QED BY <3>1, <4>1, <4>2
    <3> QED BY <3>2, <3>3
  <2> QED BY <2>1, <2>2, <2>3 DEF IInv
<1>5. CASE UNCHANGED vars
  BY <1>5 DEF vars, IInv, TypeOK, ReadingsRecent, Balance, Earned, RateConforms
<1> QED BY <1>1, <1>2, <1>3, <1>4, <1>5 DEF Next

\* The inductive invariant holds in every reachable state.
THEOREM LimiterInvariant == Spec => []IInv
  BY InitIInv, NextIInv, PTL DEF Spec

\* Type correctness of the limiter.
THEOREM LimiterTypeOK == Spec => []TypeOK
<1>1. IInv => TypeOK
  BY DEF IInv
<1> QED BY <1>1, LimiterInvariant, PTL

\* No client is ever granted more, over any interval, than burst and rate
\* allow and what it gains by the drops of its bucket, for any settings that
\* config.validate accepts (allow and cleanup, ratelimit.go:71-108).
THEOREM LimiterRateConforms == Spec => []RateConforms
<1>1. IInv => RateConforms
  BY DEF IInv
<1> QED BY <1>1, LimiterInvariant, PTL

\* Clock readings processed out of order put a bucket in debt by at most the
\* skew of one reading.
THEOREM LimiterDebtBounded == Spec => []DebtBounded
<1>1. IInv => DebtBounded
  BY DEF IInv, Balance, DebtBounded
<1> QED BY <1>1, LimiterInvariant, PTL

\* A client that let one token's time (and the skew) pass is granted its next
\* query (allow, ratelimit.go:84-100).
THEOREM LimiterQuietClientServed == Spec => QuietClientServed
<1> DEFINE A == \A t \in Threads :
          /\ thread[t].pc = "lock" /\ thread'[t] = Idle
          /\ LET b == buckets[thread[t].ip]
             IN  b # None => thread[t].at - b.last >= Cost + MaxSkew
          => spent'[thread[t].ip] = spent[thread[t].ip] + Cost
<1>1. IInv /\ [Next]_vars => [A]_vars
  <2> SUFFICES ASSUME IInv, Next, NEW t \in Threads,
                      thread[t].pc = "lock", thread'[t] = Idle,
                      LET b == buckets[thread[t].ip]
                      IN  b # None => thread[t].at - b.last >= Cost + MaxSkew
               PROVE  spent'[thread[t].ip] = spent[thread[t].ip] + Cost
    OBVIOUS
  <2>1. Allow(t)
    <3>1. thread'[t] # thread[t]
      <4>1. Idle.pc = "idle"
        OBVIOUS
      <4> QED BY <4>1
    <3>2. thread \in [Threads -> {Idle} \cup [pc : {"lock"}, ip : IPs, at : Nat]]
      BY DEF IInv, TypeOK
    <3>3. ASSUME NEW u \in Threads, NEW ip \in IPs, ReadClock(u, ip) PROVE FALSE
      <4>1. thread[u] = Idle /\ thread' = [thread EXCEPT ![u] = [pc |-> "lock", ip |-> ip, at |-> now]]
        BY <3>3 DEF ReadClock
      <4>2. u = t
        BY <3>1, <3>2, <4>1
      <4> QED BY <4>1, <4>2
    <3>4. ASSUME NEW u \in Threads, Allow(u) PROVE u = t
      <4>1. thread' = [thread EXCEPT ![u] = Idle]
        BY <3>4 DEF Allow
      <4> QED BY <3>1, <3>2, <4>1
    <3>5. ~Tick /\ \A ip \in IPs : ~StartWindow(ip)
      BY <3>1 DEF Tick, StartWindow
    <3> QED BY <3>3, <3>4, <3>5 DEF Next
  <2> DEFINE ip == thread[t].ip
             at == thread[t].at
             tokens == Refilled(Kept(at)[ip], at)
  <2>2. /\ ip \in IPs /\ at \in Nat /\ spent \in [IPs -> Nat]
        /\ buckets[ip] \in Bucket \cup {None}
        /\ Cost \in Nat /\ Burst \in Nat /\ MaxSkew \in Nat
    BY LimiterConstants DEF IInv, TypeOK
  <2>3. tokens >= Cost
    <3>1. CASE Kept(at)[ip] = None
      BY <2>2, <3>1, AtLeastOneToken DEF Refilled
    <3>2. CASE Kept(at)[ip] # None
      <4>1. Kept(at)[ip] = buckets[ip] /\ buckets[ip] # None
        BY <2>2, <3>2 DEF Kept
      <4>2. buckets[ip].tokens >= -MaxSkew
        BY <2>2, <4>1 DEF IInv, Balance
      <4> QED BY <2>2, <4>1, <4>2, AtLeastOneToken DEF Refilled
    <3> QED BY <3>1, <3>2
  <2> QED BY <2>1, <2>2, <2>3 DEF Allow, Left
<1>2. QED
  BY <1>1, LimiterInvariant, PTL DEF Spec, QuietClientServed
=============================================================================
