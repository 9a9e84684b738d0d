--------------------------- MODULE ResolverProofs ---------------------------
(***************************************************************************)
(* Proofs about Resolver: its inductive invariant IInv holds of every      *)
(* reachable state, for any sets of queries, prefetch goroutines and keys  *)
(* and any setting of the options, and the safety properties follow.       *)
(*                                                                         *)
(* One lemma per action says that it preserves IInv, with one step per     *)
(* conjunct of the invariant; NextIInv collects them.                      *)
(***************************************************************************)
EXTENDS Resolver, FiniteSetTheorems, TLAPS

USE ResolverConstants DEF Looking, LeadPCs, LookupPCs, PCs, Objects, Data, Outcomes

\* A rejected query (server.go:199-225) touches nothing but its own reply.
LEMMA RejectIInv ==
  ASSUME IInv, NEW q \in Queries, Reject(q)
  PROVE  IInv'
<1>1. TypeOK'
  BY SMTT(30) DEF Reject, IInv, TypeOK, FetchPCs, Reply, Send
<1>2. TableMatchesLeaders'
  BY DEF Reject, IInv, TypeOK, Reply, Send, TableMatchesLeaders
<1>3. CallHasResult'
  BY DEF Reject, IInv, TypeOK, Reply, Send, CallHasResult, CloneIsPrivate
<1>4. WaitsForOwnKey'
  BY DEF Reject, IInv, TypeOK, Reply, Send, WaitsForOwnKey, TableMatchesLeaders
<1>5. WaiterHasLeader'
  BY DEF Reject, IInv, TypeOK, Reply, Send, WaiterHasLeader, TableMatchesLeaders,
       WaitsForOwnKey
<1>6. ReplyHasMessage'
  BY DEF Reject, IInv, TypeOK, Reply, Send, ReplyHasMessage, CallHasResult, WaitsForOwnKey
<1>7. AnswersTheQuestion'
  BY DEF Reject, IInv, TypeOK, Reply, Send, AnswersTheQuestion, CallHasResult,
       WaitsForOwnKey, ReplyHasMessage
<1>8. LookupHoldsSlot'
  BY DEF Reject, IInv, TypeOK, Reply, Send, LookupHoldsSlot
<1>9. CloneIsPrivate'
  BY DEF Reject, IInv, TypeOK, Reply, Send, CloneIsPrivate, CallHasResult,
       WaitsForOwnKey, ReplyHasMessage
<1>10. CachedReplyKeepsID'
  BY DEF Reject, IInv, TypeOK, Reply, Send, CachedReplyKeepsID, CloneIsPrivate
<1> QED
  BY <1>1, <1>2, <1>3, <1>4, <1>5, <1>6, <1>7, <1>8, <1>9, <1>10 DEF IInv

\* A blocked name or a local record (server.go:229-268) ends the query
\* without touching the cache or the inflight table.
LEMMA AnswerLocallyIInv ==
  ASSUME IInv, NEW q \in Queries, AnswerLocally(q)
  PROVE  IInv'
<1>1. TypeOK'
  BY DEF AnswerLocally, IInv, TypeOK, Reply, Send
<1>2. TableMatchesLeaders'
  BY DEF AnswerLocally, IInv, TypeOK, Reply, Send, TableMatchesLeaders
<1>3. CallHasResult'
  BY DEF AnswerLocally, IInv, TypeOK, Reply, Send, CallHasResult, CloneIsPrivate
<1>4. WaitsForOwnKey'
  BY DEF AnswerLocally, IInv, TypeOK, Reply, Send, WaitsForOwnKey, TableMatchesLeaders
<1>5. WaiterHasLeader'
  BY DEF AnswerLocally, IInv, TypeOK, Reply, Send, WaiterHasLeader,
       TableMatchesLeaders, WaitsForOwnKey
<1>6. ReplyHasMessage'
  BY DEF AnswerLocally, IInv, TypeOK, Reply, Send, ReplyHasMessage, CallHasResult,
       WaitsForOwnKey
<1>7. AnswersTheQuestion'
  BY DEF AnswerLocally, IInv, TypeOK, Reply, Send, AnswersTheQuestion, CallHasResult,
       WaitsForOwnKey, ReplyHasMessage
<1>8. LookupHoldsSlot'
  BY DEF AnswerLocally, IInv, TypeOK, Reply, Send, LookupHoldsSlot
<1>9. CloneIsPrivate'
  BY DEF AnswerLocally, IInv, TypeOK, Reply, Send, CloneIsPrivate, CallHasResult,
       WaitsForOwnKey, ReplyHasMessage
<1>10. CachedReplyKeepsID'
  BY DEF AnswerLocally, IInv, TypeOK, Reply, Send, CachedReplyKeepsID, CloneIsPrivate
<1> QED
  BY <1>1, <1>2, <1>3, <1>4, <1>5, <1>6, <1>7, <1>8, <1>9, <1>10 DEF IInv

\* The negative cache (resolver.go:52-55) is only read.
LEMMA CheckNegativeIInv ==
  ASSUME IInv, NEW q \in Queries, CheckNegative(q)
  PROVE  IInv'
<1>1. TypeOK'
  BY DEF CheckNegative, IInv, TypeOK
<1>2. TableMatchesLeaders'
  BY DEF CheckNegative, IInv, TypeOK, TableMatchesLeaders
<1>3. CallHasResult'
  BY DEF CheckNegative, IInv, TypeOK, CallHasResult, CloneIsPrivate
<1>4. WaitsForOwnKey'
  BY DEF CheckNegative, IInv, TypeOK, WaitsForOwnKey, TableMatchesLeaders
<1>5. WaiterHasLeader'
  BY DEF CheckNegative, IInv, TypeOK, WaiterHasLeader, TableMatchesLeaders, WaitsForOwnKey
<1>6. ReplyHasMessage'
  BY DEF CheckNegative, IInv, TypeOK, ReplyHasMessage, CallHasResult, WaitsForOwnKey
<1>7. AnswersTheQuestion'
  BY DEF CheckNegative, IInv, TypeOK, AnswersTheQuestion, CallHasResult,
       WaitsForOwnKey, ReplyHasMessage
<1>8. LookupHoldsSlot'
  BY DEF CheckNegative, IInv, TypeOK, LookupHoldsSlot
<1>9. CloneIsPrivate'
  BY DEF CheckNegative, IInv, TypeOK, CloneIsPrivate, CallHasResult, WaitsForOwnKey,
       ReplyHasMessage
<1>10. CachedReplyKeepsID'
  BY DEF CheckNegative, IInv, TypeOK, CachedReplyKeepsID, CloneIsPrivate
<1> QED
  BY <1>1, <1>2, <1>3, <1>4, <1>5, <1>6, <1>7, <1>8, <1>9, <1>10 DEF IInv

\* A hit (resolver.go:56-59) gives the query a clone of its own, named by the
\* query: no other query can answer with it.
LEMMA CacheHitIInv ==
  ASSUME IInv, NEW q \in Queries, CacheHit(q)
  PROVE  IInv'
<1>1. TypeOK'
  <2> DEFINE entry == positive[key[q]]
  <2>1. /\ entry \in Objects /\ heap' = [heap EXCEPT ![q] = heap[entry]]
        /\ MaybePrefetch(key[q], entry)
        /\ pc' = [pc EXCEPT ![q] = "setid"] /\ resp' = [resp EXCEPT ![q] = q]
        /\ UNCHANGED <<key, positive, negative, inflight, leader, call, sem, outcome, sent>>
    BY DEF CacheHit, IInv, TypeOK
  <2>2. heap' \in [Objects -> [id : Queries \cup {None}, data : Data]]
    BY <2>1 DEF IInv, TypeOK
  <2>3. /\ flagged' \subseteq Objects
        /\ fetch' \in [Prefetchers ->
              [pc : FetchPCs, key : Keys \cup {None}, entry : Objects \cup {None}]]
    <3> HIDE DEF entry
    <3>1. CASE UNCHANGED <<flagged, fetch>>
      BY <3>1 DEF IInv, TypeOK
    <3>2. ASSUME NEW p \in Prefetchers, flagged' = flagged \cup {entry},
                 fetch' = [fetch EXCEPT ![p] = [pc |-> FirstPrefetchHop(key[q]),
                                                key |-> key[q], entry |-> entry]]
          PROVE  /\ flagged' \subseteq Objects
                 /\ fetch' \in [Prefetchers ->
                      [pc : FetchPCs, key : Keys \cup {None}, entry : Objects \cup {None}]]
      <4>1. key[q] \in Keys /\ FirstPrefetchHop(key[q]) \in FetchPCs
        BY DEF IInv, TypeOK, FirstPrefetchHop, FetchPCs
      <4> QED
        BY <2>1, <3>2, <4>1 DEF IInv, TypeOK
    <3> QED
      BY <2>1, <3>1, <3>2 DEF MaybePrefetch
  <2>4. pc' \in [Queries -> PCs] /\ resp' \in [Queries -> Queries \cup {None}]
    BY <2>1 DEF IInv, TypeOK
  <2> QED
    BY <2>1, <2>2, <2>3, <2>4 DEF IInv, TypeOK
<1>2. TableMatchesLeaders'
  BY DEF CacheHit, IInv, TypeOK, TableMatchesLeaders
<1>3. CallHasResult'
  BY DEF CacheHit, IInv, TypeOK, CallHasResult, CloneIsPrivate
<1>4. WaitsForOwnKey'
  BY DEF CacheHit, IInv, TypeOK, WaitsForOwnKey, TableMatchesLeaders
<1>5. WaiterHasLeader'
  BY DEF CacheHit, IInv, TypeOK, WaiterHasLeader, TableMatchesLeaders, WaitsForOwnKey
<1>6. ReplyHasMessage'
  BY DEF CacheHit, IInv, TypeOK, ReplyHasMessage, CallHasResult, WaitsForOwnKey
<1>7. AnswersTheQuestion'
  BY DEF CacheHit, IInv, TypeOK, AnswersTheQuestion, CallHasResult, WaitsForOwnKey,
       ReplyHasMessage
<1>8. LookupHoldsSlot'
  BY DEF CacheHit, IInv, TypeOK, LookupHoldsSlot
<1>9. CloneIsPrivate'
  BY DEF CacheHit, IInv, TypeOK, CloneIsPrivate, CallHasResult, WaitsForOwnKey,
       ReplyHasMessage
<1>10. CachedReplyKeepsID'
  BY DEF CacheHit, IInv, TypeOK, CachedReplyKeepsID, CloneIsPrivate
<1> QED
  BY <1>1, <1>2, <1>3, <1>4, <1>5, <1>6, <1>7, <1>8, <1>9, <1>10 DEF IInv

\* A miss (resolver.go:56-59) only moves the query on.
LEMMA CacheMissIInv ==
  ASSUME IInv, NEW q \in Queries, CacheMiss(q)
  PROVE  IInv'
<1>1. TypeOK'
  BY DEF CacheMiss, IInv, TypeOK
<1>2. TableMatchesLeaders'
  BY DEF CacheMiss, IInv, TypeOK, TableMatchesLeaders
<1>3. CallHasResult'
  BY DEF CacheMiss, IInv, TypeOK, CallHasResult, CloneIsPrivate
<1>4. WaitsForOwnKey'
  BY DEF CacheMiss, IInv, TypeOK, WaitsForOwnKey, TableMatchesLeaders
<1>5. WaiterHasLeader'
  BY DEF CacheMiss, IInv, TypeOK, WaiterHasLeader, TableMatchesLeaders, WaitsForOwnKey
<1>6. ReplyHasMessage'
  BY DEF CacheMiss, IInv, TypeOK, ReplyHasMessage, CallHasResult, WaitsForOwnKey
<1>7. AnswersTheQuestion'
  BY DEF CacheMiss, IInv, TypeOK, AnswersTheQuestion, CallHasResult, WaitsForOwnKey,
       ReplyHasMessage
<1>8. LookupHoldsSlot'
  BY DEF CacheMiss, IInv, TypeOK, LookupHoldsSlot
<1>9. CloneIsPrivate'
  BY DEF CacheMiss, IInv, TypeOK, CloneIsPrivate, CallHasResult, WaitsForOwnKey,
       ReplyHasMessage
<1>10. CachedReplyKeepsID'
  BY DEF CacheMiss, IInv, TypeOK, CachedReplyKeepsID, CloneIsPrivate
<1> QED
  BY <1>1, <1>2, <1>3, <1>4, <1>5, <1>6, <1>7, <1>8, <1>9, <1>10 DEF IInv

\* LoadOrStore (resolver.go:61-67): either nobody led the key, and the query
\* now does, or it waits for the leader of its own key, which the table says is
\* still on its way.
LEMMA JoinIInv ==
  ASSUME IInv, NEW q \in Queries, Join(q)
  PROVE  IInv'
<1>1. TypeOK'
  <2>1. key[q] \in Keys /\ inflight[key[q]] \in Queries \cup {None}
    BY DEF IInv, TypeOK
  <2>2. CASE inflight[key[q]] = None
    <3>1. /\ inflight' = [inflight EXCEPT ![key[q]] = q] /\ leader' = leader
          /\ pc' = [pc EXCEPT ![q] = "acquire"]
      BY <2>2 DEF Join
    <3>2. /\ inflight' \in [Keys -> Queries \cup {None}] /\ pc' \in [Queries -> PCs]
      BY <2>1, <3>1 DEF IInv, TypeOK
    <3> QED
      BY <3>1, <3>2 DEF Join, IInv, TypeOK
  <2>3. CASE inflight[key[q]] # None
    <3>1. /\ leader' = [leader EXCEPT ![q] = inflight[key[q]]] /\ inflight' = inflight
          /\ pc' = [pc EXCEPT ![q] = "wait"]
      BY <2>3 DEF Join
    <3>2. leader' \in [Queries -> Queries \cup {None}] /\ pc' \in [Queries -> PCs]
      BY <2>1, <3>1 DEF IInv, TypeOK
    <3> QED
      BY <3>1, <3>2 DEF Join, IInv, TypeOK
  <2> QED
    BY <2>2, <2>3
<1>2. TableMatchesLeaders'
  <2>1. pc[q] = "join" /\ key' = key /\ key[q] \in Keys
    BY DEF Join, IInv, TypeOK
  <2>2. CASE inflight[key[q]] = None
    <3>1. /\ inflight' = [inflight EXCEPT ![key[q]] = q]
          /\ pc' = [pc EXCEPT ![q] = "acquire"]
      BY <2>2 DEF Join
    <3>2. \A r \in Queries : pc[r] \in LeadPCs \ {"close"} => key[r] # key[q]
      BY <2>2 DEF IInv, TableMatchesLeaders
    <3>3. ASSUME NEW k \in Keys, inflight'[k] # None
          PROVE  key[inflight'[k]] = k /\ pc'[inflight'[k]] \in LeadPCs \ {"close"}
      <4>1. CASE k = key[q]
        BY <3>1, <4>1 DEF IInv, TypeOK
      <4>2. CASE k # key[q]
        <5>1. inflight'[k] = inflight[k] /\ inflight[k] \in Queries
          BY <3>1, <3>3, <4>2 DEF IInv, TypeOK
        <5>2. key[inflight[k]] = k /\ pc[inflight[k]] \in LeadPCs \ {"close"}
          BY <3>3, <5>1 DEF IInv, TableMatchesLeaders
        <5>3. inflight[k] # q
          BY <4>2, <5>2
        <5> QED
          BY <3>1, <5>1, <5>2, <5>3 DEF IInv, TypeOK
      <4> QED
        BY <4>1, <4>2
    <3>4. ASSUME NEW r \in Queries, pc'[r] \in LeadPCs \ {"close"}
          PROVE  inflight'[key[r]] = r
      BY <2>1, <3>1, <3>2, <3>4 DEF IInv, TypeOK, TableMatchesLeaders
    <3> QED
      BY <2>1, <3>3, <3>4 DEF TableMatchesLeaders
  <2>3. CASE inflight[key[q]] # None
    <3>1. inflight' = inflight /\ pc' = [pc EXCEPT ![q] = "wait"]
      BY <2>3 DEF Join
    <3>2. \A r \in Queries : pc[r] \in LeadPCs \/ pc'[r] \in LeadPCs => pc'[r] = pc[r]
      BY <2>1, <3>1 DEF IInv, TypeOK
    <3>3. \A k \in Keys : inflight[k] # None => inflight[k] \in Queries
      BY DEF IInv, TypeOK
    <3> QED
      BY <2>1, <3>1, <3>2, <3>3 DEF IInv, TableMatchesLeaders
  <2> QED
    BY <2>2, <2>3
<1>3. CallHasResult'
  BY DEF Join, IInv, TypeOK, CallHasResult, CloneIsPrivate
<1>4. WaitsForOwnKey'
  BY DEF Join, IInv, TypeOK, WaitsForOwnKey, TableMatchesLeaders
<1>5. WaiterHasLeader'
  <2>1. pc[q] = "join" /\ UNCHANGED <<key, call>> /\ key[q] \in Keys
    BY DEF Join, IInv, TypeOK
  <2>2. \A r \in Queries : pc[r] \in LeadPCs => pc'[r] = pc[r]
    BY <2>1 DEF Join, IInv, TypeOK
  <2>3. CASE inflight[key[q]] = None
    <3>1. leader' = leader /\ pc' = [pc EXCEPT ![q] = "acquire"]
      BY <2>3 DEF Join
    <3> QED
      BY <2>1, <2>2, <3>1 DEF IInv, TypeOK, WaiterHasLeader
  <2>4. CASE inflight[key[q]] # None
    <3>1. leader' = [leader EXCEPT ![q] = inflight[key[q]]] /\ pc' = [pc EXCEPT ![q] = "wait"]
      BY <2>4 DEF Join
    <3>2. inflight[key[q]] \in Queries /\ pc[inflight[key[q]]] \in LeadPCs
      BY <2>1, <2>4 DEF IInv, TypeOK, TableMatchesLeaders
    <3>3. ASSUME NEW r \in Queries, pc'[r] = "wait"
          PROVE  /\ leader'[r] # None
                 /\ call[leader'[r]].done \/ pc'[leader'[r]] \in LeadPCs
      <4>1. CASE r = q
        BY <2>2, <3>1, <3>2, <4>1 DEF IInv, TypeOK
      <4>2. CASE r # q
        <5>1. pc[r] = "wait" /\ leader'[r] = leader[r]
          BY <3>1, <3>3, <4>2 DEF IInv, TypeOK
        <5> QED
          BY <2>2, <5>1 DEF IInv, TypeOK, WaiterHasLeader
      <4> QED
        BY <4>1, <4>2
    <3> QED
      BY <2>1, <3>3 DEF WaiterHasLeader
  <2> QED
    BY <2>3, <2>4
<1>6. ReplyHasMessage'
  BY DEF Join, IInv, TypeOK, ReplyHasMessage, CallHasResult, WaitsForOwnKey
<1>7. AnswersTheQuestion'
  BY DEF Join, IInv, TypeOK, AnswersTheQuestion, CallHasResult, WaitsForOwnKey,
       ReplyHasMessage
<1>8. LookupHoldsSlot'
  <2>1. /\ pc[q] = "join" /\ sem' = sem
        /\ pc' = [pc EXCEPT ![q] = IF inflight[key[q]] = None THEN "acquire" ELSE "wait"]
    BY DEF Join
  <2>2. /\ {r \in Queries : pc'[r] \in LookupPCs} = {r \in Queries : pc[r] \in LookupPCs}
        /\ \A r \in Queries : pc[r] \in LookupPCs \cup {"finish", "release"} => pc'[r] = pc[r]
    BY <2>1 DEF IInv, TypeOK
  <2> QED
    BY <2>1, <2>2 DEF IInv, LookupHoldsSlot
<1>9. CloneIsPrivate'
  BY DEF Join, IInv, TypeOK, CloneIsPrivate, CallHasResult, WaitsForOwnKey,
       ReplyHasMessage
<1>10. CachedReplyKeepsID'
  BY DEF Join, IInv, TypeOK, CachedReplyKeepsID, CloneIsPrivate
<1> QED
  BY <1>1, <1>2, <1>3, <1>4, <1>5, <1>6, <1>7, <1>8, <1>9, <1>10 DEF IInv

\* A closed channel (resolver.go:64-66) publishes an error or a message, and
\* the message belongs to the leader of the same key.
LEMMA WakeIInv ==
  ASSUME IInv, NEW q \in Queries, Wake(q)
  PROVE  IInv'
<1>1. TypeOK'
  <2>1. /\ leader[q] \in Queries
        /\ pc' = [pc EXCEPT ![q] = IF call[leader[q]].err THEN "fail" ELSE "setid"]
        /\ resp' = [resp EXCEPT ![q] = call[leader[q]].msg]
    BY DEF Wake, IInv, TypeOK, WaitsForOwnKey
  <2>2. call[leader[q]].msg \in Queries \cup {None}
    BY <2>1 DEF IInv, TypeOK
  <2>3. pc' \in [Queries -> PCs] /\ resp' \in [Queries -> Queries \cup {None}]
    BY <2>1, <2>2 DEF IInv, TypeOK
  <2> QED
    BY <2>3 DEF Wake, IInv, TypeOK
<1>2. TableMatchesLeaders'
  BY DEF Wake, IInv, TypeOK, TableMatchesLeaders
<1>3. CallHasResult'
  BY DEF Wake, IInv, TypeOK, CallHasResult, CloneIsPrivate
<1>4. WaitsForOwnKey'
  BY DEF Wake, IInv, TypeOK, WaitsForOwnKey, TableMatchesLeaders
<1>5. WaiterHasLeader'
  BY DEF Wake, IInv, TypeOK, WaiterHasLeader, TableMatchesLeaders, WaitsForOwnKey
<1>6. ReplyHasMessage'
  BY DEF Wake, IInv, TypeOK, ReplyHasMessage, CallHasResult, WaitsForOwnKey
<1>7. AnswersTheQuestion'
  BY DEF Wake, IInv, TypeOK, AnswersTheQuestion, CallHasResult, WaitsForOwnKey,
       ReplyHasMessage
<1>8. LookupHoldsSlot'
  BY DEF Wake, IInv, TypeOK, LookupHoldsSlot
<1>9. CloneIsPrivate'
  BY DEF Wake, IInv, TypeOK, CloneIsPrivate, CallHasResult, WaitsForOwnKey,
       ReplyHasMessage
<1>10. CachedReplyKeepsID'
  BY DEF Wake, IInv, TypeOK, CachedReplyKeepsID, CloneIsPrivate
<1> QED
  BY <1>1, <1>2, <1>3, <1>4, <1>5, <1>6, <1>7, <1>8, <1>9, <1>10 DEF IInv

\* A slot (resolver.go:74-77) is taken only while there are fewer than
\* MaxConcurrent, so the set of holders stays within the bound.
LEMMA AcquireSemIInv ==
  ASSUME IInv, NEW q \in Queries, AcquireSem(q)
  PROVE  IInv'
<1>1. TypeOK'
  BY DEF AcquireSem, IInv, TypeOK, FirstHop
<1>2. TableMatchesLeaders'
  BY DEF AcquireSem, IInv, TypeOK, FirstHop, TableMatchesLeaders
<1>3. CallHasResult'
  BY DEF AcquireSem, IInv, TypeOK, FirstHop, CallHasResult, CloneIsPrivate
<1>4. WaitsForOwnKey'
  BY DEF AcquireSem, IInv, TypeOK, FirstHop, WaitsForOwnKey, TableMatchesLeaders
<1>5. WaiterHasLeader'
  BY DEF AcquireSem, IInv, TypeOK, FirstHop, WaiterHasLeader, TableMatchesLeaders,
       WaitsForOwnKey
<1>6. ReplyHasMessage'
  BY DEF AcquireSem, IInv, TypeOK, FirstHop, ReplyHasMessage, CallHasResult,
       WaitsForOwnKey
<1>7. AnswersTheQuestion'
  BY DEF AcquireSem, IInv, TypeOK, FirstHop, AnswersTheQuestion, CallHasResult,
       WaitsForOwnKey, ReplyHasMessage
<1>8. LookupHoldsSlot'
  <2>1. pc[q] = "acquire" /\ pc' = [pc EXCEPT ![q] = FirstHop(key[q])]
    BY DEF AcquireSem
  <2>2. FirstHop(key[q]) \in LookupPCs
    BY DEF FirstHop
  <2>3. {r \in Queries : pc'[r] \in LookupPCs} = {r \in Queries : pc[r] \in LookupPCs} \cup {q}
    BY <2>1, <2>2 DEF IInv, TypeOK
  <2>4. q \notin sem
    BY <2>1 DEF IInv, LookupHoldsSlot
  <2>5. CASE MaxConcurrent > 0
    <3>1. Cardinality(sem) < MaxConcurrent /\ sem' = sem \cup {q}
      BY <2>5 DEF AcquireSem
    <3>2. IsFiniteSet(sem)
      BY FS_Subset DEF IInv, TypeOK
    <3>3. Cardinality(sem') = Cardinality(sem) + 1 /\ Cardinality(sem) \in Nat
      BY <2>4, <3>1, <3>2, FS_AddElement, FS_CardinalityType
    <3>4. Cardinality(sem') <= MaxConcurrent
      BY <3>1, <3>3
    <3>5. sem' \subseteq {r \in Queries : pc'[r] \in LookupPCs \cup {"finish", "release"}}
      BY <2>1, <2>2, <3>1 DEF IInv, TypeOK, LookupHoldsSlot
    <3> QED
      BY <2>3, <2>5, <3>1, <3>4, <3>5 DEF IInv, LookupHoldsSlot
  <2>6. CASE ~(MaxConcurrent > 0)
    <3>1. sem' = sem
      BY <2>6 DEF AcquireSem
    <3> QED
      BY <2>1, <2>4, <2>6, <3>1 DEF IInv, TypeOK, LookupHoldsSlot
  <2> QED
    BY <2>5, <2>6
<1>9. CloneIsPrivate'
  BY DEF AcquireSem, IInv, TypeOK, FirstHop, CloneIsPrivate, CallHasResult,
       WaitsForOwnKey, ReplyHasMessage
<1>10. CachedReplyKeepsID'
  BY DEF AcquireSem, IInv, TypeOK, FirstHop, CachedReplyKeepsID, CloneIsPrivate
<1> QED
  BY <1>1, <1>2, <1>3, <1>4, <1>5, <1>6, <1>7, <1>8, <1>9, <1>10 DEF IInv

\* The forwarders answer or fail (resolver.go:82-90): the leader still leads
\* and still holds its slot, falling back or not.
LEMMA ServersReturnIInv ==
  ASSUME IInv, NEW q \in Queries, ServersReturn(q)
  PROVE  IInv'
<1>1. TypeOK'
  <2>1. PICK o \in Possible("servers") : ServersReturn(q)!2!(o)
    BY DEF ServersReturn
  <2>2. o \in Outcomes
    BY DEF Possible
  <2>3. CASE o \in Data
    <3>1. /\ outcome' = [outcome EXCEPT ![q] = o]
          /\ heap' = [heap EXCEPT ![q] = [id |-> None, data |-> o]]
          /\ pc' = [pc EXCEPT ![q] = "finish"]
      BY <2>1, <2>3 DEF Fresh
    <3>2. heap' \in [Objects -> [id : Queries \cup {None}, data : Data]]
      BY <2>3, <3>1 DEF IInv, TypeOK
    <3>3. outcome' \in [Queries -> Outcomes] /\ pc' \in [Queries -> PCs]
      BY <2>2, <3>1 DEF IInv, TypeOK
    <3> QED
      BY <3>2, <3>3 DEF ServersReturn, IInv, TypeOK
  <2>4. CASE o \notin Data
    BY <2>1, <2>2, <2>4 DEF ServersReturn, IInv, TypeOK, Fresh
  <2> QED
    BY <2>3, <2>4
<1>2. TableMatchesLeaders'
  <2>1. pc[q] = "servers" /\ \E s \in {"iterate", "finish"} : pc' = [pc EXCEPT ![q] = s]
    BY DEF ServersReturn
  <2>2. UNCHANGED <<inflight, key>>
    BY DEF ServersReturn
  <2> QED
    BY <2>1, <2>2 DEF IInv, TypeOK, TableMatchesLeaders
<1>3. CallHasResult'
  BY DEF ServersReturn, IInv, TypeOK, Fresh, FallsBack, Possible, CallHasResult,
       CloneIsPrivate
<1>4. WaitsForOwnKey'
  BY DEF ServersReturn, IInv, TypeOK, Fresh, FallsBack, Possible, WaitsForOwnKey,
       TableMatchesLeaders
<1>5. WaiterHasLeader'
  <2>1. pc[q] = "servers" /\ \E s \in {"iterate", "finish"} : pc' = [pc EXCEPT ![q] = s]
    BY DEF ServersReturn
  <2>2. UNCHANGED <<leader, call>>
    BY DEF ServersReturn
  <2> QED
    BY <2>1, <2>2 DEF IInv, TypeOK, WaiterHasLeader, WaitsForOwnKey
<1>6. ReplyHasMessage'
  BY DEF ServersReturn, IInv, TypeOK, Fresh, FallsBack, Possible, ReplyHasMessage,
       CallHasResult, WaitsForOwnKey
<1>7. AnswersTheQuestion'
  BY DEF ServersReturn, IInv, TypeOK, Fresh, FallsBack, Possible, AnswersTheQuestion,
       CallHasResult, WaitsForOwnKey, ReplyHasMessage
<1>8. LookupHoldsSlot'
  BY DEF ServersReturn, IInv, TypeOK, Fresh, FallsBack, Possible, LookupHoldsSlot
<1>9. CloneIsPrivate'
  BY DEF ServersReturn, IInv, TypeOK, Fresh, FallsBack, Possible, CloneIsPrivate,
       CallHasResult, WaitsForOwnKey, ReplyHasMessage
<1>10. CachedReplyKeepsID'
  BY DEF ServersReturn, IInv, TypeOK, Fresh, FallsBack, Possible, CachedReplyKeepsID,
       CloneIsPrivate
<1> QED
  BY <1>1, <1>2, <1>3, <1>4, <1>5, <1>6, <1>7, <1>8, <1>9, <1>10 DEF IInv

\* Iterative resolution, validating or not (resolver.go:91-103), ends: the
\* leader has a result to record.
LEMMA LookupReturnIInv ==
  ASSUME IInv, NEW q \in Queries, NEW hop \in {"iterate", "dnssec"}, LookupReturn(q, hop)
  PROVE  IInv'
<1>1. TypeOK'
  BY DEF LookupReturn, IInv, TypeOK, Fresh, Possible
<1>2. TableMatchesLeaders'
  BY DEF LookupReturn, IInv, TypeOK, Fresh, Possible, TableMatchesLeaders
<1>3. CallHasResult'
  BY DEF LookupReturn, IInv, TypeOK, Fresh, Possible, CallHasResult, CloneIsPrivate
<1>4. WaitsForOwnKey'
  BY DEF LookupReturn, IInv, TypeOK, Fresh, Possible, WaitsForOwnKey, TableMatchesLeaders
<1>5. WaiterHasLeader'
  BY DEF LookupReturn, IInv, TypeOK, Fresh, Possible, WaiterHasLeader,
       TableMatchesLeaders, WaitsForOwnKey
<1>6. ReplyHasMessage'
  BY DEF LookupReturn, IInv, TypeOK, Fresh, Possible, ReplyHasMessage, CallHasResult,
       WaitsForOwnKey
<1>7. AnswersTheQuestion'
  BY DEF LookupReturn, IInv, TypeOK, Fresh, Possible, AnswersTheQuestion,
       CallHasResult, WaitsForOwnKey, ReplyHasMessage
<1>8. LookupHoldsSlot'
  BY DEF LookupReturn, IInv, TypeOK, Fresh, Possible, LookupHoldsSlot
<1>9. CloneIsPrivate'
  BY DEF LookupReturn, IInv, TypeOK, Fresh, Possible, CloneIsPrivate, CallHasResult,
       WaitsForOwnKey, ReplyHasMessage
<1>10. CachedReplyKeepsID'
  BY DEF LookupReturn, IInv, TypeOK, Fresh, Possible, CachedReplyKeepsID, CloneIsPrivate
<1> QED
  BY <1>1, <1>2, <1>3, <1>4, <1>5, <1>6, <1>7, <1>8, <1>9, <1>10 DEF IInv

\* The result is recorded before anything is released (resolver.go:105-114):
\* from here on the call holds a message or an error.
LEMMA FinishIInv ==
  ASSUME IInv, NEW q \in Queries, Finish(q)
  PROVE  IInv'
<1>1. TypeOK'
  <2>1. CASE outcome[q] \in Data
    <3>1. PICK cacheable \in BOOLEAN :
            positive' = IF cacheable THEN [positive EXCEPT ![key[q]] = q] ELSE positive
      BY <2>1 DEF Finish
    <3>2. positive' \in [Keys -> Objects \cup {None}]
      BY <3>1 DEF IInv, TypeOK
    <3>3. call' = [call EXCEPT ![q].msg = q] /\ resp' = [resp EXCEPT ![q] = q] /\ negative' = negative
      BY <2>1 DEF Finish
    <3>4. call[q] \in [done : BOOLEAN, msg : Queries \cup {None}, err : BOOLEAN]
      BY DEF IInv, TypeOK
    <3>5. [call[q] EXCEPT !.msg = q] \in [done : BOOLEAN, msg : Queries \cup {None}, err : BOOLEAN]
      BY <3>4
    <3>6. call' \in [Queries -> [done : BOOLEAN, msg : Queries \cup {None}, err : BOOLEAN]]
      BY <3>3, <3>5 DEF IInv, TypeOK
    <3>7. resp' \in [Queries -> Queries \cup {None}] /\ pc' \in [Queries -> PCs]
      BY <3>3 DEF Finish, IInv, TypeOK
    <3> QED
      BY <3>2, <3>3, <3>6, <3>7 DEF Finish, IInv, TypeOK
  <2>2. CASE outcome[q] \notin Data
    <3>1. call' = [call EXCEPT ![q].err = TRUE] /\ UNCHANGED <<positive, resp>>
      BY <2>2 DEF Finish
    <3>2. negative' = IF outcome[q] = "nxdomain" THEN negative \cup {key[q]} ELSE negative
      BY <2>2 DEF Finish
    <3>3. negative' \subseteq Keys
      BY <3>2 DEF IInv, TypeOK
    <3>4. call[q] \in [done : BOOLEAN, msg : Queries \cup {None}, err : BOOLEAN]
      BY DEF IInv, TypeOK
    <3>5. [call[q] EXCEPT !.err = TRUE] \in [done : BOOLEAN, msg : Queries \cup {None}, err : BOOLEAN]
      BY <3>4
    <3>6. call' \in [Queries -> [done : BOOLEAN, msg : Queries \cup {None}, err : BOOLEAN]]
      BY <3>1, <3>5 DEF IInv, TypeOK
    <3>7. pc' \in [Queries -> PCs]
      BY DEF Finish, IInv, TypeOK
    <3> QED
      BY <3>1, <3>3, <3>6, <3>7 DEF Finish, IInv, TypeOK
  <2> QED
    BY <2>1, <2>2
<1>2. TableMatchesLeaders'
  BY DEF Finish, IInv, TypeOK, TableMatchesLeaders
<1>3. CallHasResult'
  BY DEF Finish, IInv, TypeOK, CallHasResult, CloneIsPrivate
<1>4. WaitsForOwnKey'
  BY DEF Finish, IInv, TypeOK, WaitsForOwnKey, TableMatchesLeaders
<1>5. WaiterHasLeader'
  BY DEF Finish, IInv, TypeOK, WaiterHasLeader, TableMatchesLeaders, WaitsForOwnKey
<1>6. ReplyHasMessage'
  BY DEF Finish, IInv, TypeOK, ReplyHasMessage, CallHasResult, WaitsForOwnKey
<1>7. AnswersTheQuestion'
  BY DEF Finish, IInv, TypeOK, AnswersTheQuestion, CallHasResult, WaitsForOwnKey,
       ReplyHasMessage
<1>8. LookupHoldsSlot'
  BY DEF Finish, IInv, TypeOK, LookupHoldsSlot
<1>9. CloneIsPrivate'
  BY DEF Finish, IInv, TypeOK, CloneIsPrivate, CallHasResult, WaitsForOwnKey,
       ReplyHasMessage
<1>10. CachedReplyKeepsID'
  BY DEF Finish, IInv, TypeOK, CachedReplyKeepsID, CloneIsPrivate
<1> QED
  BY <1>1, <1>2, <1>3, <1>4, <1>5, <1>6, <1>7, <1>8, <1>9, <1>10 DEF IInv

\* The slot is given back (resolver.go:76) after the lookup.
LEMMA ReleaseSemIInv ==
  ASSUME IInv, NEW q \in Queries, ReleaseSem(q)
  PROVE  IInv'
<1>1. TypeOK'
  BY DEF ReleaseSem, IInv, TypeOK
<1>2. TableMatchesLeaders'
  BY DEF ReleaseSem, IInv, TypeOK, TableMatchesLeaders
<1>3. CallHasResult'
  BY DEF ReleaseSem, IInv, TypeOK, CallHasResult, CloneIsPrivate
<1>4. WaitsForOwnKey'
  BY DEF ReleaseSem, IInv, TypeOK, WaitsForOwnKey, TableMatchesLeaders
<1>5. WaiterHasLeader'
  BY DEF ReleaseSem, IInv, TypeOK, WaiterHasLeader, TableMatchesLeaders, WaitsForOwnKey
<1>6. ReplyHasMessage'
  BY DEF ReleaseSem, IInv, TypeOK, ReplyHasMessage, CallHasResult, WaitsForOwnKey
<1>7. AnswersTheQuestion'
  BY DEF ReleaseSem, IInv, TypeOK, AnswersTheQuestion, CallHasResult, WaitsForOwnKey,
       ReplyHasMessage
<1>8. LookupHoldsSlot'
  <2>1. pc[q] = "release" /\ pc' = [pc EXCEPT ![q] = "delete"] /\ sem' = sem \ {q}
    BY DEF ReleaseSem
  <2>2. {r \in Queries : pc'[r] \in LookupPCs} = {r \in Queries : pc[r] \in LookupPCs}
    BY <2>1 DEF IInv, TypeOK
  <2>3. sem' \subseteq {r \in Queries : pc'[r] \in LookupPCs \cup {"finish", "release"}}
    BY <2>1 DEF IInv, TypeOK, LookupHoldsSlot
  <2>4. ASSUME MaxConcurrent > 0
        PROVE  /\ {r \in Queries : pc'[r] \in LookupPCs} \subseteq sem'
               /\ Cardinality(sem') <= MaxConcurrent
    <3>1. IsFiniteSet(sem) /\ sem' \subseteq sem
      BY <2>1, FS_Subset DEF IInv, TypeOK
    <3>2. /\ Cardinality(sem') <= Cardinality(sem)
          /\ Cardinality(sem) \in Nat /\ Cardinality(sem') \in Nat
      BY <3>1, FS_Subset, FS_CardinalityType
    <3>3. Cardinality(sem) <= MaxConcurrent
      BY <2>4 DEF IInv, LookupHoldsSlot
    <3>4. Cardinality(sem') <= MaxConcurrent
      BY <3>2, <3>3
    <3> QED
      BY <2>1, <2>2, <2>4, <3>4 DEF IInv, LookupHoldsSlot
  <2> QED
    BY <2>3, <2>4 DEF LookupHoldsSlot
<1>9. CloneIsPrivate'
  BY DEF ReleaseSem, IInv, TypeOK, CloneIsPrivate, CallHasResult, WaitsForOwnKey,
       ReplyHasMessage
<1>10. CachedReplyKeepsID'
  BY DEF ReleaseSem, IInv, TypeOK, CachedReplyKeepsID, CloneIsPrivate
<1> QED
  BY <1>1, <1>2, <1>3, <1>4, <1>5, <1>6, <1>7, <1>8, <1>9, <1>10 DEF IInv

\* The first half of the deferred function (resolver.go:69-72): the key may be
\* led by another query from now on, while the old leader still has to close.
LEMMA DeleteInflightIInv ==
  ASSUME IInv, NEW q \in Queries, DeleteInflight(q)
  PROVE  IInv'
<1>1. TypeOK'
  BY DEF DeleteInflight, IInv, TypeOK
<1>2. TableMatchesLeaders'
  BY DEF DeleteInflight, IInv, TypeOK, TableMatchesLeaders
<1>3. CallHasResult'
  BY DEF DeleteInflight, IInv, TypeOK, CallHasResult, CloneIsPrivate
<1>4. WaitsForOwnKey'
  BY DEF DeleteInflight, IInv, TypeOK, WaitsForOwnKey, TableMatchesLeaders
<1>5. WaiterHasLeader'
  BY DEF DeleteInflight, IInv, TypeOK, WaiterHasLeader, TableMatchesLeaders,
       WaitsForOwnKey
<1>6. ReplyHasMessage'
  BY DEF DeleteInflight, IInv, TypeOK, ReplyHasMessage, CallHasResult, WaitsForOwnKey
<1>7. AnswersTheQuestion'
  BY DEF DeleteInflight, IInv, TypeOK, AnswersTheQuestion, CallHasResult,
       WaitsForOwnKey, ReplyHasMessage
<1>8. LookupHoldsSlot'
  BY DEF DeleteInflight, IInv, TypeOK, LookupHoldsSlot
<1>9. CloneIsPrivate'
  BY DEF DeleteInflight, IInv, TypeOK, CloneIsPrivate, CallHasResult, WaitsForOwnKey,
       ReplyHasMessage
<1>10. CachedReplyKeepsID'
  BY DEF DeleteInflight, IInv, TypeOK, CachedReplyKeepsID, CloneIsPrivate
<1> QED
  BY <1>1, <1>2, <1>3, <1>4, <1>5, <1>6, <1>7, <1>8, <1>9, <1>10 DEF IInv

\* close(call.done) (resolver.go:71): the waiters find the result recorded.
LEMMA CloseDoneIInv ==
  ASSUME IInv, NEW q \in Queries, CloseDone(q)
  PROVE  IInv'
<1>1. TypeOK'
  <2>1. /\ call' = [call EXCEPT ![q].done = TRUE]
        /\ pc' = [pc EXCEPT ![q] = IF call[q].err THEN "fail" ELSE "setid"]
    BY DEF CloseDone
  <2>2. call' \in [Queries -> [done : BOOLEAN, msg : Queries \cup {None}, err : BOOLEAN]]
    <3>1. call[q] \in [done : BOOLEAN, msg : Queries \cup {None}, err : BOOLEAN]
      BY DEF IInv, TypeOK
    <3>2. [call[q] EXCEPT !.done = TRUE] \in [done : BOOLEAN, msg : Queries \cup {None}, err : BOOLEAN]
      BY <3>1
    <3> QED
      BY <2>1, <3>2 DEF IInv, TypeOK
  <2>3. pc' \in [Queries -> PCs]
    BY <2>1 DEF IInv, TypeOK
  <2> QED
    BY <2>2, <2>3 DEF CloseDone, IInv, TypeOK
<1>2. TableMatchesLeaders'
  BY DEF CloseDone, IInv, TypeOK, TableMatchesLeaders
<1>3. CallHasResult'
  BY DEF CloseDone, IInv, TypeOK, CallHasResult, CloneIsPrivate
<1>4. WaitsForOwnKey'
  BY DEF CloseDone, IInv, TypeOK, WaitsForOwnKey, TableMatchesLeaders
<1>5. WaiterHasLeader'
  BY DEF CloseDone, IInv, TypeOK, WaiterHasLeader, TableMatchesLeaders, WaitsForOwnKey
<1>6. ReplyHasMessage'
  BY DEF CloseDone, IInv, TypeOK, ReplyHasMessage, CallHasResult, WaitsForOwnKey
<1>7. AnswersTheQuestion'
  BY DEF CloseDone, IInv, TypeOK, AnswersTheQuestion, CallHasResult, WaitsForOwnKey,
       ReplyHasMessage
<1>8. LookupHoldsSlot'
  BY DEF CloseDone, IInv, TypeOK, LookupHoldsSlot
<1>9. CloneIsPrivate'
  BY DEF CloseDone, IInv, TypeOK, CloneIsPrivate, CallHasResult, WaitsForOwnKey,
       ReplyHasMessage
<1>10. CachedReplyKeepsID'
  BY DEF CloseDone, IInv, TypeOK, CachedReplyKeepsID, CloneIsPrivate
<1> QED
  BY <1>1, <1>2, <1>3, <1>4, <1>5, <1>6, <1>7, <1>8, <1>9, <1>10 DEF IInv

\* SERVFAIL (server.go:276-289) touches nothing but the reply.
LEMMA ReplyFailureIInv ==
  ASSUME IInv, NEW q \in Queries, ReplyFailure(q)
  PROVE  IInv'
<1>1. TypeOK'
  BY DEF ReplyFailure, IInv, TypeOK, Reply, Send
<1>2. TableMatchesLeaders'
  BY DEF ReplyFailure, IInv, TypeOK, Reply, Send, TableMatchesLeaders
<1>3. CallHasResult'
  BY DEF ReplyFailure, IInv, TypeOK, Reply, Send, CallHasResult, CloneIsPrivate
<1>4. WaitsForOwnKey'
  BY DEF ReplyFailure, IInv, TypeOK, Reply, Send, WaitsForOwnKey, TableMatchesLeaders
<1>5. WaiterHasLeader'
  BY DEF ReplyFailure, IInv, TypeOK, Reply, Send, WaiterHasLeader,
       TableMatchesLeaders, WaitsForOwnKey
<1>6. ReplyHasMessage'
  BY DEF ReplyFailure, IInv, TypeOK, Reply, Send, ReplyHasMessage, CallHasResult,
       WaitsForOwnKey
<1>7. AnswersTheQuestion'
  BY DEF ReplyFailure, IInv, TypeOK, Reply, Send, AnswersTheQuestion, CallHasResult,
       WaitsForOwnKey, ReplyHasMessage
<1>8. LookupHoldsSlot'
  BY DEF ReplyFailure, IInv, TypeOK, Reply, Send, LookupHoldsSlot
<1>9. CloneIsPrivate'
  BY DEF ReplyFailure, IInv, TypeOK, Reply, Send, CloneIsPrivate, CallHasResult,
       WaitsForOwnKey, ReplyHasMessage
<1>10. CachedReplyKeepsID'
  BY DEF ReplyFailure, IInv, TypeOK, Reply, Send, CachedReplyKeepsID, CloneIsPrivate
<1> QED
  BY <1>1, <1>2, <1>3, <1>4, <1>5, <1>6, <1>7, <1>8, <1>9, <1>10 DEF IInv

\* resp.ID = msg.ID (server.go:296) writes into the object of the answer: of a
\* shared message the ID may now be anyone's, of a clone it is the query's.
LEMMA SetIDIInv ==
  ASSUME IInv, NEW q \in Queries, SetID(q)
  PROVE  IInv'
<1>1. TypeOK'
  <2>1. resp[q] \in Objects
    BY DEF SetID, IInv, TypeOK, ReplyHasMessage
  <2>2. heap' = [heap EXCEPT ![resp[q]].id = q] /\ pc' = [pc EXCEPT ![q] = "pack"]
    BY DEF SetID
  <2>3. heap' \in [Objects -> [id : Queries \cup {None}, data : Data]]
    <3>1. heap[resp[q]] \in [id : Queries \cup {None}, data : Data]
      BY <2>1 DEF IInv, TypeOK
    <3>2. [heap[resp[q]] EXCEPT !.id = q] \in [id : Queries \cup {None}, data : Data]
      BY <3>1
    <3> QED
      BY <2>1, <2>2, <3>2 DEF IInv, TypeOK
  <2>4. pc' \in [Queries -> PCs]
    BY <2>2 DEF IInv, TypeOK
  <2> QED
    BY <2>3, <2>4 DEF SetID, IInv, TypeOK
<1>2. TableMatchesLeaders'
  BY DEF SetID, IInv, TypeOK, TableMatchesLeaders
<1>3. CallHasResult'
  BY DEF SetID, IInv, TypeOK, CallHasResult, CloneIsPrivate
<1>4. WaitsForOwnKey'
  BY DEF SetID, IInv, TypeOK, WaitsForOwnKey, TableMatchesLeaders
<1>5. WaiterHasLeader'
  BY DEF SetID, IInv, TypeOK, WaiterHasLeader, TableMatchesLeaders, WaitsForOwnKey
<1>6. ReplyHasMessage'
  BY DEF SetID, IInv, TypeOK, ReplyHasMessage, CallHasResult, WaitsForOwnKey
<1>7. AnswersTheQuestion'
  BY DEF SetID, IInv, TypeOK, AnswersTheQuestion, CallHasResult, WaitsForOwnKey,
       ReplyHasMessage
<1>8. LookupHoldsSlot'
  BY DEF SetID, IInv, TypeOK, LookupHoldsSlot
<1>9. CloneIsPrivate'
  BY DEF SetID, IInv, TypeOK, CloneIsPrivate, CallHasResult, WaitsForOwnKey,
       ReplyHasMessage
<1>10. CachedReplyKeepsID'
  BY DEF SetID, IInv, TypeOK, CachedReplyKeepsID, CloneIsPrivate
<1> QED
  BY <1>1, <1>2, <1>3, <1>4, <1>5, <1>6, <1>7, <1>8, <1>9, <1>10 DEF IInv

\* resp.Pack and the write (server.go:302-315): what is sent of a clone is the
\* ID that was put into it.
LEMMA PackAndSendIInv ==
  ASSUME IInv, NEW q \in Queries, PackAndSend(q)
  PROVE  IInv'
<1>1. TypeOK'
  <2>1. resp[q] \in Objects
    BY DEF PackAndSend, IInv, TypeOK, ReplyHasMessage
  <2>2. heap[resp[q]] \in [id : Queries \cup {None}, data : Data]
    BY <2>1 DEF IInv, TypeOK
  <2>3. sent' = [sent EXCEPT ![q] = [id |-> heap[resp[q]].id, rcode |-> "noerror",
                                     data |-> heap[resp[q]].data]]
    BY DEF PackAndSend, Send, Reply
  <2>4. sent' \in [Queries -> {None} \cup
                     [id : Queries \cup {None},
                      rcode : {"refused", "nxdomain", "noerror", "servfail"},
                      data : Data \cup {None}]]
    BY <2>2, <2>3 DEF IInv, TypeOK
  <2> QED
    BY <2>4 DEF PackAndSend, IInv, TypeOK
<1>2. TableMatchesLeaders'
  BY DEF PackAndSend, IInv, TypeOK, Reply, Send, TableMatchesLeaders
<1>3. CallHasResult'
  BY DEF PackAndSend, IInv, TypeOK, Reply, Send, CallHasResult, CloneIsPrivate
<1>4. WaitsForOwnKey'
  BY DEF PackAndSend, IInv, TypeOK, Reply, Send, WaitsForOwnKey, TableMatchesLeaders
<1>5. WaiterHasLeader'
  BY DEF PackAndSend, IInv, TypeOK, Reply, Send, WaiterHasLeader, TableMatchesLeaders,
       WaitsForOwnKey
<1>6. ReplyHasMessage'
  BY DEF PackAndSend, IInv, TypeOK, Reply, Send, ReplyHasMessage, CallHasResult,
       WaitsForOwnKey
<1>7. AnswersTheQuestion'
  BY DEF PackAndSend, IInv, TypeOK, Reply, Send, AnswersTheQuestion, CallHasResult,
       WaitsForOwnKey, ReplyHasMessage
<1>8. LookupHoldsSlot'
  BY DEF PackAndSend, IInv, TypeOK, Reply, Send, LookupHoldsSlot
<1>9. CloneIsPrivate'
  BY DEF PackAndSend, IInv, TypeOK, Reply, Send, CloneIsPrivate, CallHasResult,
       WaitsForOwnKey, ReplyHasMessage
<1>10. CachedReplyKeepsID'
  BY DEF PackAndSend, IInv, TypeOK, Reply, Send, CachedReplyKeepsID, CloneIsPrivate,
       ReplyHasMessage
<1> QED
  BY <1>1, <1>2, <1>3, <1>4, <1>5, <1>6, <1>7, <1>8, <1>9, <1>10 DEF IInv

\* The prefetch goroutines touch the cache and their own objects only: no
\* query moves, and no query answers with an object of theirs.
LEMMA PrefetchIInv ==
  ASSUME IInv, NEW p \in Prefetchers, PrefetchStep(p)
  PROVE  IInv'
<1>1. UNCHANGED <<pc, key, negative, inflight, leader, call, sem, outcome, resp, sent>>
  BY DEF PrefetchStep, PrefetchFails, PrefetchFallsBack, PrefetchStores, PrefetchReset
<1>2. \A q \in Queries : heap'[q] = heap[q]
  <2>1. CASE PrefetchStores(p)
    <3>1. PICK d \in Data : heap' = [heap EXCEPT ![p] = Fresh(d)]
      BY <2>1 DEF PrefetchStores
    <3> QED
      BY <3>1 DEF IInv, TypeOK
  <2> QED
    BY <2>1 DEF PrefetchStep, PrefetchFails, PrefetchFallsBack, PrefetchReset
<1>3. TypeOK'
  <2>1. /\ p \in Objects
        /\ fetch[p] \in [pc : FetchPCs, key : Keys \cup {None}, entry : Objects \cup {None}]
    BY DEF IInv, TypeOK
  <2>2. fetch' \in [Prefetchers ->
          [pc : FetchPCs, key : Keys \cup {None}, entry : Objects \cup {None}]]
    <3>1. PICK s \in FetchPCs : fetch' = [fetch EXCEPT ![p] = [fetch[p] EXCEPT !.pc = s]]
      BY DEF PrefetchStep, PrefetchFails, PrefetchFallsBack, PrefetchStores,
           PrefetchReset, FetchPCs
    <3>2. [fetch[p] EXCEPT !.pc = s] \in
            [pc : FetchPCs, key : Keys \cup {None}, entry : Objects \cup {None}]
      BY <2>1
    <3> QED
      BY <3>1, <3>2 DEF IInv, TypeOK
  <2>3. heap' \in [Objects -> [id : Queries \cup {None}, data : Data]]
    <3>1. CASE PrefetchStores(p)
      <4>1. PICK d \in Data : heap' = [heap EXCEPT ![p] = [id |-> None, data |-> d]]
        BY <3>1 DEF PrefetchStores, Fresh
      <4> QED
        BY <4>1 DEF IInv, TypeOK
    <3> QED
      BY <3>1 DEF PrefetchStep, PrefetchFails, PrefetchFallsBack, PrefetchReset,
           IInv, TypeOK
  <2>4. positive' \in [Keys -> Objects \cup {None}]
    <3>1. CASE PrefetchStores(p)
      <4>1. PICK cacheable \in BOOLEAN :
              positive' = IF cacheable THEN [positive EXCEPT ![fetch[p].key] = p] ELSE positive
        BY <3>1 DEF PrefetchStores
      <4> QED
        BY <2>1, <4>1 DEF IInv, TypeOK
    <3> QED
      BY <3>1 DEF PrefetchStep, PrefetchFails, PrefetchFallsBack, PrefetchReset,
           IInv, TypeOK
  <2>5. flagged' \subseteq Objects
    BY DEF PrefetchStep, PrefetchFails, PrefetchFallsBack, PrefetchStores,
         PrefetchReset, IInv, TypeOK
  <2> QED
    BY <1>1, <2>2, <2>3, <2>4, <2>5 DEF IInv, TypeOK
<1>4. TableMatchesLeaders' /\ CallHasResult' /\ WaitsForOwnKey' /\ WaiterHasLeader'
  BY <1>1 DEF IInv, TableMatchesLeaders, CallHasResult, WaitsForOwnKey, WaiterHasLeader
<1>5. ReplyHasMessage' /\ AnswersTheQuestion' /\ LookupHoldsSlot' /\ CachedReplyKeepsID'
  BY <1>1 DEF IInv, ReplyHasMessage, AnswersTheQuestion, LookupHoldsSlot,
       CachedReplyKeepsID
<1>6. CloneIsPrivate'
  BY <1>1, <1>2 DEF IInv, CloneIsPrivate
<1> QED
  BY <1>3, <1>4, <1>5, <1>6 DEF IInv

\* The cache may forget what it likes.
LEMMA ForgetIInv ==
  ASSUME IInv, NEW k \in Keys, Forget(k)
  PROVE  IInv'
<1>1. TypeOK'
  BY DEF Forget, IInv, TypeOK
<1>2. TableMatchesLeaders' /\ CallHasResult' /\ WaitsForOwnKey' /\ WaiterHasLeader'
  BY DEF Forget, IInv, TableMatchesLeaders, CallHasResult, WaitsForOwnKey, WaiterHasLeader
<1>3. ReplyHasMessage' /\ AnswersTheQuestion' /\ LookupHoldsSlot'
  BY DEF Forget, IInv, ReplyHasMessage, AnswersTheQuestion, LookupHoldsSlot
<1>4. CloneIsPrivate' /\ CachedReplyKeepsID'
  BY DEF Forget, IInv, CloneIsPrivate, CachedReplyKeepsID
<1> QED
  BY <1>1, <1>2, <1>3, <1>4 DEF IInv

-----------------------------------------------------------------------------

\* The server starts with an empty table, an empty cache and a free semaphore.
LEMMA InitIInv == Init => IInv
<1> SUFFICES ASSUME Init PROVE IInv
  OBVIOUS
<1>1. TypeOK
  BY DEF Init, TypeOK, NoCall, Fresh, NotFetching, FetchPCs
<1>2. TableMatchesLeaders /\ CallHasResult /\ WaitsForOwnKey /\ WaiterHasLeader
  BY DEF Init, TableMatchesLeaders, CallHasResult, WaitsForOwnKey, WaiterHasLeader, NoCall
<1>3. ReplyHasMessage /\ AnswersTheQuestion /\ CloneIsPrivate /\ CachedReplyKeepsID
  BY DEF Init, ReplyHasMessage, AnswersTheQuestion, CloneIsPrivate, CachedReplyKeepsID
<1>4. LookupHoldsSlot
  BY FS_EmptySet DEF Init, LookupHoldsSlot
<1> QED
  BY <1>1, <1>2, <1>3, <1>4 DEF IInv

\* Every step preserves the invariant.
LEMMA NextIInv == IInv /\ [Next]_vars => IInv'
<1> SUFFICES ASSUME IInv, [Next]_vars PROVE IInv'
  OBVIOUS
<1>1. ASSUME NEW q \in Queries, QueryStep(q) PROVE IInv'
  BY <1>1, RejectIInv, AnswerLocallyIInv, CheckNegativeIInv, CacheHitIInv, CacheMissIInv,
     JoinIInv, WakeIInv, AcquireSemIInv, ServersReturnIInv, LookupReturnIInv, FinishIInv,
     ReleaseSemIInv, DeleteInflightIInv, CloseDoneIInv, ReplyFailureIInv, SetIDIInv,
     PackAndSendIInv DEF QueryStep
<1>2. CASE UNCHANGED vars
  <2>1. TypeOK'
    BY <1>2 DEF vars, IInv, TypeOK
  <2>2. TableMatchesLeaders' /\ CallHasResult' /\ WaitsForOwnKey' /\ WaiterHasLeader'
    BY <1>2 DEF vars, IInv, TableMatchesLeaders, CallHasResult, WaitsForOwnKey,
         WaiterHasLeader
  <2>3. ReplyHasMessage' /\ AnswersTheQuestion' /\ LookupHoldsSlot'
    BY <1>2 DEF vars, IInv, ReplyHasMessage, AnswersTheQuestion, LookupHoldsSlot
  <2>4. CloneIsPrivate' /\ CachedReplyKeepsID'
    BY <1>2 DEF vars, IInv, CloneIsPrivate, CachedReplyKeepsID
  <2> QED
    BY <2>1, <2>2, <2>3, <2>4 DEF IInv
<1> QED
  BY <1>1, <1>2, PrefetchIInv, ForgetIInv DEF Next

\* The inductive invariant holds in every reachable state.
THEOREM ResolverInvariant == Spec => []IInv
  BY InitIInv, NextIInv, PTL DEF Spec

\* Type correctness of the resolver's state.
THEOREM ResolverTypeOK == Spec => []TypeOK
<1>1. IInv => TypeOK
  BY DEF IInv
<1> QED BY <1>1, ResolverInvariant, PTL

\* At most one upstream lookup per key, for any number of queries and keys
\* (resolve, resolver.go:61-72).
THEOREM ResolverSingleFlight == Spec => []SingleFlight
<1>1. IInv => SingleFlight
  BY DEF IInv, TableMatchesLeaders, SingleFlight
<1> QED BY <1>1, ResolverInvariant, PTL

\* A refresh is only started for an entry whose flag is not set, and clears the
\* flag of its own entry when it is over (cache.go:119-128).
LEMMA NextOwnsFlag == IInv /\ RefreshOwnsFlag /\ [Next]_vars => RefreshOwnsFlag'
<1> DEFINE Record == [pc : FetchPCs, key : Keys \cup {None}, entry : Objects \cup {None}]
<1> SUFFICES ASSUME IInv, RefreshOwnsFlag, [Next]_vars PROVE RefreshOwnsFlag'
  OBVIOUS
<1>1. fetch \in [Prefetchers -> Record]
  BY DEF IInv, TypeOK
<1>2. CASE UNCHANGED <<flagged, fetch>>
  BY <1>2 DEF RefreshOwnsFlag
<1>3. ASSUME NEW q \in Queries, CacheHit(q) PROVE RefreshOwnsFlag'
  <2>1. PICK k, entry : MaybePrefetch(k, entry)
    BY <1>3 DEF CacheHit
  <2>2. CASE UNCHANGED <<flagged, fetch>>
    BY <2>2 DEF RefreshOwnsFlag
  <2>3. CASE ~UNCHANGED <<flagged, fetch>>
    <3>1. /\ entry \notin flagged /\ flagged' = flagged \cup {entry}
          /\ \E p \in Prefetchers :
               /\ fetch[p].pc = "idle"
               /\ fetch' = [fetch EXCEPT ![p] =
                              [pc |-> FirstPrefetchHop(k), key |-> k, entry |-> entry]]
      BY <2>1, <2>3 DEF MaybePrefetch
    <3>2. PICK p \in Prefetchers :
               fetch' = [fetch EXCEPT ![p] =
                           [pc |-> FirstPrefetchHop(k), key |-> k, entry |-> entry]]
      BY <3>1
    <3>3. /\ fetch'[p].entry = entry
          /\ \A r \in Prefetchers \ {p} : fetch'[r] = fetch[r]
      BY <1>1, <3>2
    <3> QED
      BY <3>1, <3>3 DEF RefreshOwnsFlag
  <2> QED
    BY <2>2, <2>3
<1>4. ASSUME NEW p \in Prefetchers, PrefetchStep(p) PROVE RefreshOwnsFlag'
  <2>1. CASE PrefetchReset(p)
    <3>1. /\ fetch[p].pc = "reset" /\ flagged' = flagged \ {fetch[p].entry}
          /\ fetch' = [fetch EXCEPT ![p].pc = "done"]
      BY <2>1 DEF PrefetchReset
    <3>2. /\ fetch'[p].pc = "done"
          /\ \A r \in Prefetchers \ {p} : fetch'[r] = fetch[r]
      BY <1>1, <3>1
    <3> QED
      BY <3>1, <3>2 DEF RefreshOwnsFlag
  <2>2. CASE ~PrefetchReset(p)
    <3>1. PICK s \in {"iterate", "reset"} : fetch' = [fetch EXCEPT ![p].pc = s]
      BY <1>4, <2>2 DEF PrefetchStep, PrefetchFails, PrefetchFallsBack, PrefetchStores
    <3>2. flagged' = flagged /\ fetch[p].pc \in {"servers", "iterate"}
      BY <1>4, <2>2 DEF PrefetchStep, PrefetchFails, PrefetchFallsBack, PrefetchStores
    <3>3. /\ fetch'[p].entry = fetch[p].entry
          /\ \A r \in Prefetchers \ {p} : fetch'[r] = fetch[r]
      BY <1>1, <3>1
    <3> QED
      BY <3>2, <3>3 DEF RefreshOwnsFlag
  <2> QED
    BY <2>1, <2>2
<1>5. ASSUME NEW q \in Queries, QueryStep(q), ~CacheHit(q) PROVE UNCHANGED <<flagged, fetch>>
  BY <1>5 DEF QueryStep, Reject, AnswerLocally, CheckNegative, CacheMiss, Join, Wake, AcquireSem,
     ServersReturn, LookupReturn, Finish, ReleaseSem, DeleteInflight, CloseDone, ReplyFailure,
     SetID, PackAndSend
<1> QED
  BY <1>2, <1>3, <1>4, <1>5 DEF Next, Forget, vars

\* Beyond the slots of the semaphore there is at most one refresh for every
\* entry that is being refreshed (resolver.go:74-77, cache.go:119-128).
THEOREM ResolverUpstreamBound == Spec => []UpstreamBound
<1>1. Init => RefreshOwnsFlag
  BY DEF Init, NotFetching, RefreshOwnsFlag
<1>2. IInv /\ RefreshOwnsFlag => UpstreamBound
  <2> SUFFICES ASSUME IInv, RefreshOwnsFlag, MaxConcurrent > 0
               PROVE  Cardinality(Looking \cup Refreshing) <= MaxConcurrent + Cardinality(flagged)
    BY DEF UpstreamBound
  <2>1. Looking \subseteq sem /\ Cardinality(sem) <= MaxConcurrent
    BY DEF IInv, LookupHoldsSlot
  <2>2. IsFiniteSet(sem)
    BY FS_Subset DEF IInv, TypeOK
  <2>3. IsFiniteSet(Objects)
    BY FS_Union
  <2>4. IsFiniteSet(flagged)
    BY <2>3, FS_Subset DEF IInv, TypeOK
  <2>5. [p \in Refreshing |-> fetch[p].entry] \in Injection(Refreshing, flagged)
    BY DEF Refreshing, RefreshOwnsFlag, Injection, IsInjective
  <2> HIDE DEF Looking
  <2>6. IsFiniteSet(Refreshing) /\ Cardinality(Refreshing) <= Cardinality(flagged)
    BY <2>4, <2>5, FS_Injection
  <2>7. IsFiniteSet(Looking) /\ Cardinality(Looking) <= Cardinality(sem)
    BY <2>1, <2>2, FS_Subset
  <2>8. IsFiniteSet(Looking \cap Refreshing)
    BY <2>7, FS_Subset
  <2>9. /\ Cardinality(Looking \cup Refreshing)
               = Cardinality(Looking) + Cardinality(Refreshing) - Cardinality(Looking \cap Refreshing)
        /\ Cardinality(Looking) \in Nat /\ Cardinality(Refreshing) \in Nat
        /\ Cardinality(Looking \cap Refreshing) \in Nat
        /\ Cardinality(sem) \in Nat /\ Cardinality(flagged) \in Nat
    BY <2>2, <2>4, <2>6, <2>7, <2>8, FS_Union, FS_CardinalityType
  <2> QED
    BY <2>1, <2>6, <2>7, <2>9
<1> QED
  BY <1>1, <1>2, InitIInv, NextIInv, NextOwnsFlag, PTL DEF Spec

\* A query never waits on a call that nobody will close (resolve,
\* resolver.go:63-72).
THEOREM ResolverWaiterHasLeader == Spec => []WaiterHasLeader
<1>1. IInv => WaiterHasLeader
  BY DEF IInv
<1> QED BY <1>1, ResolverInvariant, PTL

\* handleQuery never writes into a nil message, and never answers a query
\* with the message of another question (server.go:296-302).
THEOREM ResolverReplies == Spec => [](ReplyHasMessage /\ AnswersTheQuestion)
<1>1. IInv => ReplyHasMessage /\ AnswersTheQuestion
  BY DEF IInv
<1> QED BY <1>1, ResolverInvariant, PTL

\* A reply made from a clone of a cache entry carries the ID of its query
\* (cache.go:137-146, server.go:296).
THEOREM ResolverCachedReplyKeepsID == Spec => []CachedReplyKeepsID
<1>1. IInv => CachedReplyKeepsID
  BY DEF IInv
<1> QED BY <1>1, ResolverInvariant, PTL

\* Every path by which a result reaches handleQuery carries a message
\* (resolve, resolver.go:105-114; handleQuery, server.go:296).
THEOREM ResolverReplyHasMessage == Spec => []ReplyHasMessage
<1>1. IInv => ReplyHasMessage
  BY DEF IInv
<1> QED BY <1>1, ResolverInvariant, PTL
=============================================================================
