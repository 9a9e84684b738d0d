--------------------------- MODULE ConnPoolProofs ---------------------------
(***************************************************************************)
(* Proofs about ConnPool: the invariants of the lists and their owners,    *)
(* and that an exchange accepts its own reply only, for any servers,       *)
(* connections, exchanges, limits and number of IDs.                       *)
(***************************************************************************)
EXTENDS ConnPool, TLAPS, FiniteSetTheorems

-----------------------------------------------------------------------------
(* Lists *)

\* Taking the last element of a list without repetitions.
LEMMA FrontOfList ==
    ASSUME NEW S, NEW s \in Seq(S), s # <<>>
    PROVE  /\ Last(s) \in ToSet(s)
           /\ ToSet(s) \subseteq S
           /\ Front(s) \in Seq(S)
           /\ Len(Front(s)) <= Len(s)
           /\ ToSet(Front(s)) \subseteq ToSet(s)
           /\ ToSet(s) = ToSet(Front(s)) \cup {Last(s)}
           /\ IsInjective(s) => IsInjective(Front(s)) /\ Last(s) \notin ToSet(Front(s))
<1>1. /\ Len(s) \in Nat \ {0} /\ DOMAIN s = 1 .. Len(s)
      /\ \A i \in 1 .. Len(s) : s[i] \in S
    OBVIOUS
<1>2. /\ Front(s) \in Seq(S)
      /\ Len(Front(s)) = Len(s) - 1
      /\ DOMAIN Front(s) = 1 .. Len(s) - 1
      /\ \A i \in 1 .. Len(s) - 1 : Front(s)[i] = s[i]
    BY <1>1 DEF Front
<1>3. /\ \A i \in 1 .. Len(s) : i \in 1 .. Len(s) - 1 \/ i = Len(s)
      /\ \A i \in 1 .. Len(s) - 1 : i \in 1 .. Len(s) /\ i # Len(s)
      /\ Len(s) \in 1 .. Len(s)
    <2>1. ASSUME NEW n \in Nat \ {0}
          PROVE  /\ \A i \in 1 .. n : i \in 1 .. n - 1 \/ i = n
                 /\ \A i \in 1 .. n - 1 : i \in 1 .. n /\ i # n
                 /\ n \in 1 .. n
        OBVIOUS
    <2> QED
        BY <1>1, <2>1
<1>6. Len(Front(s)) <= Len(s)
    BY <1>1, <1>2
<1>4. /\ Last(s) \in ToSet(s)
      /\ ToSet(s) \subseteq S
      /\ ToSet(Front(s)) \subseteq ToSet(s)
      /\ ToSet(s) = ToSet(Front(s)) \cup {Last(s)}
    BY <1>1, <1>2, <1>3 DEF Last, ToSet
<1>5. IsInjective(s) => IsInjective(Front(s)) /\ Last(s) \notin ToSet(Front(s))
    BY <1>1, <1>2, <1>3 DEF IsInjective, Last, ToSet
<1> QED
    BY <1>2, <1>4, <1>5, <1>6

\* Appending an element that is not in the list.
LEMMA AppendToList ==
    ASSUME NEW S, NEW s \in Seq(S), NEW e \in S
    PROVE  /\ Append(s, e) \in Seq(S)
           /\ Len(Append(s, e)) = Len(s) + 1
           /\ ToSet(Append(s, e)) = ToSet(s) \cup {e}
           /\ IsInjective(s) /\ e \notin ToSet(s) => IsInjective(Append(s, e))
<1>1. /\ Len(s) \in Nat /\ DOMAIN s = 1 .. Len(s)
      /\ Append(s, e) \in Seq(S)
      /\ Len(Append(s, e)) = Len(s) + 1
      /\ DOMAIN Append(s, e) = 1 .. Len(s) + 1
      /\ \A i \in 1 .. Len(s) : Append(s, e)[i] = s[i]
      /\ Append(s, e)[Len(s) + 1] = e
    OBVIOUS
<1>2. /\ \A i \in 1 .. Len(s) + 1 : i \in 1 .. Len(s) \/ i = Len(s) + 1
      /\ \A i \in 1 .. Len(s) : i \in 1 .. Len(s) + 1
      /\ Len(s) + 1 \in 1 .. Len(s) + 1
    BY <1>1
<1>3. ToSet(Append(s, e)) = ToSet(s) \cup {e}
    BY <1>1, <1>2 DEF ToSet
<1>4. IsInjective(s) /\ e \notin ToSet(s) => IsInjective(Append(s, e))
    BY <1>1, <1>2 DEF IsInjective, ToSet
<1> QED
    BY <1>1, <1>3, <1>4

\* Taking the first element of a list.
LEMMA TailOfList ==
    ASSUME NEW S, NEW s \in Seq(S), s # <<>>
    PROVE  /\ Head(s) \in ToSet(s)
           /\ Tail(s) \in Seq(S)
           /\ ToSet(Tail(s)) \subseteq ToSet(s)
<1>1. /\ Len(s) \in Nat \ {0} /\ DOMAIN s = 1 .. Len(s)
      /\ Tail(s) \in Seq(S) /\ Head(s) = s[1]
      /\ Len(Tail(s)) = Len(s) - 1
      /\ DOMAIN Tail(s) = 1 .. Len(s) - 1
      /\ \A i \in 1 .. Len(s) - 1 : Tail(s)[i] = s[i + 1]
    OBVIOUS
<1>2. \A i \in 1 .. Len(s) - 1 : i + 1 \in 1 .. Len(s)
    BY <1>1
<1> QED
    BY <1>1, <1>2 DEF ToSet

-----------------------------------------------------------------------------
(* What reapIdle keeps of a list *)

\* The numbers up to Cardinality(at) are the ranks of the elements of `at'.
LEMMA Ranks ==
    ASSUME NEW n \in Nat, NEW at \in SUBSET (1 .. n)
    PROVE  /\ IsFiniteSet(at) /\ Cardinality(at) \in Nat /\ Cardinality(at) <= n
           /\ \A i \in at : Cardinality(at \cap (1 .. i)) \in 1 .. Cardinality(at)
           /\ \A i, j \in at :
                 Cardinality(at \cap (1 .. i)) = Cardinality(at \cap (1 .. j)) => i = j
           /\ \A k \in 1 .. Cardinality(at) :
                 \E i \in at : Cardinality(at \cap (1 .. i)) = k
<1> DEFINE Rank(i) == Cardinality(at \cap (1 .. i))
           R == {Rank(i) : i \in at}
<1>1. /\ IsFiniteSet(at) /\ Cardinality(at) \in Nat /\ Cardinality(at) <= n
    <2>1. IsFiniteSet(1 .. n) /\ Cardinality(1 .. n) = n
        BY FS_Interval
    <2> QED
        BY <2>1, FS_Subset, FS_CardinalityType
<1>2. \A i \in at : /\ IsFiniteSet(at \cap (1 .. i))
                    /\ Rank(i) \in Nat /\ Rank(i) <= Cardinality(at)
    BY <1>1, FS_Subset, FS_CardinalityType
<1>3. \A i \in at : Rank(i) # 0
    <2> TAKE i \in at
    <2>1. i \in at \cap (1 .. i)
        OBVIOUS
    <2> QED
        BY <1>2, <2>1, FS_EmptySet
<1>4. ASSUME NEW i \in at, NEW j \in at, i < j
      PROVE  Rank(i) # Rank(j)
    <2>1. /\ at \cap (1 .. i) \in SUBSET (at \cap (1 .. j))
          /\ j \in at \cap (1 .. j) /\ j \notin at \cap (1 .. i)
        BY <1>4
    <2> QED
        BY <1>2, <2>1, FS_Subset
<1>5. \A i, j \in at : Rank(i) = Rank(j) => i = j
    <2> TAKE i, j \in at
    <2>1. i \in Int /\ j \in Int
        OBVIOUS
    <2>2. i < j \/ j < i \/ i = j
        BY <2>1
    <2> QED
        BY <1>4, <2>2
<1>7. \A i \in at : Rank(i) \in 1 .. Cardinality(at)
    <2>1. \A r, c \in Nat : r <= c /\ r # 0 => r \in 1 .. c
        OBVIOUS
    <2>2. \A i \in at : Rank(i) \in Nat /\ Rank(i) <= Cardinality(at) /\ Rank(i) # 0
        BY <1>2, <1>3
    <2> HIDE DEF Rank
    <2> QED
        BY <1>1, <2>1, <2>2
<1>6. R = 1 .. Cardinality(at)
    <2>1. [i \in at |-> Rank(i)] \in Bijection(at, R)
        BY <1>5 DEF Bijection, Injection, Surjection, IsInjective
    <2>2. Cardinality(R) = Cardinality(at)
        <3>1. ExistsBijection(at, R)
            BY <2>1 DEF ExistsBijection
        <3> HIDE DEF R
        <3> QED
            BY <1>1, <3>1, FS_Bijection
    <2>3. R \in SUBSET (1 .. Cardinality(at))
        BY <1>7
    <2>4. /\ IsFiniteSet(1 .. Cardinality(at))
          /\ Cardinality(1 .. Cardinality(at)) = Cardinality(at)
        BY <1>1, FS_Interval
    <2> QED
        BY <2>2, <2>3, <2>4, FS_Subset
<1> QED
    BY <1>1, <1>5, <1>6, <1>7

\* A list keeps the elements at some positions, and nothing else.
LEMMA KeptOfList ==
    ASSUME NEW S, NEW s \in Seq(S), NEW at \in SUBSET DOMAIN s
    PROVE  /\ Kept(s, at) \in Seq(S)
           /\ Len(Kept(s, at)) <= Len(s)
           /\ ToSet(Kept(s, at)) = {s[i] : i \in at}
           /\ IsInjective(s) => IsInjective(Kept(s, at))
<1> DEFINE Rank(i) == Cardinality(at \cap (1 .. i))
           Nth(k) == CHOOSE i \in at : Rank(i) = k
           m == Cardinality(at)
<1>1. /\ Len(s) \in Nat /\ DOMAIN s = 1 .. Len(s)
      /\ \A i \in DOMAIN s : s[i] \in S
    OBVIOUS
<1>2. /\ m \in Nat /\ m <= Len(s)
      /\ \A i \in at : Rank(i) \in 1 .. m
      /\ \A i, j \in at : Rank(i) = Rank(j) => i = j
      /\ \A k \in 1 .. m : \E i \in at : Rank(i) = k
    BY <1>1, Ranks
<1> HIDE DEF Rank, m
<1>3. \A k \in 1 .. m : Nth(k) \in at /\ Rank(Nth(k)) = k
    BY <1>2
<1>4. \A i \in at : Nth(Rank(i)) = i
    BY <1>2, <1>3
<1>5. Kept(s, at) = [k \in 1 .. m |-> s[Nth(k)]]
    BY DEF Kept, Rank, m
<1> HIDE DEF Nth
<1>6. /\ Kept(s, at) \in Seq(S) /\ Len(Kept(s, at)) = m
      /\ DOMAIN Kept(s, at) = 1 .. m
      /\ \A k \in 1 .. m : Kept(s, at)[k] = s[Nth(k)]
    BY <1>1, <1>2, <1>3, <1>5
<1>7. ToSet(Kept(s, at)) = {s[i] : i \in at}
    BY <1>2, <1>3, <1>4, <1>6 DEF ToSet
<1>8. IsInjective(s) => IsInjective(Kept(s, at))
    BY <1>1, <1>3, <1>6 DEF IsInjective
<1> QED
    BY <1>2, <1>6, <1>7, <1>8

-----------------------------------------------------------------------------
(* Types *)

\* Close closes the connections it is given and empties their sockets.
LEMMA Closing ==
    ASSUME TypeOK, NEW C \in SUBSET Conns, Close(C)
    PROVE  /\ conn' \in [Conns -> Connection]
           /\ inbox' \in [Conns -> Seq(Received)]
           /\ network' \subseteq network
           /\ \A pkt \in network' : pkt.c \notin C
           /\ \A c \in C : conn'[c].state = "closed" /\ inbox'[c] = <<>>
           /\ \A c \in Conns : conn'[c].server = conn[c].server
           /\ \A c \in Conns \ C : conn'[c] = conn[c] /\ inbox'[c] = inbox[c]
<1>1. inbox' \in [Conns -> Seq(Received)]
    <2>1. <<>> \in Seq(Received)
        OBVIOUS
    <2> QED
        BY <2>1 DEF TypeOK, Close
<1>2. ASSUME NEW c \in Conns
      PROVE  [conn[c] EXCEPT !.state = "closed"] \in Connection
    BY DEF TypeOK, Connection
<1>3. conn' \in [Conns -> Connection]
    BY <1>2 DEF TypeOK, Close
<1>4. /\ network' \subseteq network
      /\ \A pkt \in network' : pkt.c \notin C
      /\ \A c \in C : conn'[c].state = "closed" /\ inbox'[c] = <<>>
      /\ \A c \in Conns : conn'[c].server = conn[c].server
      /\ \A c \in Conns \ C : conn'[c] = conn[c] /\ inbox'[c] = inbox[c]
    BY DEF TypeOK, Close, Connection
<1> QED
    BY <1>1, <1>3, <1>4

\* The counter of a connection wraps to 0.
LEMMA NextID ==
    ASSUME NEW i \in 0 .. IDs - 1
    PROVE  /\ (i + 1) % IDs = IF i + 1 = IDs THEN 0 ELSE i + 1
           /\ (i + IDs - 1) % IDs = IF i = 0 THEN IDs - 1 ELSE i - 1
           /\ (i + 1) % IDs \in 0 .. IDs - 1
<1> DEFINE M == IDs
<1>1. M \in Nat \ {0} /\ i \in 0 .. M - 1
    BY ConnPoolConstants
<1> HIDE DEF M
<1>2. ASSUME NEW a \in 0 .. M - 1
      PROVE  a % M = a /\ (a + M) % M = a
    BY <1>1, <1>2
<1>3. (i + 1) % M = IF i + 1 = M THEN 0 ELSE i + 1
    BY <1>1, <1>2
<1>4. (i + M - 1) % M = IF i = 0 THEN M - 1 ELSE i - 1
    BY <1>1, <1>2
<1> QED
    BY <1>1, <1>3, <1>4 DEF M

\* What an exchange works with, by its control state.
LEMMA ExchangeTypes ==
    ASSUME TypeOK, ExchangeState, NEW t \in Threads
    PROVE  /\ thread[t] \in Exchange
           /\ thread[t].pc # "idle" => thread[t].server \in Servers
           /\ thread[t].pc \in {"write", "read", "put", "append", "close"} =>
                 /\ thread[t].c \in Conns
                 /\ conn[thread[t].c].server = thread[t].server
                 /\ Holds(t, thread[t].c)
BY DEF TypeOK, ExchangeState, Holding, Holds

LEMMA TypeInductive ==
    ASSUME TypeOK, ExchangeState, [Next]_vars
    PROVE  TypeOK'
<1> USE ConnPoolConstants
<1>1. CASE Tick
    BY <1>1 DEF Tick, TypeOK
<1>2. ASSUME NEW t \in Threads, NEW s \in Servers, GetPooled(t, s)
      PROVE  TypeOK'
    <2>1. /\ Front(pool[s]) \in Seq(Conns)
          /\ Last(pool[s]) \in Conns
        BY <1>2, FrontOfList DEF GetPooled, TypeOK
    <2>2. pool' \in [Servers -> Seq(Conns)]
        BY <1>2, <2>1 DEF GetPooled, TypeOK
    <2>3. [pc |-> "write", server |-> s, c |-> Last(pool[s]), failed |-> TRUE] \in Exchange
        BY <2>1 DEF Exchange, Holding
    <2>4. thread' \in [Threads -> Exchange]
        BY <1>2, <2>3 DEF GetPooled, TypeOK
    <2> QED
        BY <1>2, <2>2, <2>4 DEF GetPooled, TypeOK
<1>3. ASSUME NEW t \in Threads, NEW s \in Servers, GetEmpty(t, s)
      PROVE  TypeOK'
    <2>1. [pc |-> "dial", server |-> s, c |-> None, failed |-> TRUE] \in Exchange
        BY DEF Exchange
    <2> QED
        BY <1>3, <2>1 DEF GetEmpty, TypeOK
<1>4. ASSUME NEW t \in Threads, NEW c \in Conns, NEW id \in FirstIDs, Dial(t, c, id)
      PROVE  TypeOK'
    <2>1. [state |-> "open", server |-> thread[t].server, nextID |-> id,
           lastUsed |-> 0, used |-> 0] \in Connection
        BY <1>4, ExchangeTypes DEF Dial, Connection
    <2>2. [thread[t] EXCEPT !.pc = "write", !.c = c] \in Exchange
        BY ExchangeTypes DEF Exchange, Holding
    <2>3. conn' \in [Conns -> Connection] /\ thread' \in [Threads -> Exchange]
        BY <1>4, <2>1, <2>2 DEF Dial, TypeOK
    <2> QED
        BY <1>4, <2>3 DEF Dial, TypeOK
<1>5. ASSUME NEW t \in Threads, DialFails(t)
      PROVE  TypeOK'
    <2>1. Idle \in Exchange
        BY DEF Idle, Exchange
    <2> QED
        BY <1>5, <2>1 DEF DialFails, TypeOK
<1>6. ASSUME NEW t \in Threads, Write(t)
      PROVE  TypeOK'
    <2> DEFINE c == thread[t].c
    <2>1. c \in Conns /\ conn[c] \in Connection
        BY <1>6, ExchangeTypes DEF Write, TypeOK
    <2>2. /\ [conn[c] EXCEPT !.nextID = (@ + 1) % IDs, !.used = @ + 1] \in Connection
          /\ Packet(c) \in [c : Conns, id : 0 .. IDs - 1, n : Nat, left : Nat]
        <3>1. /\ conn[c].nextID \in 0 .. IDs - 1 /\ conn[c].used + 1 \in Nat
              /\ (conn[c].nextID + 1) % IDs \in 0 .. IDs - 1
            BY <2>1, NextID DEF Connection
        <3>2. [conn[c] EXCEPT !.nextID = (@ + 1) % IDs, !.used = @ + 1] \in Connection
            BY <2>1, <3>1 DEF Connection
        <3>3. Packet(c) \in [c : Conns, id : 0 .. IDs - 1, n : Nat, left : Nat]
            BY <2>1, <3>1 DEF Packet
        <3> QED
            BY <3>2, <3>3
    <2>3. [thread[t] EXCEPT !.pc = "read"] \in Exchange
        BY ExchangeTypes DEF Exchange, Holding
    <2>4. conn' = [conn EXCEPT ![c] = [conn[c] EXCEPT !.nextID = (@ + 1) % IDs,
                                                      !.used = @ + 1]]
        BY <1>6, <2>1 DEF Write, TypeOK
    <2> HIDE DEF c
    <2>5. conn' \in [Conns -> Connection]
        BY <2>1, <2>2, <2>4 DEF TypeOK
    <2>6. thread' \in [Threads -> Exchange]
        BY <1>6, <2>3 DEF Write, TypeOK
    <2> QED
        BY <1>6, <2>2, <2>5, <2>6 DEF Write, TypeOK, c
<1>7. ASSUME NEW t \in Threads, WriteFails(t)
      PROVE  TypeOK'
    <2>1. thread[t].c \in Conns /\ conn[thread[t].c] \in Connection
        BY <1>7, ExchangeTypes DEF WriteFails, TypeOK
    <2>2. [conn[thread[t].c] EXCEPT !.nextID = (@ + 1) % IDs] \in Connection
        BY <2>1, NextID DEF Connection
    <2>3. [thread[t] EXCEPT !.pc = "put"] \in Exchange
        BY ExchangeTypes DEF Exchange, Holding
    <2> QED
        BY <1>7, <2>1, <2>2, <2>3 DEF WriteFails, TypeOK
<1>8. ASSUME NEW pkt \in network, Deliver(pkt)
      PROVE  TypeOK'
    <2>1. /\ pkt.c \in Conns /\ pkt.left \in Nat
          /\ [id |-> pkt.id, n |-> pkt.n] \in Received
        BY DEF TypeOK, Received
    <2>2. Append(inbox[pkt.c], [id |-> pkt.id, n |-> pkt.n]) \in Seq(Received)
        BY <2>1, AppendToList DEF TypeOK
    <2>3. inbox' \in [Conns -> Seq(Received)]
        BY <1>8, <2>1, <2>2 DEF Deliver, TypeOK
    <2>4. pkt.left > 1 =>
             [pkt EXCEPT !.left = @ - 1] \in [c : Conns, id : 0 .. IDs - 1, n : Nat, left : Nat]
        <3>1. pkt \in [c : Conns, id : 0 .. IDs - 1, n : Nat, left : Nat]
            BY DEF TypeOK
        <3>2. pkt.left > 1 => pkt.left - 1 \in Nat
            BY <2>1
        <3> QED
            BY <3>1, <3>2
    <2>5. network' \subseteq [c : Conns, id : 0 .. IDs - 1, n : Nat, left : Nat]
        BY <1>8, <2>4 DEF Deliver, TypeOK
    <2> QED
        BY <1>8, <2>3, <2>5 DEF Deliver, TypeOK
<1>9. ASSUME NEW t \in Threads, Read(t)
      PROVE  TypeOK'
    <2>1. thread[t].c \in Conns
        BY <1>9, ExchangeTypes DEF Read
    <2>2. Tail(inbox[thread[t].c]) \in Seq(Received)
        BY <1>9, <2>1, TailOfList DEF Read, TypeOK
    <2>3. \A b \in BOOLEAN : [thread[t] EXCEPT !.pc = "put", !.failed = b] \in Exchange
        BY ExchangeTypes DEF Exchange, Holding
    <2>4. inbox' \in [Conns -> Seq(Received)]
        BY <1>9, <2>1, <2>2 DEF Read, TypeOK
    <2>5. (Head(inbox[thread[t].c]).id # SentID(thread[t].c)) \in BOOLEAN
        OBVIOUS
    <2>6. thread' \in [Threads -> Exchange]
        BY <1>9, <2>3, <2>5 DEF Read, TypeOK
    <2> QED
        BY <1>9, <2>4, <2>6 DEF Read, TypeOK
<1>10. ASSUME NEW t \in Threads, ReadFails(t)
       PROVE  TypeOK'
    <2>1. [thread[t] EXCEPT !.pc = "put"] \in Exchange
        BY ExchangeTypes DEF Exchange, Holding
    <2> QED
        BY <1>10, <2>1 DEF ReadFails, TypeOK
<1>11. ASSUME NEW t \in Threads, PutFailed(t) \/ PutClose(t)
       PROVE  TypeOK'
    <2>1. {thread[t].c} \in SUBSET Conns
        BY <1>11, ExchangeTypes DEF PutFailed, PutClose
    <2>2. /\ conn' \in [Conns -> Connection]
          /\ inbox' \in [Conns -> Seq(Received)]
          /\ network' \subseteq network
        BY <1>11, <2>1, Closing DEF PutFailed, PutClose
    <2>3. Idle \in Exchange
        BY DEF Idle, Exchange
    <2>4. /\ thread' \in [Threads -> Exchange]
          /\ UNCHANGED <<now, pool, reaper>>
        BY <1>11, <2>3 DEF PutFailed, PutClose, TypeOK
    <2> QED
        BY <2>2, <2>4 DEF TypeOK
<1>12. ASSUME NEW t \in Threads, PutStamp(t)
       PROVE  TypeOK'
    <2>1. thread[t].c \in Conns /\ conn[thread[t].c] \in Connection
        BY <1>12, ExchangeTypes DEF PutStamp, TypeOK
    <2>2. [conn[thread[t].c] EXCEPT !.lastUsed = now] \in Connection
        BY <2>1 DEF Connection, TypeOK
    <2>3. [thread[t] EXCEPT !.pc = "append"] \in Exchange
        BY ExchangeTypes DEF Exchange
    <2> QED
        BY <1>12, <2>1, <2>2, <2>3 DEF PutStamp, TypeOK
<1>13. ASSUME NEW t \in Threads, PutAppend(t)
       PROVE  TypeOK'
    <2>1. thread[t].c \in Conns /\ thread[t].server \in Servers
        BY <1>13, ExchangeTypes DEF PutAppend
    <2>2. Append(pool[thread[t].server], thread[t].c) \in Seq(Conns)
        BY <2>1, AppendToList DEF TypeOK
    <2>3. Idle \in Exchange /\ [thread[t] EXCEPT !.pc = "close"] \in Exchange
        BY ExchangeTypes DEF Exchange, Idle
    <2>4. pool' \in [Servers -> Seq(Conns)]
        BY <1>13, <2>1, <2>2 DEF PutAppend, TypeOK
    <2>5. thread' \in [Threads -> Exchange]
        BY <1>13, <2>3 DEF PutAppend, TypeOK
    <2> QED
        BY <1>13, <2>4, <2>5 DEF PutAppend, TypeOK
<1>14. CASE ReapBegin
    BY <1>14 DEF ReapBegin, TypeOK
<1>15. ASSUME NEW s \in Servers, ReapServer(s)
       PROVE  TypeOK'
    <2> DEFINE fresh == {i \in DOMAIN pool[s] : ~Stale(pool[s][i])}
               dead == {pool[s][i] : i \in DOMAIN pool[s] \ fresh}
    <2>1. pool[s] \in Seq(Conns)
        BY DEF TypeOK
    <2>2. dead \in SUBSET Conns
        BY <2>1
    <2>3. Kept(pool[s], fresh) \in Seq(Conns)
        BY <2>1, KeptOfList
    <2>4. /\ Close(dead)
          /\ pool' = [pool EXCEPT ![s] = Kept(pool[s], fresh)]
        BY <1>15 DEF ReapServer
    <2> HIDE DEF fresh, dead
    <2>5. /\ conn' \in [Conns -> Connection]
          /\ inbox' \in [Conns -> Seq(Received)]
          /\ network' \subseteq network
        BY <2>2, <2>4, Closing
    <2>6. pool' \in [Servers -> Seq(Conns)]
        BY <2>3, <2>4 DEF TypeOK
    <2> QED
        BY <1>15, <2>5, <2>6 DEF ReapServer, TypeOK
<1>16. CASE UNCHANGED vars
    BY <1>16 DEF vars, TypeOK
<1> QED
    BY <1>1, <1>2, <1>3, <1>4, <1>5, <1>6, <1>7, <1>8, <1>9, <1>10, <1>11, <1>12,
       <1>13, <1>14, <1>15, <1>16 DEF Next, ExchangeStep, ReapStep

-----------------------------------------------------------------------------
(* Exchanges *)

\* A step of one exchange that leaves the servers of connections alone.
LEMMA ExchangeStep1 ==
    ASSUME TypeOK, ExchangeState, NEW t \in Threads,
           \A u \in Threads \ {t} : thread'[u] = thread[u],
           \A c \in Conns : conn'[c].server = conn[c].server,
           thread'[t].pc # "idle" => thread'[t].server \in Servers,
           thread'[t].pc \in Holding \cup {"append", "close"} =>
               /\ thread'[t].c \in Conns
               /\ conn[thread'[t].c].server = thread'[t].server,
           thread'[t].pc \in {"dial", "write", "read"} => thread'[t].failed
    PROVE  ExchangeState'
BY DEF ExchangeState, TypeOK

LEMMA ExchangeInductive ==
    ASSUME TypeOK, ExchangeState, OpenIffOwned, PooledForItsServer, [Next]_vars
    PROVE  ExchangeState'
<1>1. CASE UNCHANGED <<thread, conn>>
    BY <1>1 DEF ExchangeState
<1>2. ASSUME NEW t \in Threads, NEW s \in Servers, GetPooled(t, s)
      PROVE  ExchangeState'
    <2>1. /\ Last(pool[s]) \in ToSet(pool[s])
          /\ Last(pool[s]) \in Conns
        BY <1>2, FrontOfList DEF GetPooled, TypeOK
    <2>2. conn[Last(pool[s])].server = s
        BY <2>1 DEF PooledForItsServer
    <2>3. thread' = [thread EXCEPT ![t] =
                        [pc |-> "write", server |-> s, c |-> Last(pool[s]), failed |-> TRUE]]
          /\ UNCHANGED conn
        BY <1>2 DEF GetPooled
    <2> QED
        BY <2>1, <2>2, <2>3, ExchangeStep1 DEF TypeOK
<1>3. ASSUME NEW t \in Threads, NEW s \in Servers, GetEmpty(t, s)
      PROVE  ExchangeState'
    BY <1>3, ExchangeStep1 DEF GetEmpty, TypeOK, Holding
<1>4. ASSUME NEW t \in Threads, NEW c \in Conns, NEW id \in FirstIDs, Dial(t, c, id)
      PROVE  ExchangeState'
    <2>1. /\ thread[t].server \in Servers
          /\ thread' = [thread EXCEPT ![t] = [thread[t] EXCEPT !.pc = "write", !.c = c]]
          /\ conn' = [conn EXCEPT ![c] = [state |-> "open", server |-> thread[t].server,
                                          nextID |-> id, lastUsed |-> 0, used |-> 0]]
        BY <1>4, ExchangeTypes DEF Dial, TypeOK
    <2>2. ASSUME NEW u \in Threads \ {t}, thread[u].pc \in Holding \cup {"append", "close"}
          PROVE  thread[u].c \in Conns /\ thread[u].c # c
        BY <1>4, <2>2, ExchangeTypes DEF OpenIffOwned, Dial, Holding
    <2>3. thread[t].failed
        BY <1>4 DEF Dial, ExchangeState
    <2> QED
        BY <2>1, <2>2, <2>3 DEF ExchangeState, TypeOK, Exchange
<1>5. ASSUME NEW t \in Threads,
             DialFails(t) \/ PutFailed(t) \/ PutClose(t)
      PROVE  ExchangeState'
    <2>1. thread' = [thread EXCEPT ![t] = Idle]
        BY <1>5 DEF DialFails, PutFailed, PutClose
    <2>2. \A c \in Conns : conn'[c].server = conn[c].server
        BY <1>5, ExchangeTypes, Closing DEF DialFails, PutFailed, PutClose
    <2> QED
        BY <2>1, <2>2, ExchangeStep1 DEF Idle, Holding, TypeOK
<1>6. ASSUME NEW t \in Threads,
             Write(t) \/ WriteFails(t) \/ Read(t) \/ ReadFails(t) \/ PutStamp(t)
      PROVE  ExchangeState'
    <2>1. /\ \A u \in Threads \ {t} : thread'[u] = thread[u]
          /\ thread'[t].server = thread[t].server
          /\ thread'[t].c = thread[t].c
          /\ thread[t].pc \in Holding
          /\ thread'[t].pc \in {"read", "put", "append"}
          /\ thread'[t].pc = "read" => Write(t)
        BY <1>6 DEF Write, WriteFails, Read, ReadFails, PutStamp, TypeOK, Exchange, Holding
    <2>2. Write(t) => thread'[t].failed
        BY DEF Write, TypeOK, Exchange, ExchangeState
    <2>3. \A c \in Conns : conn'[c].server = conn[c].server
        BY <1>6 DEF Write, WriteFails, Read, ReadFails, PutStamp, TypeOK, Connection
    <2> QED
        BY <2>1, <2>2, <2>3, ExchangeStep1, ExchangeTypes DEF Holding
<1>7. ASSUME NEW t \in Threads, PutAppend(t)
      PROVE  ExchangeState'
    <2>1. \/ thread' = [thread EXCEPT ![t] = Idle]
          \/ thread' = [thread EXCEPT ![t] = [thread[t] EXCEPT !.pc = "close"]]
        BY <1>7 DEF PutAppend, TypeOK
    <2>2. thread[t].pc = "append" /\ UNCHANGED conn
        BY <1>7 DEF PutAppend
    <2>3. /\ \A u \in Threads \ {t} : thread'[u] = thread[u]
          /\ thread'[t].pc \in {"idle", "close"}
          /\ thread'[t].pc = "close" => /\ thread'[t].server = thread[t].server
                                       /\ thread'[t].c = thread[t].c
        BY <2>1 DEF Idle, TypeOK, Exchange
    <2> QED
        BY <2>2, <2>3, ExchangeStep1, ExchangeTypes DEF Holding
<1>8. ASSUME NEW s \in Servers, ReapServer(s)
      PROVE  ExchangeState'
    <2> DEFINE dead == {pool[s][i] : i \in DOMAIN pool[s] \
                                        {i \in DOMAIN pool[s] : ~Stale(pool[s][i])}}
    <2>1. dead \in SUBSET Conns
        BY DEF TypeOK
    <2>2. Close(dead) /\ UNCHANGED thread
        BY <1>8 DEF ReapServer
    <2> HIDE DEF dead
    <2>3. \A c \in Conns : conn'[c].server = conn[c].server
        BY <2>1, <2>2, Closing
    <2> QED
        BY <2>2, <2>3 DEF ExchangeState
<1>9. CASE Tick \/ ReapBegin \/ \E pkt \in network : Deliver(pkt)
    BY <1>1, <1>9 DEF Tick, ReapBegin, Deliver
<1>10. CASE UNCHANGED vars
    BY <1>1, <1>10 DEF vars
<1> QED
    BY <1>2, <1>3, <1>4, <1>5, <1>6, <1>7, <1>8, <1>9, <1>10
       DEF Next, ExchangeStep, ReapStep

-----------------------------------------------------------------------------
(* Owners *)

Owned ==
    /\ ExclusiveUse
    /\ OpenIffOwned
    /\ PoolBound
    /\ PooledForItsServer

\* Steps after which the same connections are held, listed and open.
LEMMA SameOwners ==
    ASSUME Owned,
           UNCHANGED pool,
           \A t \in Threads, c \in Conns : Holds(t, c)' <=> Holds(t, c),
           \A c \in Conns : /\ conn'[c].state = conn[c].state
                             /\ conn'[c].server = conn[c].server,
           TypeOK
    PROVE  Owned'
<1>1. \A c \in Conns : Pooled(c)' <=> Pooled(c)
    BY DEF Pooled
<1>2. ExclusiveUse'
    BY <1>1 DEF Owned, ExclusiveUse
<1>3. OpenIffOwned'
    BY <1>1 DEF Owned, OpenIffOwned
<1>4. PooledForItsServer'
    <2>1. \A s \in Servers : ToSet(pool[s]) \subseteq Conns
        BY DEF TypeOK, ToSet
    <2> QED
        BY <2>1 DEF Owned, PooledForItsServer
<1>5. PoolBound'
    BY DEF Owned, PoolBound
<1> QED
    BY <1>2, <1>3, <1>4, <1>5 DEF Owned

\* The connection at the end of a list passes to the exchange that takes it.
LEMMA GetPooledOwned ==
    ASSUME TypeOK, Owned, ExchangeState,
           NEW t \in Threads, NEW s \in Servers, GetPooled(t, s)
    PROVE  Owned'
<1> DEFINE d == Last(pool[s])
<1>1. /\ d \in ToSet(pool[s]) /\ d \in Conns
      /\ Len(Front(pool[s])) <= Len(pool[s])
      /\ ToSet(pool[s]) = ToSet(Front(pool[s])) \cup {d}
      /\ IsInjective(Front(pool[s])) /\ d \notin ToSet(Front(pool[s]))
      /\ Len(pool[s]) \in Nat /\ Len(Front(pool[s])) \in Nat
    BY FrontOfList DEF GetPooled, TypeOK, Owned, ExclusiveUse
<1> HIDE DEF d
<1>2. /\ \A u \in Threads \ {t} : thread'[u] = thread[u]
      /\ thread'[t].pc = "write" /\ thread'[t].c = d
      /\ thread[t].pc = "idle"
      /\ UNCHANGED conn
      /\ pool'[s] = Front(pool[s])
      /\ \A r \in Servers \ {s} : pool'[r] = pool[r]
    BY DEF GetPooled, TypeOK, Idle, d
<1>3. /\ \A u \in Threads \ {t}, c \in Conns : Holds(u, c)' <=> Holds(u, c)
      /\ \A c \in Conns : Holds(t, c)' <=> c = d
      /\ \A c \in Conns : ~Holds(t, c)
    BY <1>2 DEF Holds, Holding
<1>4. \A r \in Servers : d \in ToSet(pool[r]) => r = s
    BY <1>1 DEF Owned, ExclusiveUse
<1>5. \A c \in Conns : Pooled(c)' <=> Pooled(c) /\ c # d
    BY <1>1, <1>2, <1>4 DEF Pooled
<1>6. Pooled(d)
    BY <1>1 DEF Pooled
<1>7. ExclusiveUse'
    <2>1. \A u, v \in Threads, c \in Conns : (Holds(u, c) /\ Holds(v, c))' => u = v
        BY <1>3, <1>6 DEF Owned, ExclusiveUse
    <2>2. \A u \in Threads, c \in Conns : Holds(u, c)' => ~Pooled(c)'
        BY <1>3, <1>5 DEF Owned, ExclusiveUse
    <2>3. \A r \in Servers : IsInjective(pool'[r])
        BY <1>1, <1>2 DEF Owned, ExclusiveUse
    <2>4. \A r \in Servers : ToSet(pool'[r]) \subseteq ToSet(pool[r])
        BY <1>1, <1>2
    <2> QED
        BY <2>1, <2>2, <2>3, <2>4 DEF Owned, ExclusiveUse
<1>8. OpenIffOwned'
    BY <1>1, <1>2, <1>3, <1>5, <1>6 DEF Owned, OpenIffOwned
<1>9. PoolBound'
    <2>1. \A r \in Servers : Len(pool[r]) <= MaxPerServer
        BY DEF Owned, PoolBound
    <2>2. Len(pool'[s]) <= MaxPerServer
        BY <1>1, <1>2, <2>1, ConnPoolConstants
    <2> QED
        BY <1>2, <2>1, <2>2 DEF PoolBound
<1>10. PooledForItsServer'
    BY <1>1, <1>2 DEF Owned, PooledForItsServer
<1> QED
    BY <1>7, <1>8, <1>9, <1>10 DEF Owned

\* A new connection belongs to the exchange that dialled it.
LEMMA DialOwned ==
    ASSUME TypeOK, Owned, ExchangeState,
           NEW t \in Threads, NEW d \in Conns, NEW id \in FirstIDs, Dial(t, d, id)
    PROVE  Owned'
<1>1. /\ \A u \in Threads \ {t} : thread'[u] = thread[u]
      /\ thread'[t].pc = "write" /\ thread'[t].c = d
      /\ thread[t].pc = "dial"
      /\ conn[d].state = "new" /\ conn'[d].state = "open"
      /\ \A c \in Conns \ {d} : conn'[c] = conn[c]
      /\ UNCHANGED pool
    BY DEF Dial, TypeOK, Exchange
<1>2. /\ \A u \in Threads \ {t}, c \in Conns : Holds(u, c)' <=> Holds(u, c)
      /\ \A c \in Conns : Holds(t, c)' <=> c = d
      /\ \A c \in Conns : ~Holds(t, c)
    BY <1>1 DEF Holds, Holding
<1>3. \A c \in Conns : Pooled(c)' <=> Pooled(c)
    BY <1>1 DEF Pooled
<1>4. ~Pooled(d) /\ \A u \in Threads : ~Holds(u, d)
    BY <1>1 DEF Owned, OpenIffOwned
<1>5. ExclusiveUse'
    BY <1>1, <1>2, <1>3, <1>4 DEF Owned, ExclusiveUse
<1>6. OpenIffOwned'
    BY <1>1, <1>2, <1>3 DEF Owned, OpenIffOwned
<1>7. PooledForItsServer'
    <2>1. \A s \in Servers : ToSet(pool[s]) \subseteq Conns \ {d}
        BY <1>4 DEF TypeOK, ToSet, Pooled
    <2> QED
        BY <1>1, <2>1 DEF Owned, PooledForItsServer
<1>8. PoolBound'
    BY <1>1 DEF Owned, PoolBound
<1> QED
    BY <1>5, <1>6, <1>7, <1>8 DEF Owned

\* An exchange closes the connection it holds and is done with it.
LEMMA CloseOwned ==
    ASSUME TypeOK, Owned, ExchangeState,
           NEW t \in Threads, PutFailed(t) \/ PutClose(t)
    PROVE  Owned'
<1> DEFINE d == thread[t].c
<1>1. d \in Conns /\ Holds(t, d) /\ thread[t].pc \in {"put", "close"}
    BY ExchangeTypes DEF PutFailed, PutClose
<1>2. {d} \in SUBSET Conns /\ Close({d}) /\ thread' = [thread EXCEPT ![t] = Idle]
      /\ UNCHANGED pool
    BY <1>1 DEF PutFailed, PutClose
<1> HIDE DEF d
<1>3. /\ conn'[d].state = "closed"
      /\ \A c \in Conns \ {d} : conn'[c] = conn[c]
      /\ \A c \in Conns : conn'[c].server = conn[c].server
    BY <1>2, Closing
<1>4. /\ \A u \in Threads \ {t}, c \in Conns : Holds(u, c)' <=> Holds(u, c)
      /\ \A c \in Conns : ~Holds(t, c)'
    BY <1>2 DEF Holds, Holding, Idle, TypeOK
<1>5. \A c \in Conns : Holds(t, c) <=> c = d
    BY <1>1 DEF Holds, d
<1>6. \A c \in Conns : Pooled(c)' <=> Pooled(c)
    BY <1>2 DEF Pooled
<1>7. ~Pooled(d) /\ \A u \in Threads \ {t} : ~Holds(u, d)
    BY <1>1 DEF Owned, ExclusiveUse
<1>8. ExclusiveUse'
    BY <1>2, <1>4, <1>6 DEF Owned, ExclusiveUse
<1>9. OpenIffOwned'
    BY <1>3, <1>4, <1>5, <1>6, <1>7 DEF Owned, OpenIffOwned
<1>10. PooledForItsServer'
    <2>1. \A s \in Servers : ToSet(pool[s]) \subseteq Conns
        BY DEF TypeOK, ToSet
    <2> QED
        BY <1>2, <1>3, <2>1 DEF Owned, PooledForItsServer
<1>11. PoolBound'
    BY <1>2 DEF Owned, PoolBound
<1> QED
    BY <1>8, <1>9, <1>10, <1>11 DEF Owned

\* A connection goes back into the list of its server, if there is room.
LEMMA PutAppendOwned ==
    ASSUME TypeOK, Owned, ExchangeState, NEW t \in Threads, PutAppend(t)
    PROVE  Owned'
<1> DEFINE d == thread[t].c
           s == thread[t].server
<1>1. /\ d \in Conns /\ s \in Servers
      /\ Holds(t, d) /\ thread[t].pc = "append"
      /\ conn[d].server = s
      /\ UNCHANGED conn
    BY ExchangeTypes DEF PutAppend
<1>2. ~Pooled(d) /\ \A u \in Threads \ {t} : ~Holds(u, d)
    BY <1>1 DEF Owned, ExclusiveUse
<1>3. \A c \in Conns : Holds(t, c) <=> c = d
    BY <1>1 DEF Holds, d
<1>4. CASE Len(pool[s]) < MaxPerServer
    <2>1. /\ \A u \in Threads \ {t}, c \in Conns : Holds(u, c)' <=> Holds(u, c)
          /\ \A c \in Conns : ~Holds(t, c)'
        BY <1>4 DEF PutAppend, Holds, Holding, Idle, TypeOK
    <2>2. pool[s] \in Seq(Conns) /\ d \notin ToSet(pool[s])
        BY <1>1, <1>2 DEF TypeOK, Pooled
    <2>3. pool' = [pool EXCEPT ![s] = Append(pool[s], d)]
        BY <1>4 DEF PutAppend
    <2> HIDE DEF d, s
    <2>4. /\ pool'[s] = Append(pool[s], d)
          /\ \A r \in Servers \ {s} : pool'[r] = pool[r]
        BY <1>1, <2>3 DEF TypeOK
    <2>5. /\ Len(pool'[s]) = Len(pool[s]) + 1
          /\ ToSet(pool'[s]) = ToSet(pool[s]) \cup {d}
          /\ IsInjective(pool'[s])
        BY <1>1, <2>2, <2>4, AppendToList DEF Owned, ExclusiveUse
    <2>6. \A c \in Conns : Pooled(c)' <=> Pooled(c) \/ c = d
        BY <1>1, <2>4, <2>5 DEF Pooled
    <2>7. ExclusiveUse'
        <3>1. \A u, v \in Threads, c \in Conns : (Holds(u, c) /\ Holds(v, c))' => u = v
            BY <2>1 DEF Owned, ExclusiveUse
        <3>2. \A u \in Threads, c \in Conns : Holds(u, c)' => ~Pooled(c)'
            BY <1>2, <2>1, <2>6 DEF Owned, ExclusiveUse
        <3>3. \A r \in Servers : IsInjective(pool'[r])
            BY <2>4, <2>5 DEF Owned, ExclusiveUse
        <3>4. \A r \in Servers : d \notin ToSet(pool[r])
            BY <1>2 DEF Pooled
        <3>5. \A q, r \in Servers :
                 ToSet(pool'[q]) \cap ToSet(pool'[r]) # {} => q = r
            <4>1. \A q, r \in Servers : ToSet(pool[q]) \cap ToSet(pool[r]) # {} => q = r
                BY DEF Owned, ExclusiveUse
            <4>2. \A r \in Servers : \/ r = s
                                     \/ ToSet(pool'[r]) = ToSet(pool[r])
                BY <2>4
            <4> QED
                BY <2>5, <3>4, <4>1, <4>2
        <3> QED
            BY <3>1, <3>2, <3>3, <3>5 DEF ExclusiveUse
    <2>8. OpenIffOwned'
        BY <1>1, <1>3, <2>1, <2>6 DEF Owned, OpenIffOwned
    <2>9. PooledForItsServer'
        BY <1>1, <2>4, <2>5 DEF Owned, PooledForItsServer
    <2>10. PoolBound'
        <3>1. Len(pool'[s]) <= MaxPerServer
            BY <1>4, <2>2, <2>5, ConnPoolConstants DEF s
        <3> QED
            BY <2>4, <3>1 DEF Owned, PoolBound
    <2> QED
        BY <2>7, <2>8, <2>9, <2>10 DEF Owned
<1>5. CASE ~(Len(pool[s]) < MaxPerServer)
    <2>1. /\ UNCHANGED pool
          /\ thread' = [thread EXCEPT ![t] = [thread[t] EXCEPT !.pc = "close"]]
        BY <1>5 DEF PutAppend, TypeOK
    <2>2. \A u \in Threads, c \in Conns : Holds(u, c)' <=> Holds(u, c)
        BY <1>1, <2>1 DEF Holds, Holding, TypeOK, Exchange
    <2> QED
        BY <1>1, <2>1, <2>2, SameOwners
<1> QED
    BY <1>4, <1>5

\* The janitor closes what it takes out of a list, and keeps the rest.
LEMMA ReapOwned ==
    ASSUME TypeOK, Owned, NEW s \in Servers, ReapServer(s)
    PROVE  Owned'
<1> DEFINE list == pool[s]
           fresh == {i \in DOMAIN list : ~Stale(list[i])}
           dead == {list[i] : i \in DOMAIN list \ fresh}
<1>1. /\ list \in Seq(Conns) /\ fresh \in SUBSET DOMAIN list
      /\ IsInjective(list) /\ Len(list) <= MaxPerServer /\ Len(list) \in Nat
      /\ dead \in SUBSET Conns
      /\ dead \subseteq ToSet(list)
    BY DEF TypeOK, Owned, ExclusiveUse, PoolBound, ToSet
<1>2. /\ Close(dead) /\ UNCHANGED thread
      /\ pool' = [pool EXCEPT ![s] = Kept(list, fresh)]
    BY DEF ReapServer
<1>3. ToSet(list) \ dead = {list[i] : i \in fresh}
    BY <1>1 DEF ToSet, IsInjective
<1> HIDE DEF fresh, dead
<1>4. /\ Len(Kept(list, fresh)) <= Len(list)
      /\ Len(Kept(list, fresh)) \in Nat
      /\ ToSet(Kept(list, fresh)) = ToSet(list) \ dead
      /\ IsInjective(Kept(list, fresh))
    BY <1>1, <1>3, KeptOfList
<1>5. /\ pool'[s] = Kept(list, fresh)
      /\ \A r \in Servers \ {s} : pool'[r] = pool[r]
    BY <1>2 DEF TypeOK
<1> HIDE DEF list
<1>6. /\ \A c \in dead : conn'[c].state = "closed"
      /\ \A c \in Conns \ dead : conn'[c] = conn[c]
      /\ \A c \in Conns : conn'[c].server = conn[c].server
    BY <1>1, <1>2, Closing
<1>7. ToSet(list) = ToSet(pool[s])
    BY DEF list
<1>8. \A r \in Servers : r # s => ToSet(pool[r]) \cap dead = {}
    BY <1>1, <1>7 DEF Owned, ExclusiveUse
<1>9. \A c \in Conns : Pooled(c)' <=> Pooled(c) /\ c \notin dead
    BY <1>4, <1>5, <1>7, <1>8 DEF Pooled
<1>10. /\ \A u \in Threads, c \in Conns : Holds(u, c)' <=> Holds(u, c)
       /\ \A c \in dead : Pooled(c)
    BY <1>1, <1>2, <1>7 DEF Holds, Pooled
<1>11. \A r \in Servers : ToSet(pool'[r]) \subseteq ToSet(pool[r])
    BY <1>4, <1>5, <1>7
<1>12. ExclusiveUse'
    <2>1. \A r \in Servers : IsInjective(pool'[r])
        BY <1>4, <1>5 DEF Owned, ExclusiveUse
    <2> QED
        BY <1>9, <1>10, <1>11, <2>1 DEF Owned, ExclusiveUse
<1>13. OpenIffOwned'
    <2>1. \A c \in dead, u \in Threads : ~Holds(u, c)
        BY <1>1, <1>10 DEF Owned, ExclusiveUse
    <2> QED
        BY <1>1, <1>6, <1>9, <1>10, <2>1 DEF Owned, OpenIffOwned
<1>14. PooledForItsServer'
    <2>1. \A r \in Servers : ToSet(pool[r]) \subseteq Conns
        BY DEF TypeOK, ToSet
    <2> QED
        BY <1>6, <1>11, <2>1 DEF Owned, PooledForItsServer
<1>15. PoolBound'
    <2>1. Len(pool'[s]) <= MaxPerServer
        BY <1>1, <1>4, <1>5, ConnPoolConstants
    <2> QED
        BY <1>5, <2>1 DEF Owned, PoolBound
<1> QED
    BY <1>12, <1>13, <1>14, <1>15 DEF Owned

LEMMA OwnedInductive ==
    ASSUME TypeOK, ExchangeState, Owned, [Next]_vars
    PROVE  Owned'
<1>1. CASE UNCHANGED <<thread, pool, conn>>
    BY <1>1, SameOwners DEF Holds
<1>2. CASE Tick \/ ReapBegin \/ \E pkt \in network : Deliver(pkt)
    BY <1>1, <1>2 DEF Tick, ReapBegin, Deliver
<1>3. ASSUME NEW t \in Threads,
             \/ \E s \in Servers : GetEmpty(t, s)
             \/ DialFails(t)
      PROVE  Owned'
    <2>1. \A u \in Threads, c \in Conns : Holds(u, c)' <=> Holds(u, c)
        BY <1>3 DEF GetEmpty, DialFails, Holds, Holding, Idle, TypeOK
    <2> QED
        BY <1>3, <2>1, SameOwners DEF GetEmpty, DialFails
<1>4. ASSUME NEW t \in Threads,
             Write(t) \/ WriteFails(t) \/ Read(t) \/ ReadFails(t) \/ PutStamp(t)
      PROVE  Owned'
    <2>1. /\ \A u \in Threads \ {t} : thread'[u] = thread[u]
          /\ thread'[t].c = thread[t].c
          /\ thread[t].pc \in Holding
          /\ thread'[t].pc \in {"read", "put", "append"}
        BY <1>4 DEF Write, WriteFails, Read, ReadFails, PutStamp, TypeOK, Exchange, Holding
    <2>2. \A u \in Threads, c \in Conns : Holds(u, c)' <=> Holds(u, c)
        BY <2>1 DEF Holds, Holding
    <2>3. \A c \in Conns : conn'[c].state = conn[c].state /\ conn'[c].server = conn[c].server
        <3>1. CASE Write(t) \/ WriteFails(t)
            <4>1. PICK i, n : conn' = [conn EXCEPT ![thread[t].c] =
                                [conn[thread[t].c] EXCEPT !.nextID = i, !.used = n]]
                <5>1. CASE Write(t)
                    BY <5>1, ExchangeTypes DEF Write, TypeOK
                <5>2. CASE WriteFails(t)
                    <6>1. conn' = [conn EXCEPT ![thread[t].c] =
                             [conn[thread[t].c] EXCEPT
                                 !.nextID = (conn[thread[t].c].nextID + 1) % IDs,
                                 !.used = conn[thread[t].c].used]]
                        BY <5>2, ExchangeTypes DEF WriteFails, TypeOK, Connection
                    <6> QED
                        BY <6>1
                <5> QED
                    BY <3>1, <5>1, <5>2
            <4> QED
                BY <4>1 DEF TypeOK, Connection
        <3>2. CASE Read(t) \/ ReadFails(t)
            BY <3>2 DEF Read, ReadFails
        <3>3. CASE PutStamp(t)
            BY <3>3 DEF PutStamp, TypeOK, Connection
        <3> QED
            BY <1>4, <3>1, <3>2, <3>3
    <2>4. UNCHANGED pool
        BY <1>4 DEF Write, WriteFails, Read, ReadFails, PutStamp
    <2> QED
        BY <2>2, <2>3, <2>4, SameOwners
<1>5. CASE UNCHANGED vars
    BY <1>1, <1>5 DEF vars
<1> QED
    BY <1>2, <1>3, <1>4, <1>5, GetPooledOwned, DialOwned, CloseOwned, PutAppendOwned,
       ReapOwned DEF Next, ExchangeStep, ReapStep

-----------------------------------------------------------------------------
(* Replies *)

\* A connection that is not used to write: some replies are gone, at most.
LEMMA SameReplies ==
    ASSUME NEW c \in Conns, Numbered(c),
           Replies(c)' \subseteq Replies(c),
           conn'[c].nextID = conn[c].nextID,
           conn'[c].used = conn[c].used,
           conn'[c].state = conn[c].state \/ Replies(c)' = {},
           GivenUp(c) => GivenUp(c)' \/ Replies(c)' = {}
    PROVE  Numbered(c)'
BY DEF Numbered, TellsItsAge

\* The step of an exchange that has not given up leaves the others as they are.
LEMMA StillGivenUp ==
    ASSUME NEW t \in Threads,
           \A u \in Threads \ {t} : thread'[u] = thread[u],
           thread[t].pc # "put" \/ ~thread[t].failed
    PROVE  \A c \in Conns : GivenUp(c) => GivenUp(c)'
BY DEF GivenUp

\* A request gets the next number, and the ID that goes with it.
LEMMA WriteNumbered ==
    ASSUME TypeOK, ExchangeState, Owned, RepliesNumbered,
           NEW t \in Threads, Write(t)
    PROVE  RepliesNumbered'
<1>1. PICK d \in Conns : /\ d = thread[t].c
                        /\ Holds(t, d) /\ thread[t].pc = "write"
                        /\ conn[d] \in Connection
    BY ExchangeTypes DEF Write, TypeOK
<1>2. /\ conn' = [conn EXCEPT ![d] = [conn[d] EXCEPT !.nextID = (@ + 1) % IDs,
                                                    !.used = @ + 1]]
      /\ network' = network \cup {Packet(d)}
      /\ UNCHANGED inbox
      /\ \A u \in Threads \ {t} : thread'[u] = thread[u]
    BY <1>1 DEF Write, TypeOK
<1>3. ~GivenUp(d) /\ conn[d].state = "open"
    <2>1. \A u \in Threads : thread[u].pc = "put" /\ thread[u].c = d => u = t
        BY <1>1 DEF Owned, ExclusiveUse, Holds, Holding
    <2> QED
        BY <1>1, <2>1 DEF Owned, OpenIffOwned, GivenUp
<1>4. ASSUME NEW c \in Conns \ {d}
      PROVE  Numbered(c)'
    <2>1. Replies(c)' = Replies(c)
        BY <1>2 DEF Replies, Packet
    <2>2. conn'[c] = conn[c]
        BY <1>2 DEF TypeOK
    <2> QED
        BY <1>1, <1>2, <2>1, <2>2, SameReplies, StillGivenUp DEF RepliesNumbered
<1>5. PICK i \in 0 .. IDs - 1, k \in Nat : i = conn[d].nextID /\ k = conn[d].used
    BY <1>1 DEF Connection
<1>6. /\ conn'[d].nextID = IF i + 1 = IDs THEN 0 ELSE i + 1
      /\ conn'[d].used = k + 1
      /\ conn'[d].state = "open"
    BY <1>1, <1>2, <1>3, <1>5, NextID DEF TypeOK, Connection
<1>7. Replies(d)' = Replies(d) \cup {[id |-> i, n |-> k + 1]}
    <2>1. Packet(d).c = d /\ [id |-> Packet(d).id, n |-> Packet(d).n] = [id |-> i, n |-> k + 1]
        BY <1>5 DEF Packet
    <2>2. {p \in network' : p.c = d} = {p \in network : p.c = d} \cup {Packet(d)}
        BY <1>2, <2>1
    <2> QED
        BY <1>2, <2>1, <2>2 DEF Replies
<1>8. ASSUME NEW r \in Replies(d)'
      PROVE  TellsItsAge(d, r)'
    <2>1. IDs \in Nat \ {0}
        BY ConnPoolConstants
    <2>2. CASE r = [id |-> i, n |-> k + 1]
        BY <1>6, <2>1, <2>2 DEF TellsItsAge
    <2>3. CASE r \in Replies(d)
        <3>1. PICK a \in 0 .. IDs - 1, n \in Nat : a = r.id /\ n = r.n
            <4>1. inbox[d] \in Seq(Received)
                BY DEF TypeOK
            <4>2. \A x \in ToSet(inbox[d]) : x \in Received
                BY <4>1 DEF ToSet
            <4> QED
                BY <2>3, <4>2 DEF Replies, TypeOK, Received
        <3>2. k - n \in Nat /\ (k - n < IDs => i = a + (k - n) + 1 \/ i = a + (k - n) + 1 - IDs)
            BY <1>1, <1>3, <1>5, <2>3, <3>1 DEF RepliesNumbered, Numbered, TellsItsAge
        <3>3. /\ k + 1 - n \in Nat
              /\ k + 1 - n < IDs =>
                    \/ conn'[d].nextID = a + (k + 1 - n) + 1
                    \/ conn'[d].nextID = a + (k + 1 - n) + 1 - IDs
            BY <1>6, <2>1, <3>2
        <3> QED
            BY <1>6, <3>1, <3>3 DEF TellsItsAge
    <2> QED
        BY <1>7, <2>2, <2>3
<1>9. Numbered(d)'
    BY <1>6, <1>8 DEF Numbered
<1> QED
    BY <1>4, <1>9 DEF RepliesNumbered

\* The network delivers what was on its way.
LEMMA DeliverNumbered ==
    ASSUME TypeOK, RepliesNumbered, NEW pkt \in network, Deliver(pkt)
    PROVE  RepliesNumbered'
<1>1. pkt.c \in Conns /\ [id |-> pkt.id, n |-> pkt.n] \in Received
    BY DEF TypeOK, Received
<1>2. /\ ToSet(inbox'[pkt.c]) = ToSet(inbox[pkt.c]) \cup {[id |-> pkt.id, n |-> pkt.n]}
      /\ \A c \in Conns \ {pkt.c} : inbox'[c] = inbox[c]
    BY <1>1, AppendToList DEF Deliver, TypeOK
<1>3. \A p \in network' : \E q \in network : q.c = p.c /\ q.id = p.id /\ q.n = p.n
    BY DEF Deliver, TypeOK
<1>4. ASSUME NEW c \in Conns
      PROVE  Replies(c)' \subseteq Replies(c)
    BY <1>2, <1>3 DEF Replies
<1> QED
    BY <1>4, SameReplies DEF RepliesNumbered, Deliver, GivenUp

\* The steps that neither write nor touch a socket.
LEMMA QuietNumbered ==
    ASSUME TypeOK, ExchangeState, RepliesNumbered, NEW t \in Threads,
           \/ \E s \in Servers : GetPooled(t, s) \/ GetEmpty(t, s)
           \/ DialFails(t) \/ ReadFails(t) \/ PutStamp(t) \/ PutAppend(t)
    PROVE  RepliesNumbered'
<1>1. /\ UNCHANGED <<inbox, network>>
      /\ \A u \in Threads \ {t} : thread'[u] = thread[u]
    BY DEF GetPooled, GetEmpty, DialFails, ReadFails, PutStamp, PutAppend, TypeOK
<1>2. thread[t].pc # "put" \/ ~thread[t].failed
    BY DEF GetPooled, GetEmpty, DialFails, ReadFails, PutStamp, PutAppend, Idle
<1>3. \A c \in Conns : /\ conn'[c].nextID = conn[c].nextID
                       /\ conn'[c].used = conn[c].used
                       /\ conn'[c].state = conn[c].state
    <2>1. CASE PutStamp(t)
        BY <2>1 DEF PutStamp, TypeOK, Connection
    <2>2. CASE ~PutStamp(t)
        BY <2>2 DEF GetPooled, GetEmpty, DialFails, ReadFails, PutAppend
    <2> QED
        BY <2>1, <2>2
<1>4. \A c \in Conns : Replies(c)' = Replies(c)
    BY <1>1 DEF Replies
<1> QED
    BY <1>1, <1>2, <1>3, <1>4, SameReplies, StillGivenUp DEF RepliesNumbered

\* A connection that is dialled has had no replies.
LEMMA DialNumbered ==
    ASSUME TypeOK, ExchangeState, RepliesNumbered,
           NEW t \in Threads, NEW d \in Conns, NEW id \in FirstIDs, Dial(t, d, id)
    PROVE  RepliesNumbered'
<1>1. /\ UNCHANGED <<inbox, network>>
      /\ \A u \in Threads \ {t} : thread'[u] = thread[u]
      /\ thread[t].pc # "put"
      /\ conn[d].state # "open"
      /\ \A c \in Conns \ {d} : conn'[c] = conn[c]
    BY DEF Dial, TypeOK
<1>2. \A c \in Conns : Replies(c)' = Replies(c)
    BY <1>1 DEF Replies
<1>3. \A c \in Conns : GivenUp(c) => GivenUp(c)'
    BY <1>1, StillGivenUp
<1>4. ASSUME NEW c \in Conns \ {d}
      PROVE  Numbered(c)'
    BY <1>1, <1>2, <1>3, SameReplies DEF RepliesNumbered
<1>5. Numbered(d)'
    BY <1>1, <1>2 DEF RepliesNumbered, Numbered
<1> QED
    BY <1>4, <1>5 DEF RepliesNumbered

\* A connection whose request was not written is given up.
LEMMA WriteFailsNumbered ==
    ASSUME TypeOK, ExchangeState, RepliesNumbered, NEW t \in Threads, WriteFails(t)
    PROVE  RepliesNumbered'
<1>1. PICK d \in Conns : d = thread[t].c /\ thread[t].pc = "write" /\ thread[t].failed
    BY ExchangeTypes DEF WriteFails, ExchangeState
<1>2. /\ UNCHANGED <<inbox, network>>
      /\ \A u \in Threads \ {t} : thread'[u] = thread[u]
      /\ \A c \in Conns \ {d} : conn'[c] = conn[c]
      /\ conn'[d].state = conn[d].state
    BY <1>1 DEF WriteFails, TypeOK, Connection
<1>3. \A c \in Conns : Replies(c)' = Replies(c)
    BY <1>2 DEF Replies
<1>4. GivenUp(d)'
    <2>1. thread'[t] = [thread[t] EXCEPT !.pc = "put"] /\ thread[t] \in Exchange
        BY DEF WriteFails, TypeOK
    <2>2. thread'[t].pc = "put" /\ thread'[t].c = d
        BY <1>1, <2>1 DEF Exchange
    <2>3. thread'[t].failed
        BY <1>1, <2>1 DEF Exchange
    <2> QED
        BY <2>2, <2>3 DEF GivenUp
<1>5. \A c \in Conns : GivenUp(c) => GivenUp(c)'
    BY <1>1, <1>2, StillGivenUp
<1>6. ASSUME NEW c \in Conns \ {d}
      PROVE  Numbered(c)'
    BY <1>2, <1>3, <1>5, SameReplies DEF RepliesNumbered
<1>7. Numbered(d)'
    BY <1>2, <1>3, <1>4 DEF RepliesNumbered, Numbered
<1> QED
    BY <1>6, <1>7 DEF RepliesNumbered

\* A reply that has been read is no longer waiting.
LEMMA ReadNumbered ==
    ASSUME TypeOK, ExchangeState, RepliesNumbered, NEW t \in Threads, Read(t)
    PROVE  RepliesNumbered'
<1>1. PICK d \in Conns : d = thread[t].c /\ thread[t].pc = "read"
    BY ExchangeTypes DEF Read
<1>2. /\ UNCHANGED <<conn, network>>
      /\ \A u \in Threads \ {t} : thread'[u] = thread[u]
      /\ \A c \in Conns \ {d} : inbox'[c] = inbox[c]
      /\ inbox[d] # <<>> /\ inbox'[d] = Tail(inbox[d])
    BY <1>1 DEF Read, TypeOK
<1>3. \A c \in Conns : ToSet(inbox'[c]) \subseteq ToSet(inbox[c])
    BY <1>2, TailOfList DEF TypeOK
<1>4. \A c \in Conns : Replies(c)' \subseteq Replies(c)
    BY <1>2, <1>3 DEF Replies
<1>5. \A c \in Conns : GivenUp(c) => GivenUp(c)'
    BY <1>1, <1>2, StillGivenUp
<1> QED
    BY <1>2, <1>4, <1>5, SameReplies DEF RepliesNumbered

\* What is closed has no replies any more.
LEMMA ClosedNumbered ==
    ASSUME TypeOK, RepliesNumbered, NEW C \in SUBSET Conns, Close(C),
           \A c \in Conns \ C : GivenUp(c) => GivenUp(c)'
    PROVE  RepliesNumbered'
<1>1. /\ network' \subseteq network
      /\ \A pkt \in network' : pkt.c \notin C
      /\ \A c \in C : inbox'[c] = <<>>
      /\ \A c \in Conns \ C : conn'[c] = conn[c] /\ inbox'[c] = inbox[c]
    BY Closing
<1>2. \A c \in C : Replies(c)' = {}
    BY <1>1 DEF Replies, ToSet
<1>3. \A c \in Conns \ C : Replies(c)' \subseteq Replies(c)
    BY <1>1 DEF Replies
<1>4. ASSUME NEW c \in Conns \ C
      PROVE  Numbered(c)'
    BY <1>1, <1>3, <1>4, SameReplies DEF RepliesNumbered
<1>5. ASSUME NEW c \in C
      PROVE  Numbered(c)'
    BY <1>2 DEF Numbered
<1> QED
    BY <1>4, <1>5 DEF RepliesNumbered

LEMMA NumberedInductive ==
    ASSUME TypeOK, ExchangeState, Owned, RepliesNumbered, [Next]_vars
    PROVE  RepliesNumbered'
<1>1. CASE UNCHANGED <<conn, inbox, network, thread>>
    <2>1. \A c \in Conns : Numbered(c)' <=> Numbered(c)
        BY <1>1 DEF Numbered, TellsItsAge, Replies, GivenUp
    <2> QED
        BY <2>1 DEF RepliesNumbered
<1>2. CASE Tick \/ ReapBegin \/ UNCHANGED vars
    BY <1>1, <1>2 DEF Tick, ReapBegin, vars
<1>3. ASSUME NEW t \in Threads, PutFailed(t) \/ PutClose(t)
      PROVE  RepliesNumbered'
    <2>1. PICK d \in Conns : d = thread[t].c
        BY <1>3, ExchangeTypes DEF PutFailed, PutClose
    <2>2. Close({d}) /\ \A u \in Threads \ {t} : thread'[u] = thread[u]
        BY <1>3, <2>1 DEF PutFailed, PutClose, TypeOK
    <2>3. \A c \in Conns \ {d} : GivenUp(c) => GivenUp(c)'
        BY <2>1, <2>2 DEF GivenUp
    <2> QED
        BY <2>2, <2>3, ClosedNumbered
<1>4. ASSUME NEW s \in Servers, ReapServer(s)
      PROVE  RepliesNumbered'
    <2>1. PICK C \in SUBSET Conns : Close(C) /\ UNCHANGED thread
        <3>1. \A i \in DOMAIN pool[s] : pool[s][i] \in Conns
            BY DEF TypeOK
        <3> QED
            BY <1>4, <3>1 DEF ReapServer
    <2> QED
        BY <2>1, ClosedNumbered DEF GivenUp
<1> QED
    BY <1>2, <1>3, <1>4, QuietNumbered, DialNumbered, WriteNumbered, WriteFailsNumbered,
       ReadNumbered, DeliverNumbered DEF Next, ExchangeStep, ReapStep

-----------------------------------------------------------------------------
(* The invariant and what follows from it *)

LEMMA InitIInv == Init => IInv
<1> SUFFICES ASSUME Init
             PROVE  IInv
    OBVIOUS
<1> USE ConnPoolConstants
<1>1. Fresh \in Connection /\ Idle \in Exchange /\ <<>> \in Seq(Received) /\ <<>> \in Seq(Conns)
    BY DEF Fresh, Connection, Idle, Exchange
<1>2. TypeOK
    BY <1>1 DEF Init, TypeOK
<1>3. ExchangeState
    BY DEF Init, ExchangeState, Idle, Holding
<1>4. /\ \A t \in Threads, c \in Conns : ~Holds(t, c)
      /\ \A c \in Conns : ~Pooled(c)
    BY DEF Init, Holds, Holding, Idle, Pooled, ToSet
<1>5. ExclusiveUse /\ PoolBound /\ PooledForItsServer
    BY <1>4 DEF Init, ExclusiveUse, IsInjective, ToSet, PoolBound, PooledForItsServer
<1>6. OpenIffOwned
    BY <1>4 DEF Init, OpenIffOwned, Fresh
<1>7. RepliesNumbered
    <2>1. \A c \in Conns : Replies(c) = {}
        BY DEF Init, Replies, ToSet
    <2> QED
        BY <2>1 DEF RepliesNumbered, Numbered
<1> QED
    BY <1>2, <1>3, <1>5, <1>6, <1>7 DEF IInv

LEMMA IInvInductive == IInv /\ [Next]_vars => IInv'
BY TypeInductive, ExchangeInductive, OwnedInductive, NumberedInductive DEF IInv, Owned

\* The inductive invariant of the pool: owners, lists and reply numbers hang
\* together in every reachable state (connpool.go:84-154).
THEOREM ConnPoolInvariant == Spec => []IInv
BY InitIInv, IInvInductive, PTL DEF Spec

\* The types of the pool's state never change.
THEOREM ConnPoolTypeOK == Spec => []TypeOK
<1>1. IInv => TypeOK
    BY DEF IInv
<1> QED
    BY <1>1, ConnPoolInvariant, PTL

\* get hands a connection to one exchange at a time, and put gives it up before
\* anybody else can have it (connpool.go:84-127).
THEOREM ConnPoolExclusiveUse == Spec => []ExclusiveUse
<1>1. IInv => ExclusiveUse
    BY DEF IInv
<1> QED
    BY <1>1, ConnPoolInvariant, PTL

\* No socket leaks and none is closed under its owner (connpool.go:111-154).
THEOREM ConnPoolOpenIffOwned == Spec => []OpenIffOwned
<1>1. IInv => OpenIffOwned
    BY DEF IInv
<1> QED
    BY <1>1, ConnPoolInvariant, PTL

\* put never lets a list grow past the limit (connpool.go:120).
THEOREM ConnPoolBound == Spec => []PoolBound
<1>1. IInv => PoolBound
    BY DEF IInv
<1> QED
    BY <1>1, ConnPoolInvariant, PTL

\* A list only holds connections to its server (connpool.go:84-127).
THEOREM ConnPoolPooledForItsServer == Spec => []PooledForItsServer
<1>1. IInv => PooledForItsServer
    BY DEF IInv
<1> QED
    BY <1>1, ConnPoolInvariant, PTL

\* Comparing the IDs is enough to tell a reply from those to earlier requests
\* until the 16-bit counter has gone round (resolver.go:548, 696, 761).
THEOREM ConnPoolAcceptsOwnReply == Spec => AcceptsOwnReply
<1> DEFINE Own(t) ==
        /\ thread[t].pc = "read" /\ thread'[t].pc = "put" /\ ~thread'[t].failed
        => LET n == Head(inbox[thread[t].c]).n
               used == conn[thread[t].c].used
           IN  n = used \/ used - n >= IDs
<1>1. ASSUME IInv, [Next]_vars, NEW t \in Threads,
             thread[t].pc = "read", thread'[t].pc = "put", ~thread'[t].failed
      PROVE  Own(t)
    <2>1. TypeOK /\ ExchangeState /\ Owned /\ RepliesNumbered
        BY <1>1 DEF IInv, Owned
    <2>2. PICK d \in Conns : d = thread[t].c /\ Holds(t, d) /\ conn[d] \in Connection
        BY <1>1, <2>1, ExchangeTypes DEF TypeOK
    <2>3. Read(t)
        <3>1. thread' # thread
            BY <1>1
        <3>2. \E u \in Threads : \/ \E s \in Servers : GetPooled(u, s) \/ GetEmpty(u, s)
                                 \/ ExchangeStep(u)
            BY <1>1, <3>1 DEF Next, Tick, Deliver, ReapStep, ReapBegin, ReapServer, vars
        <3>3. PICK u \in Threads : \/ \E s \in Servers : GetPooled(u, s) \/ GetEmpty(u, s)
                                   \/ ExchangeStep(u)
            BY <3>2
        <3>4. u = t
            <4>1. \A v \in Threads \ {u} : thread'[v] = thread[v]
                BY <2>1, <3>3 DEF GetPooled, GetEmpty, ExchangeStep, Dial, DialFails, Write,
                   WriteFails, Read, ReadFails, PutFailed, PutStamp, PutAppend, PutClose, TypeOK
            <4> QED
                BY <1>1, <4>1
        <3>5. Read(t) \/ ReadFails(t)
            BY <1>1, <3>3, <3>4 DEF GetPooled, GetEmpty, ExchangeStep, Dial, DialFails, Write,
               WriteFails, PutFailed, PutStamp, PutAppend, PutClose, Idle
        <3>6. ~ReadFails(t)
            <4>1. thread[t].failed
                BY <1>1, <2>1 DEF ExchangeState
            <4>2. ReadFails(t) => thread'[t] = [thread[t] EXCEPT !.pc = "put"]
                BY <2>1 DEF ReadFails, TypeOK
            <4>3. thread[t] \in Exchange
                BY <2>1 DEF TypeOK
            <4>4. ReadFails(t) => thread'[t].failed = thread[t].failed
                BY <4>2, <4>3 DEF Exchange
            <4> QED
                BY <1>1, <4>1, <4>4
        <3> QED
            BY <3>5, <3>6
    <2>4. PICK i, n : i = Head(inbox[d]).id /\ n = Head(inbox[d]).n
        OBVIOUS
    <2>5. inbox[d] # <<>> /\ i = SentID(d)
        <3>1. /\ inbox[d] # <<>>
              /\ thread'[t] = [thread[t] EXCEPT !.pc = "put", !.failed = i # SentID(d)]
              /\ thread[t] \in Exchange
            BY <2>1, <2>2, <2>3, <2>4 DEF Read, TypeOK
        <3>2. thread'[t].failed = (i # SentID(d))
            BY <3>1 DEF Exchange
        <3> QED
            BY <1>1, <3>1, <3>2
    <2>6. Head(inbox[d]) \in Replies(d) /\ Head(inbox[d]) \in Received
        <3>1. inbox[d] \in Seq(Received) /\ Head(inbox[d]) \in ToSet(inbox[d])
            BY <2>1, <2>5, TailOfList DEF TypeOK
        <3> QED
            BY <3>1 DEF Replies, ToSet
    <2>7. ~GivenUp(d)
        BY <1>1, <2>1, <2>2 DEF GivenUp, Owned, ExclusiveUse, Holds, Holding
    <2>8. TellsItsAge(d, Head(inbox[d]))
        BY <2>1, <2>6, <2>7 DEF RepliesNumbered, Numbered
    <2>9. PICK k \in Nat, next \in 0 .. IDs - 1 : k = conn[d].used /\ next = conn[d].nextID
        BY <2>2 DEF Connection
    <2>10. /\ i \in 0 .. IDs - 1 /\ n \in Nat
           /\ i = IF next = 0 THEN IDs - 1 ELSE next - 1
        BY <2>4, <2>5, <2>6, <2>9, NextID DEF Received, SentID
    <2>11. k - n \in Nat /\ (k - n < IDs => next \in {i + (k - n) + 1, i + (k - n) + 1 - IDs})
        BY <2>4, <2>8, <2>9 DEF TellsItsAge
    <2>12. n = k \/ k - n >= IDs
        BY <2>9, <2>10, <2>11, ConnPoolConstants
    <2> QED
        BY <2>2, <2>4, <2>9, <2>12
<1>2. ASSUME IInv, [Next]_vars
      PROVE  \A t \in Threads : Own(t)
    <2> TAKE t \in Threads
    <2>1. CASE thread[t].pc = "read" /\ thread'[t].pc = "put" /\ ~thread'[t].failed
        <3>1. Own(t)
            BY <1>1, <1>2, <2>1
        <3> QED
            BY <3>1
    <2>2. CASE ~(thread[t].pc = "read" /\ thread'[t].pc = "put" /\ ~thread'[t].failed)
        BY ONLY <2>2
    <2> QED
        BY <2>1, <2>2
<1>3. IInv /\ [Next]_vars => [\A t \in Threads : Own(t)]_vars
    BY <1>2
<1> QED
    BY <1>3, ConnPoolInvariant, PTL DEF Spec, AcceptsOwnReply
=============================================================================
