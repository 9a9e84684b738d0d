------------------------------ MODULE ConnPool ------------------------------
(***************************************************************************)
(* The pool of upstream connections (internal/server/connpool.go) and the  *)
(* exchange that query, queryForwarder and queryTCPPool (resolver.go) run  *)
(* over a pooled connection: get, write a request with the connection's    *)
(* next ID, read one reply, compare the IDs, put.                          *)
(*                                                                         *)
(* The pool shards only split the lock; every step below touches the list  *)
(* of one server, under the lock of its shard.  A connection that is       *)
(* dialled is taken from Conns; a closed one is never dialled again.  The  *)
(* network may lose a reply, deliver it late, or deliver a second copy.    *)
(***************************************************************************)
EXTENDS Integers, Sequences, FiniteSets, SequencesExt

CONSTANTS
    Servers,       \* upstream addresses
    Conns,         \* connections that may be dialled
    Threads,       \* goroutines that run exchanges
    MaxPerServer,  \* poolSizePerServer, tcpPoolSizePerServer
    IDs,           \* number of message IDs (2^16 in the code)
    Copies,        \* how often the network may deliver one reply
    FirstIDs,      \* the random IDs a new connection may start with
    MaxIdle,       \* poolIdleTimeout, in ticks
    MaxExchanges,  \* bound: exchanges over one connection
    MaxTime,       \* bound: the clock stops here
    None           \* no connection, no server

ASSUME ConnPoolConstants ==
    /\ IsFiniteSet(Conns)
    /\ MaxPerServer \in Nat
    /\ IDs \in Nat \ {0}
    /\ Copies \in Nat
    /\ FirstIDs \subseteq 0 .. IDs - 1
    /\ MaxIdle \in Nat
    /\ MaxExchanges \in Nat
    /\ MaxTime \in Nat
    /\ None \notin Conns \cup Servers

VARIABLES
    now,      \* the clock
    pool,     \* shards[..].conns: the idle connections of each server
    conn,     \* the connections: state, nextID, lastUsed
    inbox,    \* the replies waiting in each connection's socket
    network,  \* the replies the network may still deliver
    thread,   \* local state of each exchange
    reaper    \* local state of poolJanitorLoop

vars == <<now, pool, conn, inbox, network, thread, reaper>>

-----------------------------------------------------------------------------
(* Data *)

Idle == [pc |-> "idle", server |-> None, c |-> None, failed |-> FALSE]

\* `used' is a ghost: the number of requests written to the connection.
Fresh == [state |-> "new", server |-> None, nextID |-> 0, lastUsed |-> 0, used |-> 0]

\* The reply to the next request: its ID and, as a ghost, which of the
\* exchanges of the connection it belongs to.  It may be delivered `left'
\* times, or be lost and never be delivered.
Packet(c) ==
    [c |-> c, id |-> conn[c].nextID, n |-> conn[c].used + 1, left |-> Copies]

Pooled(c) == \E s \in Servers : c \in ToSet(pool[s])

Holding == {"write", "read", "put"}

Holds(t, c) == thread[t].pc \in Holding \cup {"append", "close"} /\ thread[t].c = c

-----------------------------------------------------------------------------
(* get *)

\* Mutant of GetPooled: the connection stays in the list.
GetPooledKeeps(t, s) ==
    /\ thread[t] = Idle
    /\ pool[s] # <<>>
    /\ thread' = [thread EXCEPT ![t] =
                    [pc |-> "write", server |-> s, c |-> Last(pool[s]), failed |-> TRUE]]
    /\ UNCHANGED <<now, pool, conn, inbox, network, reaper>>

\* Under the shard's lock: the connection used last is taken.
GetPooled(t, s) ==
    /\ thread[t] = Idle
    /\ pool[s] # <<>>
    /\ thread' = [thread EXCEPT ![t] =
                    [pc |-> "write", server |-> s, c |-> Last(pool[s]), failed |-> TRUE]]
    /\ pool' = [pool EXCEPT ![s] = Front(@)]
    /\ UNCHANGED <<now, conn, inbox, network, reaper>>

GetEmpty(t, s) ==
    /\ thread[t] = Idle
    /\ pool[s] = <<>>
    /\ thread' = [thread EXCEPT ![t] =
                    [pc |-> "dial", server |-> s, c |-> None, failed |-> TRUE]]
    /\ UNCHANGED <<now, pool, conn, inbox, network, reaper>>

\* The lock was released before dialling: a connection put back meanwhile is
\* not used.
Dial(t, c, id) ==
    /\ thread[t].pc = "dial"
    /\ conn[c].state = "new"
    /\ conn' = [conn EXCEPT ![c] = [state |-> "open", server |-> thread[t].server,
                                    nextID |-> id, lastUsed |-> 0, used |-> 0]]
    /\ thread' = [thread EXCEPT ![t].pc = "write", ![t].c = c]
    /\ UNCHANGED <<now, pool, inbox, network, reaper>>

DialFails(t) ==
    /\ thread[t].pc = "dial"
    /\ thread' = [thread EXCEPT ![t] = Idle]
    /\ UNCHANGED <<now, pool, conn, inbox, network, reaper>>

-----------------------------------------------------------------------------
(* the exchange *)

\* req.ID = conn.nextID; conn.nextID++ (a uint16); conn.Write
Write(t) ==
    /\ thread[t].pc = "write"
    /\ LET c == thread[t].c IN
         /\ conn[c].used < MaxExchanges
         /\ conn' = [conn EXCEPT ![c].nextID = (@ + 1) % IDs, ![c].used = @ + 1]
         /\ network' = network \cup {Packet(c)}
    /\ thread' = [thread EXCEPT ![t].pc = "read"]
    /\ UNCHANGED <<now, pool, inbox, reaper>>

\* The peer closed the idle connection, or the write timed out: the ID is
\* consumed all the same.
WriteFails(t) ==
    /\ thread[t].pc = "write"
    /\ conn' = [conn EXCEPT ![thread[t].c].nextID = (@ + 1) % IDs]
    /\ thread' = [thread EXCEPT ![t].pc = "put"]
    /\ UNCHANGED <<now, pool, inbox, network, reaper>>

\* The network delivers a reply to a connection, now or long after the exchange
\* it belongs to has ended.
Deliver(pkt) ==
    /\ pkt \in network
    /\ inbox' = [inbox EXCEPT ![pkt.c] = Append(@, [id |-> pkt.id, n |-> pkt.n])]
    /\ network' = (network \ {pkt})
                     \cup IF pkt.left > 1 THEN {[pkt EXCEPT !.left = @ - 1]} ELSE {}
    /\ UNCHANGED <<now, pool, conn, thread, reaper>>

\* The ID written by the exchange that is running on c.
SentID(c) == (conn[c].nextID + IDs - 1) % IDs

\* Mutant of Read: the IDs are not compared.
ReadAnyID(t) ==
    /\ thread[t].pc = "read"
    /\ LET c == thread[t].c IN
         /\ inbox[c] # <<>>
         /\ inbox' = [inbox EXCEPT ![c] = Tail(@)]
    /\ thread' = [thread EXCEPT ![t].pc = "put", ![t].failed = FALSE]
    /\ UNCHANGED <<now, pool, conn, network, reaper>>

\* conn.Read: one message, compared with the request by its ID only; a reply
\* with an error code counts as a success.  On a mismatch `failed' stays TRUE.
Read(t) ==
    /\ thread[t].pc = "read"
    /\ LET c == thread[t].c IN
         /\ inbox[c] # <<>>
         /\ inbox' = [inbox EXCEPT ![c] = Tail(@)]
         /\ thread' = [thread EXCEPT ![t].pc = "put",
                                     ![t].failed = Head(inbox[c]).id # SentID(c)]
    /\ UNCHANGED <<now, pool, conn, network, reaper>>

\* The deadline set by get passes, or the reply does not parse.
ReadFails(t) ==
    /\ thread[t].pc = "read"
    /\ thread' = [thread EXCEPT ![t].pc = "put"]
    /\ UNCHANGED <<now, pool, conn, inbox, network, reaper>>

-----------------------------------------------------------------------------
(* put *)

\* What is still on its way to a closed connection is never seen.
Close(C) ==
    /\ conn' = [c \in Conns |->
                   IF c \in C THEN [conn[c] EXCEPT !.state = "closed"] ELSE conn[c]]
    /\ inbox' = [c \in Conns |-> IF c \in C THEN <<>> ELSE inbox[c]]
    /\ network' = {pkt \in network : pkt.c \notin C}

PutFailed(t) ==
    /\ thread[t].pc = "put"
    /\ thread[t].failed
    /\ Close({thread[t].c})
    /\ thread' = [thread EXCEPT ![t] = Idle]
    /\ UNCHANGED <<now, pool, reaper>>

\* pc.lastUsed = time.Now(), before the lock is taken.
PutStamp(t) ==
    /\ thread[t].pc = "put"
    /\ ~thread[t].failed
    /\ conn' = [conn EXCEPT ![thread[t].c].lastUsed = now]
    /\ thread' = [thread EXCEPT ![t].pc = "append"]
    /\ UNCHANGED <<now, pool, inbox, network, reaper>>

\* Mutant of PutAppend: a connection that finds the list full is dropped
\* without being closed.
PutAppendLeaks(t) ==
    /\ thread[t].pc = "append"
    /\ LET s == thread[t].server IN
       pool' = IF Len(pool[s]) < MaxPerServer
               THEN [pool EXCEPT ![s] = Append(@, thread[t].c)] ELSE pool
    /\ thread' = [thread EXCEPT ![t] = Idle]
    /\ UNCHANGED <<now, conn, inbox, network, reaper>>

\* Mutant of PutAppend: the limit is off by one.
PutAppendOneMore(t) ==
    /\ thread[t].pc = "append"
    /\ LET s == thread[t].server IN
       IF Len(pool[s]) <= MaxPerServer
       THEN /\ pool' = [pool EXCEPT ![s] = Append(@, thread[t].c)]
            /\ thread' = [thread EXCEPT ![t] = Idle]
       ELSE /\ UNCHANGED pool
            /\ thread' = [thread EXCEPT ![t].pc = "close"]
    /\ UNCHANGED <<now, conn, inbox, network, reaper>>

\* Under the shard's lock; when the list is full the connection is closed
\* after the lock is released.
PutAppend(t) ==
    /\ thread[t].pc = "append"
    /\ LET s == thread[t].server IN
       IF Len(pool[s]) < MaxPerServer
       THEN /\ pool' = [pool EXCEPT ![s] = Append(@, thread[t].c)]
            /\ thread' = [thread EXCEPT ![t] = Idle]
       ELSE /\ UNCHANGED pool
            /\ thread' = [thread EXCEPT ![t].pc = "close"]
    /\ UNCHANGED <<now, conn, inbox, network, reaper>>

PutClose(t) ==
    /\ thread[t].pc = "close"
    /\ Close({thread[t].c})
    /\ thread' = [thread EXCEPT ![t] = Idle]
    /\ UNCHANGED <<now, pool, reaper>>

-----------------------------------------------------------------------------
(* poolJanitorLoop and reapIdle *)

\* Mutant of ReapBegin: the janitor has a timer, which fires once, and no ticker.
ReapBeginOnce ==
    /\ reaper = [now |-> 0, todo |-> {}]
    /\ reaper' = [now |-> now, todo |-> Servers]
    /\ UNCHANGED <<now, pool, conn, inbox, network, thread>>

\* The clock is read once, then the servers' lists are visited.
ReapBegin ==
    /\ reaper.todo = {}
    /\ reaper' = [now |-> now, todo |-> Servers]
    /\ UNCHANGED <<now, pool, conn, inbox, network, thread>>

\* now.Sub(pc.lastUsed) >= maxIdle
Stale(c) == reaper.now - conn[c].lastUsed >= MaxIdle

\* What the loop appends to `fresh': the connections at the positions `at', in
\* their order; the k-th is at the position up to which there are k of them.
\* (It is SelectSeq without recursion, for the proofs.)
Kept(list, at) ==
    [k \in 1 .. Cardinality(at) |->
        list[CHOOSE i \in at : Cardinality(at \cap (1 .. i)) = k]]

ReapServer(s) ==
    /\ s \in reaper.todo
    /\ LET fresh == {i \in DOMAIN pool[s] : ~Stale(pool[s][i])} IN
         /\ Close({pool[s][i] : i \in DOMAIN pool[s] \ fresh})
         /\ pool' = [pool EXCEPT ![s] = Kept(@, fresh)]
    /\ reaper' = [reaper EXCEPT !.todo = @ \ {s}]
    /\ UNCHANGED <<now, thread>>

-----------------------------------------------------------------------------
(* The specification *)

Tick ==
    /\ now < MaxTime
    /\ now' = now + 1
    /\ UNCHANGED <<pool, conn, inbox, network, thread, reaper>>

Init ==
    /\ now = 0
    /\ pool = [s \in Servers |-> <<>>]
    /\ conn = [c \in Conns |-> Fresh]
    /\ inbox = [c \in Conns |-> <<>>]
    /\ network = {}
    /\ thread = [t \in Threads |-> Idle]
    /\ reaper = [now |-> 0, todo |-> {}]

ExchangeStep(t) ==
    \/ \E c \in Conns, id \in FirstIDs : Dial(t, c, id)
    \/ DialFails(t)
    \/ Write(t) \/ WriteFails(t) \/ Read(t) \/ ReadFails(t)
    \/ PutFailed(t) \/ PutStamp(t) \/ PutAppend(t) \/ PutClose(t)

ReapStep == ReapBegin \/ \E s \in Servers : ReapServer(s)

Next ==
    \/ Tick
    \/ \E t \in Threads, s \in Servers : GetPooled(t, s) \/ GetEmpty(t, s)
    \/ \E t \in Threads : ExchangeStep(t)
    \/ \E pkt \in network : Deliver(pkt)
    \/ ReapStep

Spec == Init /\ [][Next]_vars

\* Every socket operation has a deadline; the janitor's ticker keeps firing.
Fairness ==
    /\ \A t \in Threads : WF_vars(ExchangeStep(t))
    /\ WF_vars(ReapStep)

LiveSpec == Spec /\ Fairness

-----------------------------------------------------------------------------
(* Properties *)

Connection ==
    [state : {"new", "open", "closed"}, server : Servers \cup {None},
     nextID : 0 .. IDs - 1, lastUsed : Nat, used : Nat]

Received == [id : 0 .. IDs - 1, n : Nat]

Exchange ==
    [pc : {"idle", "dial", "append", "close"} \cup Holding,
     server : Servers \cup {None}, c : Conns \cup {None}, failed : BOOLEAN]

\* Type correctness of the pool, the connections and the exchanges.
TypeOK ==
    /\ now \in Nat
    /\ pool \in [Servers -> Seq(Conns)]
    /\ conn \in [Conns -> Connection]
    /\ inbox \in [Conns -> Seq(Received)]
    /\ network \subseteq [c : Conns, id : 0 .. IDs - 1, n : Nat, left : Nat]
    /\ thread \in [Threads -> Exchange]
    /\ reaper \in [now : Nat, todo : SUBSET Servers]

\* A connection has one owner: two exchanges never share it, it is in a list
\* at most once, and not in a list while an exchange uses it.  Otherwise two
\* exchanges would read each other's replies (get and put, connpool.go:84-127).
ExclusiveUse ==
    /\ \A t, u \in Threads, c \in Conns : Holds(t, c) /\ Holds(u, c) => t = u
    /\ \A t \in Threads, c \in Conns : Holds(t, c) => ~Pooled(c)
    /\ \A s \in Servers : IsInjective(pool[s])
    /\ \A s, r \in Servers : ToSet(pool[s]) \cap ToSet(pool[r]) # {} => s = r

\* An open connection is in a list or in use, and what is in a list or in use
\* is open: no socket leaks, and neither the janitor nor an overfull pool
\* closes a connection under an exchange (connpool.go:111-154).
OpenIffOwned ==
    \A c \in Conns :
        conn[c].state = "open" <=> Pooled(c) \/ \E t \in Threads : Holds(t, c)

\* A server's list never exceeds the limit, though an exchange dials without
\* looking at it (connpool.go:120).
PoolBound == \A s \in Servers : Len(pool[s]) <= MaxPerServer

\* A connection is only ever offered for the server it was dialled to.
PooledForItsServer ==
    \A s \in Servers : \A c \in ToSet(pool[s]) : conn[c].server = s

\* A reply that an exchange accepts is the reply to its own request, unless
\* the connection's ID counter went all the way round since the request the
\* reply belongs to: late and duplicated replies are told apart by the ID alone
\* (resolver.go:548, 696, 761).
AcceptsOwnReply ==
    [][\A t \in Threads :
          /\ thread[t].pc = "read" /\ thread'[t].pc = "put" /\ ~thread'[t].failed
          => LET n == Head(inbox[thread[t].c]).n
                 used == conn[thread[t].c].used
             IN  n = used \/ used - n >= IDs]_vars

\* A connection that nobody uses is closed by the janitor (connpool.go:129-154).
IdleReaped ==
    \A c \in Conns :
        (Pooled(c) /\ now - conn[c].lastUsed >= MaxIdle)
            ~> (~Pooled(c) \/ now - conn[c].lastUsed < MaxIdle)

-----------------------------------------------------------------------------
(* The inductive invariant *)

\* An exchange that is under way has a server; from get on it has a connection
\* to that server; and what it has not finished counts as failed.
ExchangeState ==
    \A t \in Threads :
        /\ thread[t].pc # "idle" => thread[t].server \in Servers
        /\ thread[t].pc \in Holding \cup {"append", "close"} =>
              /\ thread[t].c \in Conns
              /\ conn[thread[t].c].server = thread[t].server
        /\ thread[t].pc \in {"dial", "write", "read"} => thread[t].failed

\* The replies a connection has received or may still receive.
Replies(c) ==
    {[id |-> pkt.id, n |-> pkt.n] : pkt \in {p \in network : p.c = c}} \cup ToSet(inbox[c])

GivenUp(c) ==
    \E t \in Threads : thread[t].pc = "put" /\ thread[t].c = c /\ thread[t].failed

\* A reply tells by its ID how many requests ago the one it belongs to was
\* written, as long as the counter has not gone round.
TellsItsAge(c, r) ==
    LET ago == conn[c].used - r.n IN
    /\ ago \in Nat
    /\ ago < IDs => conn[c].nextID \in {r.id + ago + 1, r.id + ago + 1 - IDs}

\* Only a connection that is about to be closed has used up an ID without a
\* request.
Numbered(c) ==
    /\ conn[c].state # "open" => Replies(c) = {}
    /\ ~GivenUp(c) => \A r \in Replies(c) : TellsItsAge(c, r)

RepliesNumbered == \A c \in Conns : Numbered(c)

IInv ==
    /\ TypeOK
    /\ ExchangeState
    /\ ExclusiveUse
    /\ OpenIffOwned
    /\ PoolBound
    /\ PooledForItsServer
    /\ RepliesNumbered
=============================================================================
