----------------------------- MODULE RateLimiter -----------------------------
(***************************************************************************)
(* The per-client token bucket of internal/server/ratelimit.go.            *)
(*                                                                         *)
(* Units.  Time is counted in ticks and tokens in the amount a bucket      *)
(* gains in one tick, so that rate * elapsed is the elapsed time itself:   *)
(* a query costs Cost = 1/qps seconds and the bucket holds at most         *)
(* Burst = burst/qps seconds.  (The code computes in float64; its rounding *)
(* is not modelled.)                                                       *)
(*                                                                         *)
(* allow reads the clock BEFORE it takes the mutex, so that calls are      *)
(* processed in another order than that of their clock readings, and a     *)
(* bucket can see time run backwards.  MaxSkew is how long a goroutine may *)
(* spend between the two.                                                  *)
(***************************************************************************)
EXTENDS Integers

CONSTANTS
    IPs,           \* source addresses
    Threads,       \* handleQuery goroutines
    Cost,          \* one token
    Burst,         \* the burst setting
    IdleTTL,       \* rateLimitIdleTTL: ten minutes
    CleanupEvery,  \* one minute
    MaxSkew,       \* longest time between reading the clock and the mutex
    MaxTime,       \* bound: the clock stops here
    None           \* no bucket; the zero time.Time

ASSUME LimiterConstants ==
    /\ Cost \in Nat \ {0}
    /\ Burst \in Nat
    /\ IdleTTL \in Nat
    /\ CleanupEvery \in Nat
    /\ MaxSkew \in Nat
    /\ MaxTime \in Nat
    /\ None \notin Int
    /\ None \notin [tokens : Int, last : Nat, lastSeen : Nat]

\* config.validate wants burst > 0.
ASSUME AtLeastOneToken == Cost <= Burst

VARIABLES
    now,          \* the clock
    buckets,      \* the bucket of each address, or None
    nextCleanup,  \* when the next cleanup is due, or None before the first call
    thread,       \* the calls that have read the clock and wait for the mutex
    spent,        \* ghost: tokens granted to each address since windowStart
    windowStart,  \* ghost: when the observation of each address began
    drops         \* ghost: how often its bucket was dropped after the first grant

vars == <<now, buckets, nextCleanup, thread, spent, windowStart, drops>>

-----------------------------------------------------------------------------

Idle == [pc |-> "idle"]

Bucket == [tokens : Int, last : Nat, lastSeen : Nat]

\* handleQuery calls allow: now := time.Now()
ReadClock(t, ip) ==
    /\ thread[t] = Idle
    /\ thread' = [thread EXCEPT ![t] = [pc |-> "lock", ip |-> ip, at |-> now]]
    /\ UNCHANGED <<now, buckets, nextCleanup, spent, windowStart, drops>>

CleanupDue(at) == nextCleanup # None /\ at > nextCleanup

\* cleanup: what is left of the buckets when the call with clock reading `at'
\* looks its own up.
Kept(at) ==
    [ip \in IPs |->
        IF /\ CleanupDue(at)
           /\ buckets[ip] # None
           /\ at - buckets[ip].lastSeen > IdleTTL
        THEN None ELSE buckets[ip]]

Dropped(ip, at) == buckets[ip] # None /\ Kept(at)[ip] = None

\* Mutant of Refilled: the refill is not capped at the burst.
RefilledUncapped(b, at) == IF b = None THEN Burst ELSE b.tokens + (at - b.last)

\* Mutant of Refilled: the time since the last call is not credited.
RefilledNever(b, at) == IF b = None THEN Burst ELSE b.tokens

\* min(burst, tokens + elapsed * rate), of a bucket that may have to be made.
Refilled(b, at) ==
    IF b = None THEN Burst
    ELSE IF b.tokens + (at - b.last) < Burst THEN b.tokens + (at - b.last) ELSE Burst

\* Mutant of Left: a refused query is charged as well.
LeftCharged(tokens) == tokens - Cost

\* The balance after the query was granted or refused.
Left(tokens) == IF tokens >= Cost THEN tokens - Cost ELSE tokens

\* The critical section of allow.
Allow(t) ==
    /\ thread[t].pc = "lock"
    /\ LET ip == thread[t].ip
           at == thread[t].at
           tokens == Refilled(Kept(at)[ip], at)
           granted == tokens >= Cost
       IN  /\ nextCleanup' = IF nextCleanup = None \/ CleanupDue(at)
                             THEN at + CleanupEvery ELSE nextCleanup
           /\ buckets' = [Kept(at) EXCEPT ![ip] =
                 [tokens |-> Left(tokens), last |-> at, lastSeen |-> at]]
           /\ spent' = IF granted THEN [spent EXCEPT ![ip] = @ + Cost] ELSE spent
           /\ drops' = [i \in IPs |->
                 IF Dropped(i, at) /\ spent[i] > 0 THEN drops[i] + 1 ELSE drops[i]]
    /\ thread' = [thread EXCEPT ![t] = Idle]
    /\ UNCHANGED <<now, windowStart>>

\* Ghost: an observer starts to count the queries granted to ip.
StartWindow(ip) ==
    /\ spent' = [spent EXCEPT ![ip] = 0]
    /\ windowStart' = [windowStart EXCEPT ![ip] = now]
    /\ drops' = [drops EXCEPT ![ip] = 0]
    /\ UNCHANGED <<now, buckets, nextCleanup, thread>>

Tick ==
    /\ now < MaxTime
    /\ \A t \in Threads : thread[t].pc = "lock" => now - thread[t].at < MaxSkew
    /\ now' = now + 1
    /\ UNCHANGED <<buckets, nextCleanup, thread, spent, windowStart, drops>>

\* newRateLimiter
Init ==
    /\ now = 0
    /\ buckets = [ip \in IPs |-> None]
    /\ nextCleanup = None
    /\ thread = [t \in Threads |-> Idle]
    /\ spent = [ip \in IPs |-> 0]
    /\ windowStart = [ip \in IPs |-> 0]
    /\ drops = [ip \in IPs |-> 0]

Next ==
    \/ Tick
    \/ \E t \in Threads, ip \in IPs : ReadClock(t, ip)
    \/ \E t \in Threads : Allow(t)
    \/ \E ip \in IPs : StartWindow(ip)

Spec == Init /\ [][Next]_vars

-----------------------------------------------------------------------------
(* Properties *)

\* Type correctness of the buckets, the calls and the ghosts.
TypeOK ==
    /\ now \in Nat
    /\ buckets \in [IPs -> Bucket \cup {None}]
    /\ nextCleanup \in Nat \cup {None}
    /\ thread \in [Threads -> {Idle} \cup [pc : {"lock"}, ip : IPs, at : Nat]]
    /\ spent \in [IPs -> Nat]
    /\ windowStart \in [IPs -> Nat]
    /\ drops \in [IPs -> Nat]

\* What a client gains when its bucket is dropped as idle and made anew, full:
\* nothing if the bucket refills within rateLimitIdleTTL anyhow, as it does in
\* two seconds at the default settings.  config.validate does not ask for that:
\* with qps 1 and burst 1000 a client gains 400 queries.
Gain ==
    LET lead == Burst + 2 * MaxSkew - (IdleTTL + 1) IN IF lead > 0 THEN lead ELSE 0

\* Over every interval of time, a client is granted at most the burst plus
\* what the rate yields in that interval (plus the skew of one clock reading),
\* and Gain for each time its bucket was dropped, although calls are processed
\* out of order (allow and cleanup, ratelimit.go:71-108).
RateConforms ==
    \A ip \in IPs :
        spent[ip] <= Burst + (now - windowStart[ip]) + MaxSkew + Gain * drops[ip]

\* A bucket that saw time run backwards goes into debt by no more than the
\* skew of one call, however many calls are processed out of order
\* (ratelimit.go:72, 90-92).
DebtBounded ==
    \A ip \in IPs : buckets[ip] # None => buckets[ip].tokens >= -MaxSkew

\* A client that left its bucket alone for as long as one token takes to come
\* back (and the skew of its last call) is granted its next query
\* (ratelimit.go:84-100).
QuietClientServed ==
    [][\A t \in Threads :
          /\ thread[t].pc = "lock" /\ thread'[t] = Idle
          /\ LET b == buckets[thread[t].ip]
             IN  b # None => thread[t].at - b.last >= Cost + MaxSkew
          => spent'[thread[t].ip] = spent[thread[t].ip] + Cost]_vars

-----------------------------------------------------------------------------
(* The inductive invariant *)

\* A clock reading that waits for the mutex is recent.
ReadingsRecent ==
    \A t \in Threads : thread[t].pc = "lock" =>
        /\ thread[t].at <= now
        /\ now - thread[t].at <= MaxSkew

\* A bucket's balance, counted back to time 0, only falls when a query is
\* granted or the bucket is full; neither leaves it below -now.
Balance(ip) ==
    LET b == buckets[ip] IN
    b # None =>
        /\ b.last = b.lastSeen
        /\ b.last <= now
        /\ b.tokens <= Burst
        /\ b.tokens >= -MaxSkew
        /\ b.tokens - b.last >= -now

\* What was granted in the window and what is left in the bucket was there
\* when the window began or has been earned since.
Earned(ip) ==
    LET b == buckets[ip] IN
    spent[ip] > 0 =>
        /\ b = None => spent[ip] <= now - windowStart[ip] + Gain * drops[ip]
        /\ b # None => spent[ip] + b.tokens
                         <= Burst + (b.last - windowStart[ip]) + MaxSkew + Gain * drops[ip]

IInv ==
    /\ TypeOK
    /\ ReadingsRecent
    /\ \A ip \in IPs : windowStart[ip] <= now /\ Balance(ip) /\ Earned(ip)
    /\ \A ip \in IPs : spent[ip] = 0 => drops[ip] = 0
    /\ RateConforms
=============================================================================
