----------------------------- MODULE CacheSpec -----------------------------
(***************************************************************************)
(* What the response cache promises to the code that calls it: a map from  *)
(* questions to answers and denials that die by the clock.  Shard locks,   *)
(* the entries that are dead but not yet removed, the evictor, the refresh *)
(* goroutines and their flags do not exist here: Cache implements this     *)
(* specification (Cache!ImplementsCacheSpec), so that none of them can be  *)
(* noticed by a caller.                                                    *)
(*                                                                         *)
(* What a caller can notice, and is therefore said: an answer may have     *)
(* been stored under an older clock reading than the one it replaces; the  *)
(* only live answer a store may push out is the first to expire where      *)
(* there is no room; a flush passes the places one by one.                 *)
(***************************************************************************)
EXTENDS Integers, FiniteSets

CONSTANTS
    Questions,   \* what answers are kept for
    Clients,     \* who may be reading or storing at the same time
    Answers,     \* the answers: sets of TTLs, in seconds
    Life,        \* for each answer, how long it is kept
    DenialLife,  \* how long a denial is kept
    Second,      \* units of the clock to a second
    Place,       \* where each question is kept
    Places,      \* the places, flushed one by one
    Capacity,    \* live answers a place has room for; 0: no limit
    Nothing      \* "no answer, no denial"

VARIABLES
    clock,
    answer,      \* the live answer to each question
    denial,      \* until when each question is denied
    call,        \* what each client has of a read or a store that is not over
    flush        \* the flush that is under way

specVars == <<clock, answer, denial, call, flush>>

NoCall == [at |-> "idle"]

NoFlush == [mode |-> "none"]

Begin ==
    /\ clock = 0
    /\ answer = [q \in Questions |-> Nothing]
    /\ denial = [q \in Questions |-> Nothing]
    /\ call = [c \in Clients |-> NoCall]
    /\ flush = NoFlush

\* Time passes, and what has died is gone at once.
Pass ==
    /\ clock' = clock + 1
    /\ answer' = [q \in Questions |->
            IF answer[q] # Nothing /\ clock + 1 <= answer[q].expires
            THEN answer[q] ELSE Nothing]
    /\ denial' = [q \in Questions |->
            IF denial[q] # Nothing /\ clock + 1 < denial[q]
            THEN denial[q] ELSE Nothing]
    /\ UNCHANGED <<call, flush>>

Held(p) == {q \in Questions : Place[q] = p /\ answer[q] # Nothing}

NoRoom(q) ==
    /\ Capacity > 0
    /\ answer[q] = Nothing
    /\ Cardinality(Held(Place[q])) >= Capacity

FirstToExpire(p) ==
    {q \in Held(p) : \A j \in Held(p) : answer[q].expires <= answer[j].expires}

\* An answer arrives, to be stored under the time of its arrival.
Receive(c, q, a) ==
    /\ call[c] = NoCall
    /\ call' = [call EXCEPT ![c] =
                    [at |-> "storing", for |-> q, msg |-> a, since |-> clock]]
    /\ UNCHANGED <<clock, answer, denial, flush>>

\* It is stored, perhaps when it is dead already, in place of what was there.
Keep(c) ==
    /\ call[c].at = "storing"
    /\ UNCHANGED <<clock, denial, flush>>
    /\ call' = [call EXCEPT ![c] = NoCall]
    /\ LET q == call[c].for
           dies == call[c].since + Life[call[c].msg]
       IN  \E out \in {{}} \cup {{o} : o \in FirstToExpire(Place[q])} :
             /\ out # {} => NoRoom(q)
             /\ answer' = [j \in Questions |->
                    IF j = q
                    THEN IF clock <= dies
                         THEN [msg |-> call[c].msg, cached |-> call[c].since,
                               expires |-> dies]
                         ELSE Nothing
                    ELSE IF j \in out THEN Nothing ELSE answer[j]]

Deny(q) ==
    /\ UNCHANGED <<clock, answer, call, flush>>
    /\ denial' = [denial EXCEPT ![q] = clock + DenialLife]

FlushStarts(mode) ==
    /\ flush = NoFlush
    /\ flush' = [mode |-> mode, left |-> Places]
    /\ UNCHANGED <<clock, answer, denial, call>>

\* A flush passes every place once.  What has expired is not there to clear.
Clear(p) ==
    /\ flush # NoFlush
    /\ p \in flush.left
    /\ UNCHANGED <<clock, call>>
    /\ flush' = [flush EXCEPT !.left = @ \ {p}]
    /\ denial' = [q \in Questions |->
            IF Place[q] = p /\ flush.mode \in {"negative", "all"}
            THEN Nothing ELSE denial[q]]
    /\ answer' = [q \in Questions |->
            IF Place[q] = p /\ flush.mode = "all" THEN Nothing ELSE answer[q]]

FlushIsOver ==
    /\ flush # NoFlush
    /\ flush.left = {}
    /\ flush' = NoFlush
    /\ UNCHANGED <<clock, answer, denial, call>>

Ask(c, q) ==
    /\ call[c] = NoCall
    /\ answer[q] # Nothing
    /\ call' = [call EXCEPT ![c] = [at |-> "reading", from |-> answer[q]]]
    /\ UNCHANGED <<clock, answer, denial, flush>>

\* The answer died while it was being read.
TooLate(c) ==
    /\ call[c].at = "reading"
    /\ clock > call[c].from.expires
    /\ call' = [call EXCEPT ![c] = NoCall]
    /\ UNCHANGED <<clock, answer, denial, flush>>

\* What may be left of a TTL.
TTLsLeft == UNION {0 .. ttl : ttl \in UNION Answers}

\* No TTL of m reaches a full second past the moment its record expires.
Honest(m, from) ==
    \A ttl \in m : ttl > 0 =>
        \E orig \in from.msg :
            clock + ttl * Second < from.cached + orig * Second + Second

Serve(c, m) ==
    /\ call[c].at = "reading"
    /\ Honest(m, call[c].from)
    /\ call' = [call EXCEPT ![c] = [at |-> "served", msg |-> m]]
    /\ UNCHANGED <<clock, answer, denial, flush>>

Used(c) ==
    /\ call[c].at = "served"
    /\ call' = [call EXCEPT ![c] = NoCall]
    /\ UNCHANGED <<clock, answer, denial, flush>>

Step ==
    \/ Pass
    \/ \E q \in Questions : Deny(q)
    \/ \E mode \in {"negative", "expired", "all"} : FlushStarts(mode)
    \/ \E p \in Places : Clear(p)
    \/ FlushIsOver
    \/ \E c \in Clients :
         \/ \E q \in Questions, a \in Answers : Receive(c, q, a)
         \/ Keep(c)
         \/ \E q \in Questions : Ask(c, q)
         \/ TooLate(c)
         \/ \E m \in SUBSET TTLsLeft : Serve(c, m)
         \/ Used(c)

Promise == Begin /\ [][Step]_specVars
=============================================================================
