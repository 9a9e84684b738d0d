# A verification project for kmresolv

TLA+ models of the concurrent core of kmresolv, model-checked with TLC, and
theorems about them proved with TLAPS. Every definition is translated from the
Go source; paths below are relative to the repository, `cache.go` is
`internal/cache/cache.go`, and the other files named without a directory are in
`internal/server/`.

## The system

One process. A UDP listener starts a goroutine per packet (`handleQuery`,
`server.go:196`), which walks through the parts below; the dashboard's HTTP
handlers call the administrator's operations of `Server` at any time.

| part | state | operations | interacts through |
|---|---|---|---|
| query path (`server.go`, `resolver.go`) | the table `inflight`, the semaphore `sem`, the message objects | handleQuery, resolve, the prefetch function | calls every other part; waiters share the leader's `*dns.Message` |
| response cache (`cache.go`) | 64 shards: entries, negative entries, the `prefetching` flag of each entry | Get, Set, SetNegative, IsNegative, Flush, evictLoop | called by resolve, CNAME chasing and NS lookup; calls the prefetch function back on a goroutine of its own |
| upstream exchange (`connpool.go`, `resolver.go`) | idle connections by server, each with its next message ID | get, put, reapIdle; query, queryForwarder, queryTCPPool | called by the lookups; the janitor runs beside them |
| rate limiter (`ratelimit.go`) | a token bucket per address | allow, cleanup | called first by handleQuery |
| access list (`ratelimit.go`) | none | allowed | called by handleQuery |
| iterative resolution (`resolver.go`) | the recursion | resolveAt, resolveNSParallel, resolveNSAddr | exchange, cache |
| DNSSEC (`resolver.go`, `internal/dnssec`) | the key cache by zone | resolveAtDNSSEC, secWalkToZone, ValidateZoneDNSKEY | exchange, cache |
| DNS messages (`internal/dns/message.go`, `resolver.go`) | none; a message keeps the packet its records point into | ParseMessage, Pack, prependCNAME, materializeRR | every exchange parses, every reply is packed |
| forwarders and zones (`resolver.go`) | configuration | resolveViaServers, lookupZone | exchange |
| filter (`internal/filter`) | an atomic pointer to domains and mode, the inline set | Blocked, Add, Remove, SetMode, Reload | handleQuery reads; dashboard, SIGHUP and a ticker write |
| custom records (`internal/records`) | a store that is rebuilt on change | Lookup | handleQuery reads; dashboard replaces |
| configuration (`internal/config`) | the struct, the file | LoadConfig, Save | every administrator's operation saves |
| query log, statistics (`querylog.go`, `statshistory.go`) | two ring buffers, four counters | Add, Recent, record, snapshot, Stats | handleQuery writes; dashboard reads |
| dashboard (`internal/dashboard`) | login nonces, session token | HTTP handlers | calls `Server` |
| minecraft (`minecraft.go`) | the child process | Start, which boot calls once; Stop and Running, which nothing calls | boot |

What is hard here: the goroutines of queries, refreshes, evictor, janitor,
filter reload, sampler and dashboard interleave freely, and the code works with
what it read under a lock after it has released it (`Get`, `evictShard`, `put`,
`allow`); waiting queries share an object with the one that looked it up; the
network loses, delays and duplicates replies; an answer is put together from
packets that are compressed each in its own way; lookups that validate at the same
time share the key cache; the configuration file is rewritten in place.
`PROJECT.json` lists each of these hazards at its line with
the properties that would notice it go wrong.

What makes each part correct:

- query path: one lookup per key; nobody waits for a lookup that nobody runs;
  a reply answers its own question with its own ID; the semaphore bounds the
  lookups of queries and is never lost; every query ends.
- cache: each shard bounded; nothing dead is served, nothing live is lost without reason;
  TTLs only count down; one refresh per entry; a flush covers what it passed.
- exchange: a connection has one owner, none leaks, an accepted reply belongs
  to the request.
- rate limiter: rate and burst hold in every window, as long as a bucket is not
  dropped before it would have refilled; a quiet client is served.
- iterative resolution and DNSSEC: the recursion ends; an answer hangs together;
  a verdict of "does not exist" or "secure" has a justification; keys that are
  used are keys that zones publish; the truth is not called bogus.
- messages: the parser ends on every packet and finds in it what RFC 1035 says is
  there; a client reads in the reply what upstream said.
- filter and configuration: no change of the administrator is lost, the running
  state and the saved one agree, also after a restart.
- query log and statistics: the rings show the last entries in order, and the
  counters and the log agree.

## The modules

**Cache** models `cache.go`. A message is the set of its answer TTLs, the only
thing the cache reads of it. Each critical section of a shard lock is one
action, and what the code does between two of them is another: `GetRead` (the
read lock, `cache.go:111-113`), `GetCheck` (the comparison with the clock and
the compare-and-swap, 114-131), `GetClone` (133-146); `SetBegin` (the clock
reading, 161-170) and `SetStore` (171-191); `EvictTick`, `EvictScan`,
`EvictDelete`, `EvictDeleteNeg`, `EvictNext` (209-255); `FlushBegin`,
`FlushShard`, `FlushEnd` (277-303); the four actions of a prefetch goroutine
(123-129). Entries have identities, because the flag `prefetching` and the
entry a reader holds belong to the object and not to the key. `TicksPerSecond`
makes the truncation of the age to seconds visible.

**CacheSpec** is what the callers of the cache may rely on: a map from questions
to answers and denials that die by the clock. It has no shard locks, no entries
that are dead but still there, no evictor, refreshes or flags. `Cache` maps its
state to it (`AnswerSeen`, `DenialSeen`, `CallSeen`, `FlushSeen`) and implements it
(`ImplementsCacheSpec`): a step of the evictor, for instance, is a stuttering
step, so that one that deleted an answer stored since its scan would be found.
What a caller does notice is part of the specification: an answer may be stored
under an older clock reading than the one it replaces, the live answer of a full
shard that expires first may be pushed out, and a flush passes the shards one by
one.

**Resolver** models `handleQuery` and `resolve`: from `arrived` a query is
rejected, answered locally, or goes through `CheckNegative`, `CacheHit` or
`CacheMiss`, `Join` (LoadOrStore), `Wake` for a waiter, and for a leader
`AcquireSem`, `ServersReturn` or `LookupReturn`, `Finish`, `ReleaseSem`,
`DeleteInflight`, `CloseDone` (the deferred calls, in their order), then
`SetID` and `PackAndSend`, or `ReplyFailure`. A message object is named by the
goroutine that received or cloned it; the cache stores the object itself, as
the code does. The verdicts of filter, records, access list and limiter are
inputs, and an upstream lookup is one step with any outcome the code can return.
The cache is abstracted to "may forget anything at any time" (`Forget`) and may
start a refresh on any hit.

**Iterative** models one iterative lookup: `resolveAt` (`resolver.go:567-637`)
and `resolveNSParallel` (917-1000). A referral and the target of a CNAME are
calls of `resolveAt` whose result the caller returns, with the CNAME in front;
they are one lookup with a depth, a name and the records still to be prepended
(`links`). `Exchange` is an iteration of the loop over the servers, by the reply
that came; `TargetNegative`, `TargetCached`, `TargetMissed` the steps for a
target; `NoGlue`, `Deliver`, `Receive`, `NoAddresses`, `Addresses` the goroutines,
channels and select for name servers without glue. The lookup of a name
server's address is the same procedure one level deeper: it appears by its
result, any set of addresses, and ends because the depth is bounded, which is
what `LookupEnds` shows of each level. Of the text of an error the model keeps
what `resolve` may find in it: whether its wording says NXDOMAIN, and the names it
quotes (`Text`), of which the constant `Spelled` has those that are spelled with
"NXDOMAIN". The first CNAME of an answer is followed
whoever owns it, as in the code; `AnswerFollowsChain` therefore has a premise
about the servers (`AnswersInOrder`): each of them lists the question's alias
before any other.

**Dnssec** models `resolveAtDNSSEC`, the walk to the zone that signed
(`secVerifyWithWalk`, `secWalkToZone`, `secEstablishIntermediateKeys`,
`resolver.go:122-455`) and the checks and the key cache of `dnssec.go`. A lookup
holds a zone and its keys; every exchange with servers, every access to the key
cache and every verdict is an action, so that lookups interleave on the key
cache, also between its look at an expired zone and the deletion of it. A record
set carries the set of keys that have a valid signature over it; cryptography,
the canonical form of records and the validity of signatures in time are not
modelled, and different keys have different key tags. Servers may answer what
their zones publish or anything else. A lookup never begins with keys of the
root, because nothing stores them (`resolver.go:93`): what the properties say is
therefore relative to `TrueStarts`, that the DS records which come while no keys
are held are the published ones. Without that, `SecureReplyGenuine` fails. The code
verifies a set with the keys of the zone that the signature names, and does not
compare that zone with the owner of the set. What the keys of a zone have signed is
therefore a matter of the constant `SignOwn`: with it, zones sign only what is
published, and with both premises `KeysGenuine` and `VerifiedIsGenuine` speak;
without it, a zone may have signed anything, and `ChainValidated` fails. `Zones` are
the names the walk visits and `Cuts` those that are zones.

**Messages** models `message.go` and the merging of aliases
(`resolver.go:861-904`). A packet is a sequence of cells, each of which stands for
the bytes that the code handles together: the header, a label, a pointer, the end
of a name, the fixed fields of a question or record, opaque data. An offset is the
position of a cell; a label has no dots in it. `parseName`, `ParseMessage`,
`packCompressedName` and `Pack` are functions over such packets, loops being
recursive functions with the code's own limits. The state machine takes packets
from upstream, follows aliases as `resolveAt` does (or hands over what a forwarder
said), prepends, and packs the reply. The properties compare with a reading of
packets written without a parser's state (`NameAt`, `Starts`, `Said`), as RFC 1035
gives it. `ReadsBack` holds for packets that are `Sound`; records of other types
whose data holds compressed names (SOA, SRV) are copied with pointers that refer to
another packet, for which the code has no provision.

**ConnPool** models `connpool.go` and the exchange of `query`,
`queryForwarder` and `queryTCPPool`, which differ in framing only. The list of
a server is a sequence used as a stack. `Deliver` is the network: a reply may come
late, more than once, or never.
An exchange that falls back to TCP keeps its UDP connection until the TCP
exchange is over; that is an exchange that is slow to reach `put`.

**RateLimiter** models `allow` and `cleanup`. Tokens are measured in the time
it takes to earn them, so that the model is in integers; `MaxSkew` bounds the
time between the clock reading and the mutex. The ghost `drops` counts how often a
bucket was dropped as idle in the window that is observed.

**QueryLog** models what the server keeps about the queries it has seen: the
counters (`server.go:225-294`), the query log (`querylog.go`) and the history that
`sampleHistory` takes (`server.go:138-157`, `statshistory.go`). The goroutines of
queries are alike, so that the model counts how many are at a point of
`handleQuery`. The sampler loads the three counters in three actions. `added` and
`readings` are ghost variables: all that ever went into the rings.

**Admin** models the administrator's side: `filter.go`, the operations of
`Server` that change rules, mode, records and settings (`server.go:358-451`), and
`Config.Save` and loading (`config.go`). A handler takes the filter's mutex for
`FilterAdd`, `FilterRemove` or `ApplyMode` and nothing for the rest, so that its
steps on the configuration are actions of their own: `EditInline`, `EditRecords`,
`RebuildRecords`, `Marshal`, `Truncate`, `Write` (or `WriteFails`, `SaveNoPath`).
A slice is the set of its elements; where two goroutines work on one at once,
which is a data race, any set of elements that were there may come out. A
file is a configuration or `Absent`, `Empty` (truncated) or `Garbled` (two
handlers wrote over each other, or the disk was full). `ReloadRead` and
`ReloadCommit` are the two halves of a reload; `Restart` may come at any step. A
spelling of a domain has white space around it or not, because `filter.go` trims
what `strings.EqualFold` compares as it is: a domain added with white space and
removed without stays in the file.

Each `MC` module defines the instances TLC checks. Operators introduced by a
comment `Mutant of ...` are faulty variants of the definition that follows
them: nothing uses them in the specifications, and with one in the place of the
original the property it is paired with in `PROJECT.json` fails.

## The runs

| run | shows | bounds |
|---|---|---|
| `cache_store` | `ShardBound`, `ServedAlive`, `FlushCovers`, `ImplementsCacheSpec` | three keys in two shards, `max_size` 1, one caller, two stores, two seconds, all flush modes: a store evicts, an entry expires, is scanned and is replaced before the deletion, a flush passes one shard while the other is written |
| `cache_live` | `OnePrefetchPerEntry`, `ServedTTLHonest`, `ExpiredReclaimed`, `PrefetchEnds` | one key, one caller, two refreshes, three stores, half-second ticks, min_ttl: the entry is read again while its refresh runs and is replaced under it |
| `query` | `SingleFlight`, `WaiterHasLeader`, `ReplyHasMessage`, `AnswersTheQuestion`, `CachedReplyKeepsID`, `UpstreamBound`; `NXDomainJustified`, `AnswerFollowsChain`, `GivesUpWithoutAddressOnly`; `QueryEnds` | two queries (two leaders, or a leader and its waiter) over two keys, one of them in a zone, one slot, a forwarder with fallback, DNSSEC, one refresh; beside them a lookup over two names that alias each other and themselves, two servers, two name servers, one of each spelled with NXDOMAIN, depth 2: chains, loops, referrals with and without glue, denials in any order |
| `wire` | `ExclusiveUse`, `OpenIffOwned`, `PoolBound`, `AcceptsOwnReply`, `IdleReaped`; `ParserEnds`, `ParsesWhatIsSaid`, `ReadsBack` | one server, two connections, two exchanges, two requests per connection, a list of length 1, each reply may come twice: the list fills up, the janitor runs, a connection is used again while an old reply is on its way; beside them packets of one or two records whose names are written out, compressed fully or in part, point into data, loop, or are cut off, one alias that is followed, a pointer that reaches offset 12, which replies exceed |
| `front` | `RateConforms`, `DebtBounded`, `QuietClientServed`; `RecentIsLast`, `HistoryIsLast`, `CountersMatchLog` | two addresses, two goroutines, skew 1, six ticks: a bucket is dropped before it would have refilled, at a gain of one tick, and made anew; three queries, rings of two, four readings: both rings wrap |
| `admin` | `RulesInForce`, `RemovedStaysRemoved`, `RestartKeepsRules`, `ModeConverges` | two handlers, two operations, one domain in two spellings under a domain of a list, one record, one reload at a time, two starts, each from no file, a file that leaves the filter off and has no ticker, or one that has it on and a ticker: all overlaps of two operations with a reload and a restart |
| `dnssec` | `KeysGenuine`, `VerifiedIsGenuine`, `TruthAccepted` | two lookups of a name two zones below the root, with `TrueStarts` and `SignOwn`, a key that no zone publishes, one server, depth 2, keys that expire: the walk passes one zone, the key cache loses a zone between two steps of a lookup |
| `resolver_id` | violated: `ResponseID` | two queries, one key |
| `resolver_bogus` | violated: `NoBogusReply` | queries for one key and a refresh |
| `iterative_nx` | violated: `OnlyDenialsCached` | one lookup of a name spelled with NXDOMAIN |
| `dnssec_root` | violated: `SecureReplyGenuine` | one lookup, without `TrueStarts` |
| `dnssec_foreign` | violated: `ChainValidated` | one lookup, with `TrueStarts` and without `SignOwn` |

The bounds are constants: `MaxTime` stops the clock, `MaxStores` limits the
entry objects, `MaxExchanges` the requests on one connection, `MaxQueries` and
`MaxReadings` what reaches the counters. Runs whose model comes to a stop, because
the clock has stopped and the queries are done, switch the deadlock check off.

`query`, `wire` and `front` check two parts each that share no state in the models:
`Resolver` and `Iterative`, `ConnPool` and `Messages`, the limiter and the counters.
The variable `part` says which one runs, fairness is that of the part that runs, and
`QueryEnds` says of the first two what `EveryQueryEnds` and `LookupEnds` say of each.
In `wire` the ID of a connection does not go round; what happens when it
does, and that nothing else goes wrong before, is what the proof of
`AcceptsOwnReply` covers, for any number of requests and IDs. The type invariants
are proved and are not part of the runs.

The clock of `wire` stops at the age at which a connection is idle; the janitor's
reading may be older than that, so that `IdleReaped` takes a round that begins after
the connection was put back. `ImplementsCacheSpec` is checked with one caller, so
that of a store that was delayed behind another (`cache.go:169`) it is the proof that
speaks.

### What the violated runs say

- `resolver_id`: queries that wait on one lookup get the leader's
  `*dns.Message` (`resolver.go:66`) and each writes its own ID into it
  (`server.go:296`) before packing it, so a reply may carry another query's
  ID. What holds instead is `CachedReplyKeepsID`.
- `resolver_bogus`: the prefetch function resolves without validation
  (`server.go:103`), so that with `resolver.dnssec` a bogus answer reaches the
  cache and then clients.
- `dnssec_root`: nothing stores keys of the root where `resolveAtDNSSEC` looks for
  them (`resolver.go:93`), so that a lookup takes its first record sets without
  validation; an alias among them whose target is in the answer cache is called
  secure (`resolver.go:169`). What holds instead is `VerifiedIsGenuine`.
- `iterative_nx`: `resolve` looks for "NXDOMAIN" in the text of an error
  (`resolver.go:106`), and the texts quote the name that was asked for
  (`resolver.go:498, 569, 636`) or that of a name server (974). A timeout is then
  cached as a denial, if such a name is spelled with NXDOMAIN. What holds instead is
  `NXDomainJustified`, which names this case.
- `dnssec_foreign`: a set is verified with the keys of the zone that its signature
  names, whatever zone the set belongs to (`resolver.go:298`, `dnssec.go:184-228`), so
  that DS records of `com` signed by `com.example` put foreign keys into the key cache
  as those of `com`. What holds is `KeysGenuine`, where zones sign only what is
  published.

Two more differences between documentation and code need no run:

- `config.yml:23` calls `max_concurrent` the number of simultaneous upstream lookups;
  refreshes (`server.go:93`) take no slot. What holds is `UpstreamBound`: the lookups
  are no more than the slots and the entries that are being refreshed.
- `README.md:77` and `config.yml:58` speak of a maximum number of cached entries and of
  the entry that expires soonest; the code bounds each of 64 shards by its share,
  rounded up, and chooses within the shard (`cache.go:52-58`, `173-186`). What holds is
  `ShardBound`, and of the whole cache `TotalBound`.

### Fairness

Weak fairness of every goroutine that has a step to take: the Go scheduler is
fair, mutexes hand over, every socket operation has a deadline, tickers keep
firing. In `Iterative` weak fairness of the lookup as a whole is enough, because
every step uses something up. In `Resolver`, strong fairness of `AcquireSem`: senders blocked on a
channel queue up in FIFO order, so that one cannot be passed over for ever while
slots are freed again and again. In `Admin`, the ticker keeps
reloading if there is one: `server.go:162-164` starts it for a positive
`reload_interval_hours` only, and `config.yml:159` sets 0. `ModeConverges` speaks of a
process that has the ticker; without it, two overlapping changes of the mode may leave
filter and configuration apart for good. No fairness is assumed of clients, of the
administrator, of the clock or of the network.

## The proofs

`ResolverProofs` proves, for any sets of queries, prefetch goroutines and keys
and any options, that `IInv` of `Resolver` is an invariant, and from it the safety
invariants of `Resolver` that `query` checks. None of these is inductive
alone. `SingleFlight` needs `TableMatchesLeaders`: whoever leads a key is the
one in the table, until it has deleted its entry, and by then its lookup is over.
`UpstreamBound` needs `LookupHoldsSlot`, and of the refreshes `RefreshOwnsFlag`: each
has the flag of an entry, which no other has. `ReplyHasMessage` and `AnswersTheQuestion`
need `CallHasResult` (a result is recorded before anything is released, and it
is the leader's own) and `WaitsForOwnKey`. `CachedReplyKeepsID` needs
`CloneIsPrivate`: a clone is only ever the answer of the query that made it. One
lemma per action shows that the action preserves each conjunct.

`FrontProofs` proves the properties of the run `front`, which are those of two
components. The limiter's hold for any parameters that satisfy the module's
assumptions, of which the one that matters is a burst of at least one token
(`config.go:229`). That a bucket refills within the ten minutes after which it is
dropped is not among them, since `validate` does not ask for it: a client gains at
a drop what the bucket would not have refilled (`Gain`), and `RateConforms` counts
the drops. At the default settings `Gain` is 0. Their invariant has two parts:
`Balance` (a bucket's tokens, set against the time of its last call, never lose
more than was spent) and `Earned` (what was granted in a window and what is left
was in the bucket or has been earned since). Those of the rings and counters hold
for rings of any size and any number of queries, and their invariant is about
slots (`RingHoldsLast`, `WindowHoldsLast`): the slot k places before the head
holds the k-th entry from the end. `HistoryIsLast` needs that what the sampler has
loaded lies between its previous reading and the counter (`SamplerInOrder`), so
that no difference is negative.

`IterativeProofs` proves the type invariant, `NXDomainJustified`,
`GivesUpWithoutAddressOnly` and `AnswerFollowsChain` for any names, servers, name
servers, answers and depth. `NXDomainJustified` needs `DenialOfName` (an error
whose wording says NXDOMAIN is about the name of the running call) and `Places` (that name is
the one the links lead to); `GivesUpWithoutAddressOnly` needs `Collecting`, what the
goroutine of a name server has read of its two channels; `AnswerFollowsChain` needs
`LinksInChain`, that the CNAMEs waiting to be prepended are a chain from the
question, and that two chains put together are one (`ChainConcat`). `FirstCNAMEType`
uses that the natural numbers are well-founded: the code's scan finds a first CNAME.

`AdminProofs` proves the safety properties of `Admin` for any handlers,
reloading goroutines, domains, lists and records, and any number of operations.
`RulesInForce` needs `InlineInMap`, which holds because `Reload` looks at the inline
set after it has the mutex; `RemovedStaysRemoved` needs `LoadedFromLists` as well (what a
reload carries from before the mutex comes from lists only). `RestartKeepsRules`
needs that without overlap one operation runs at a time (`OneAtATime`), saves what
is current (`DataCurrent`) into a file it alone writes (`FileCurrent`), and that
what is in force is in the configuration or about to be (`InlineCovered`,
`RecordsCovered`).

`CacheProofs` proves the safety properties of `Cache` and that it implements
`CacheSpec`, for any keys, shards, goroutines, answers, sizes and times. From
`ShardBound` it proves `TotalBound`, a bound of the whole cache: the shares, rounded
up, exceed the configured size by less than one entry per shard
(`SharesOfTheMaximum`, `SharesBoundTotal`).
`ServedAlive` needs `CloneAlive`; the uniqueness of refreshes and the reach of a
flush need `Past`: nothing is younger than the clock and the next entry object.
The refinement goes action by action: `GetRead` of a live entry is `Ask`,
`GetClone` is `Serve`, `SetStore` and `PrefetchStore` are `Keep`, the entry they
evict being the first to expire (`Soonest`), `FlushShard` is `Clear`, and the
evictor's steps change nothing that can be seen, because it deletes only what is
dead when it deletes it.

`ConnPoolProofs` proves the safety properties of `ConnPool` for any servers,
connections, exchanges, limits and number of IDs. Ownership needs `ExchangeState`,
what an exchange holds at each of its steps. `AcceptsOwnReply` needs
`RepliesNumbered`: a reply that has not been read tells by its ID how many requests
ago its own was written, as long as the counter has not gone round, unless the
connection is about to be closed.

`DnssecProofs` proves `KeysGenuine`, `VerifiedIsGenuine` and `TruthAccepted` for
any tree of zones, keys, servers, answers and number of lookups. For the first two
the invariant says what a lookup that waits has verified so far (`Waiting`) and what
may be relied on (`Trusted`), both relative to `TrueStarts` and `SignOwn`; they claim
nothing where a premise fails, which `dnssec_root` and `dnssec_foreign` show. For `TruthAccepted` it
says how far a lookup has come when every server is truthful (`HonestInv`): the
zone it is in is on the way to the name, its keys and those in the cache are all
the keys the zone published (`OnTheWay`), and a walk to the signer holds the keys of
one zone on that way and has exactly the zones below it to go (`OnTheWalk`). The names
are those with a signed zone at every label (`WellSigned`); below a label that is no
zone cut the walk fails (`resolver.go:358`), and nothing is claimed. It
assumes besides that a signed zone publishes a key (`SignersHaveKeys`).

`MessagesProofs` proves `ParserEnds`, `ParsesWhatIsSaid` and `ReadsBack` for any
packets of any length, with any labels and pointers, and any number of aliases. The
parser ends because every pointer it follows leads to a place it has not been, so
that there are more turns than places (`ParseNameEnds`). What it reads is the name
that `NameAt` gives: the two follow the same pointers (`TurnCases`, `ReadOn`), and
where the parser gives up because a pointer comes round, there is no name, because
a name that is read after n pointers is read from each of the places they lead to
after fewer (`NoNameInALoop`). The records are then matched with `Starts` one by one
(`QuestionFollows`, `RRFollows`).

For `ReadsBack`, what was written of a reply reads the same when more is written
behind it, and the table of `packCompressedName` holds names that can be read where
it says and that a pointer reaches (`Table`); so that a name, a record and a message
are read back as they were (`NamePacked`, `RecordPacked`, `PackSays`), in whatever
order and with whatever names they share. A record of a sound packet tells what the
packet says, in its packet as well as taken out of it (`SoundParsed`,
`Materialized`). The inductive invariant `MessagesInv` relates what is held to the
packets accepted so far: on the way to the answer each alias kept is the first of
its packet, and on the way back the message in hand tells the last packet's answers
behind the aliases that have been put in front (`TellsFrom`). `ReadsBack` alone is
not inductive, since it is silent until there is a reply. That a parsed packet is
not the value that stands for no message (`NoMessageIsNone`) is an assumption of the
module, in the code a nil pointer.

The functions involved recurse over numbers of turns, of records and of questions;
they are unfolded step by step (`StepByStep`), and an induction takes the smallest
number of the set for which a statement fails.

Each of the proofs assumes the named assumptions on the constants of its module and
nothing else; TLC evaluates them for the instances of the runs.

Model-checked only: everything about liveness, which is out of the prover's reach.
Every invariant and every action property of a passing run is stated by a theorem.
`CacheTotalBound` is proved only: the bounds of the run leave it no room to fail.
The violated properties are refuted on small instances, which is enough.

## What is left

In this order of worth:

1. The outcome of a lookup in `Resolver` is an input; it could be the result of
   `Iterative` and `Dnssec`. The product of their states is beyond TLC, so that the
   composition would have to be proved, with `CacheSpec` in the place of `Forget`.
2. `lookupZone`, `Blocked`, the wildcards of the custom records and
   `isDescendantZone` as operators against reference definitions of the suffix rule
   they share.
3. Three queries and two slots in `query`, which with liveness takes TLC
   too long to be run often; the theorems cover the safety side.

## Not modelled

- Bytes below the cells of `Messages`, labels that contain dots, cryptography,
  HTTP and JSON, DNS over HTTPS (a call of `http.Client`), float64 rounding in the
  limiter, the sum of latencies and the log file of the statistics.
- The access list, `lookupZone` and the lookup of custom records: functions that
  change nothing; their verdicts are inputs of `Resolver`.
- The parsing of record data (`records.go:73-549`), of lists and of most of the
  configuration: what they yield is an input of `Admin`.
- The Minecraft process: started once at boot and never stopped or asked about by
  the program, so that its operations do not meet.
- The dashboard's handlers, beyond the operations of `Server` they call (`Admin`);
  the login nonces, a map under one mutex.
- The logger, the command line, the updater, the benchmark, the Java plugin, the
  pages and the installer: I/O without state of its own, or clients of the API.

`PROJECT.json` lists every component with its status.
