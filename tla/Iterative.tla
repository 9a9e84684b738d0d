------------------------------ MODULE Iterative ------------------------------
(***************************************************************************)
(* One iterative lookup: resolveAt and resolveNSParallel of                *)
(* internal/server/resolver.go.                                            *)
(*                                                                         *)
(* resolveAt calls itself for a referral, for the target of a CNAME and    *)
(* for the addresses of name servers that come without glue.  The first    *)
(* two are followed here as one lookup with a depth, a name and the CNAME  *)
(* records still to be prepended; a lookup of an address of a name server  *)
(* is another run of the same procedure, one level deeper, and appears     *)
(* here by its result.  Every upstream server and the cache may answer     *)
(* whatever the constants let them.                                        *)
(***************************************************************************)
EXTENDS Integers, Sequences, FiniteSets, SequencesExt

CONSTANTS
    Names,      \* domain names
    Question,   \* the name asked for
    AskCNAME,   \* qtype = TypeCNAME
    NSNames,    \* host names of name servers
    Servers,    \* addresses of name servers
    Roots,      \* RootServers
    MaxDepth,   \* resolver.max_depth
    Answers,    \* the answer sections a server may send for each name
    Cached,     \* the answer sections the cache may hold for each name
    Spelled,    \* the names that are spelled with "NXDOMAIN" in them
    Unparsed    \* the target of a CNAME that does not parse

\* A record: its owner, whether it is a CNAME or has the type asked for, and
\* the name it points to.
RR == [owner : Names, type : {"cname", "asked"}, target : Names \cup {Unparsed}]

ASSUME IterativeConstants ==
    /\ Question \in Names
    /\ AskCNAME \in BOOLEAN
    /\ Roots \subseteq Servers
    /\ Roots # {}
    /\ MaxDepth \in Nat
    /\ Answers \in [Names -> SUBSET (Seq(RR) \ {<<>>})]
    /\ Cached \in [Names -> SUBSET (Seq(RR) \ {<<>>})]
    /\ Spelled \subseteq Names \cup NSNames
    /\ Unparsed \notin Names

VARIABLES
    at,       \* the running call of resolveAt: what it does, name, depth
    todo,     \* the servers of this call that have not been asked
    lastErr,  \* the text of lastErr of this call
    links,    \* the CNAME records that returning calls will prepend
    result,   \* what the lookup returned
    family,   \* the goroutines that look up A and AAAA of a name server
    gather,   \* the goroutine of each name server that collects the two
    found,    \* the addresses collected by each name server's goroutine
    denied,   \* ghost: names a server or the cache has denied
    empty     \* ghost: names a server has no record of the type for

lookupVars == <<at, todo, lastErr, links, result, family, gather, found, denied, empty>>

-----------------------------------------------------------------------------
(* Data *)

\* The replies of a server to a query for n: query returns an error for a
\* timeout, a mismatch or any rcode but NOERROR; NXDOMAIN is one of them.
ReplyTo(n) ==
    [kind : {"error", "nxdomain", "nodata"}]
    \cup [kind : {"answer"}, answers : Answers[n]]
    \cup [kind : {"referral"}, ns : (SUBSET NSNames) \ {{}}, glue : SUBSET Servers]

\* The first CNAME of an answer section, whoever owns it.
CNAMEs(answers) == {i \in DOMAIN answers : answers[i].type = "cname"}

FirstCNAME(answers) ==
    answers[CHOOSE i \in CNAMEs(answers) : \A j \in CNAMEs(answers) : i <= j]

\* Mutant of hasTerminalRecords: a record of the type counts, whoever owns it.
hasTerminalRecordsAny(answers, name) ==
    \E i \in DOMAIN answers : answers[i].type = "asked"

hasTerminalRecords(answers, name) ==
    \E i \in DOMAIN answers : answers[i].type = "asked" /\ answers[i].owner = name

\* The name the lookup has arrived at.
Arrived == IF links = <<>> THEN Question ELSE Last(links).target

Families == {"A", "AAAA"}

\* The goroutine of one family, and then what is in its channel.
Off == [pc |-> "off", ips |-> {}]
Running == [pc |-> "running", ips |-> {}]

\* What matters of the text of an error: whether its wording says NXDOMAIN, and
\* the names that are in it; a nil error has none.
Text == [nx : BOOLEAN, names : SUBSET (Names \cup NSNames)]

NoText == [nx |-> FALSE, names |-> {}]

\* "... failed for NAME: CAUSE"
About(name, cause) == [cause EXCEPT !.names = @ \cup {name}]

\* "NXDOMAIN: NAME does not exist"
Missing(name) == [nx |-> TRUE, names |-> {name}]

\* strings.Contains(err.Error(), "NXDOMAIN")
ReadsNXDOMAIN(text) == text.nx \/ text.names \cap Spelled # {}

NoResult == [kind |-> "none", answers |-> <<>>, text |-> NoText]

Error(text) == [kind |-> "error", answers |-> <<>>, text |-> text]

\* prependCNAME, by every call that returns.
Returned(answers) == [kind |-> "msg", answers |-> links \o answers, text |-> NoText]

\* resolve puts the question into the negative cache.
CachedAsMissing == result.kind = "error" /\ ReadsNXDOMAIN(result.text)

\* The call resolveAt(name, qtype, servers, depth).
Call(name, depth, servers) ==
    IF depth > MaxDepth
    THEN /\ result' = Error(About(name, NoText))
         /\ at' = [at EXCEPT !.pc = "done"]
         /\ UNCHANGED <<todo, lastErr>>
    ELSE /\ at' = [pc |-> "query", name |-> name, depth |-> depth]
         /\ todo' = servers
         /\ lastErr' = NoText
         /\ UNCHANGED result

Return(res) ==
    /\ result' = res
    /\ at' = [at EXCEPT !.pc = "done"]
    /\ UNCHANGED <<todo, lastErr>>

-----------------------------------------------------------------------------
(* The loop over the servers *)

Asking(s) == at.pc = "query" /\ s \in todo

\* query fails: the next server is tried.  Of its errors only the one for the
\* rcode NXDOMAIN has the name in its text.
QueryFails(s, reply) ==
    /\ Asking(s)
    /\ reply.kind \in {"error", "nxdomain"}
    /\ todo' = todo \ {s}
    /\ lastErr' = IF reply.kind = "nxdomain" THEN Missing(at.name) ELSE NoText
    /\ denied' = IF reply.kind = "nxdomain" THEN denied \cup {at.name} ELSE denied
    /\ UNCHANGED <<at, links, result, family, gather, found, empty>>

\* No server is left: the error has the name, and the text of the last one.
AllFailed ==
    /\ at.pc = "query"
    /\ todo = {}
    /\ Return(Error(About(at.name, lastErr)))
    /\ UNCHANGED <<links, family, gather, found, denied, empty>>

\* Neither answers nor name servers.
NoData(s, reply) ==
    /\ Asking(s)
    /\ reply.kind = "nodata"
    /\ Return(Returned(<<>>))
    /\ empty' = empty \cup {at.name}
    /\ UNCHANGED <<links, family, gather, found, denied>>

\* An answer is returned as it is when it has no CNAME to follow, or when it
\* holds what the CNAME points to.
Answer(s, reply) ==
    /\ Asking(s)
    /\ reply.kind = "answer"
    /\ LET answers == reply.answers IN
       IF AskCNAME \/ CNAMEs(answers) = {}
       THEN Return(Returned(answers)) /\ UNCHANGED links
       ELSE LET rr == FirstCNAME(answers) IN
            IF rr.target = Unparsed
            THEN Return(Error(NoText)) /\ UNCHANGED links
            ELSE IF hasTerminalRecords(answers, rr.target)
            THEN Return(Returned(answers)) /\ UNCHANGED links
            ELSE /\ at' = [at EXCEPT !.pc = "negative"]
                 /\ links' = Append(links, rr)
                 /\ UNCHANGED <<todo, lastErr, result>>
    /\ UNCHANGED <<family, gather, found, denied, empty>>

-----------------------------------------------------------------------------
(* Following a CNAME *)

\* The negative cache denies the target.
TargetNegative ==
    /\ at.pc = "negative"
    /\ Return(Error(Missing(Arrived)))
    /\ denied' = denied \cup {Arrived}
    /\ UNCHANGED <<links, family, gather, found, empty>>

TargetNotNegative ==
    /\ at.pc = "negative"
    /\ at' = [at EXCEPT !.pc = "cache"]
    /\ UNCHANGED <<todo, lastErr, links, result, family, gather, found, denied, empty>>

\* What the cache holds is what an earlier lookup returned.
TargetCached(answers) ==
    /\ at.pc = "cache"
    /\ Return(Returned(answers))
    /\ LET last == Last(answers) IN
       empty' = empty \cup {n \in Names : last.type = "cname" /\ last.target = n}
    /\ UNCHANGED <<links, family, gather, found, denied>>

\* Not cached: the target is resolved from the root.
TargetMissed ==
    /\ at.pc = "cache"
    /\ Call(Arrived, at.depth + 1, Roots)
    /\ UNCHANGED <<links, family, gather, found, denied, empty>>

-----------------------------------------------------------------------------
(* Referrals *)

\* Mutant of Glue: a referral does not count.
GlueSameDepth(s, reply) ==
    /\ Asking(s)
    /\ reply.kind = "referral"
    /\ reply.glue # {}
    /\ Call(at.name, at.depth, reply.glue)
    /\ UNCHANGED <<links, family, gather, found, denied, empty>>

\* A referral with the address of one of its servers decides the lookup: no
\* other server of this call is asked.
Glue(s, reply) ==
    /\ Asking(s)
    /\ reply.kind = "referral"
    /\ reply.glue # {}
    /\ Call(at.name, at.depth + 1, reply.glue)
    /\ UNCHANGED <<links, family, gather, found, denied, empty>>

\* resolveNSParallel starts three goroutines for every name server.
NoGlue(s, reply) ==
    /\ Asking(s)
    /\ reply.kind = "referral"
    /\ reply.glue = {}
    /\ at' = [at EXCEPT !.pc = "ns"]
    /\ todo' = todo \ {s}
    /\ family' = [n \in NSNames |-> [f \in Families |->
                    IF n \in reply.ns THEN Running ELSE Off]]
    /\ gather' = [n \in NSNames |-> IF n \in reply.ns THEN "first" ELSE "off"]
    /\ found' = [n \in NSNames |-> {}]
    /\ UNCHANGED <<lastErr, links, result, denied, empty>>

\* resolveNSAddr returned the addresses ips, none when it failed; the channel
\* has room for them whether or not somebody reads it.
Deliver(n, f, ips) ==
    /\ family[n][f] = Running
    /\ family' = [family EXCEPT ![n][f] = [pc |-> "sent", ips |-> ips]]
    /\ UNCHANGED <<at, todo, lastErr, links, result, gather, found, denied, empty>>

\* Mutant of Receive: the second channel is not read.
ReceiveFirst(n, f) ==
    /\ gather[n] = "first"
    /\ family[n][f].pc = "sent"
    /\ found' = [found EXCEPT ![n] = family[n][f].ips]
    /\ gather' = [gather EXCEPT ![n] = "done"]
    /\ family' = [family EXCEPT ![n][f].pc = "taken"]
    /\ UNCHANGED <<at, todo, lastErr, links, result, denied, empty>>

\* The select: what comes first counts, unless there is nothing in it.
Receive(n, f) ==
    /\ gather[n] \in {"first", "second"}
    /\ family[n][f].pc = "sent"
    /\ LET ips == family[n][f].ips IN
       IF ips = {} /\ gather[n] = "first"
       THEN /\ gather' = [gather EXCEPT ![n] = "second"]
            /\ UNCHANGED found
       ELSE /\ gather' = [gather EXCEPT ![n] = "done"]
            /\ found' = [found EXCEPT ![n] = ips]
    /\ family' = [family EXCEPT ![n][f].pc = "taken"]
    /\ UNCHANGED <<at, todo, lastErr, links, result, denied, empty>>

\* The lookups whose results nobody waits for go on and send them to buffered
\* channels of their own, which changes nothing that is modelled here.
ForgetOthers ==
    /\ family' = [n \in NSNames |-> [f \in Families |-> Off]]
    /\ gather' = [n \in NSNames |-> "off"]
    /\ found' = [n \in NSNames |-> {}]

\* Every name server's goroutine has reported.
Gathered == at.pc = "ns" /\ \A n \in NSNames : gather[n] \in {"off", "done"}

\* Mutant of NoAddresses: the error tells that the name server has no address
\* in the words for a name that does not exist.
NoAddressesNX ==
    /\ Gathered
    /\ UNION Range(found) = {}
    /\ at' = [at EXCEPT !.pc = "query"]
    /\ \E n \in NSNames : gather[n] = "done" /\ lastErr' = Missing(n)
    /\ ForgetOthers
    /\ UNCHANGED <<todo, links, result, denied, empty>>

\* No address at all: the next server of the call is asked.  The error has the
\* name server that reported last, never the reason why it has no address.
NoAddresses ==
    /\ Gathered
    /\ UNION Range(found) = {}
    /\ at' = [at EXCEPT !.pc = "query"]
    /\ \E n \in NSNames : gather[n] = "done" /\ lastErr' = About(n, NoText)
    /\ ForgetOthers
    /\ UNCHANGED <<todo, links, result, denied, empty>>

Addresses ==
    /\ Gathered
    /\ UNION Range(found) # {}
    /\ Call(at.name, at.depth + 1, UNION Range(found))
    /\ ForgetOthers
    /\ UNCHANGED <<links, denied, empty>>

-----------------------------------------------------------------------------
(* The specification *)

\* resolveAt(name, qtype, RootServers, 0)
LookupInit ==
    /\ at = [pc |-> "query", name |-> Question, depth |-> 0]
    /\ todo = Roots
    /\ lastErr = NoText
    /\ links = <<>>
    /\ result = NoResult
    /\ family = [n \in NSNames |-> [f \in Families |-> Off]]
    /\ gather = [n \in NSNames |-> "off"]
    /\ found = [n \in NSNames |-> {}]
    /\ denied = {}
    /\ empty = {}

Exchange(s, reply) ==
    \/ QueryFails(s, reply) \/ NoData(s, reply) \/ Answer(s, reply)
    \/ Glue(s, reply) \/ NoGlue(s, reply)

LookupNext ==
    \/ \E s \in Servers, reply \in ReplyTo(at.name) : Exchange(s, reply)
    \/ AllFailed
    \/ TargetNegative \/ TargetNotNegative \/ TargetMissed
    \/ at.pc = "cache" /\ \E answers \in Cached[Arrived] : TargetCached(answers)
    \/ \E n \in NSNames, f \in Families, ips \in SUBSET Servers : Deliver(n, f, ips)
    \/ \E n \in NSNames, f \in Families : Receive(n, f)
    \/ NoAddresses \/ Addresses

LookupSpec == LookupInit /\ [][LookupNext]_lookupVars

\* Every exchange has a deadline, and the lookup of a name server's address
\* is a lookup one level deeper, which ends for the same reason.
LookupLiveSpec == LookupSpec /\ WF_lookupVars(LookupNext)

-----------------------------------------------------------------------------
(* Properties *)

\* Type correctness of the lookup.
LookupTypeOK ==
    /\ at \in [pc : {"query", "negative", "cache", "ns", "done"}, name : Names,
               depth : 0 .. MaxDepth]
    /\ todo \subseteq Servers
    /\ lastErr \in Text
    /\ links \in Seq(RR)
    /\ result \in [kind : {"none", "msg", "error"}, answers : Seq(RR), text : Text]
    /\ family \in [NSNames -> [Families ->
                     [pc : {"off", "running", "sent", "taken"}, ips : SUBSET Servers]]]
    /\ gather \in [NSNames -> {"off", "first", "second", "done"}]
    /\ found \in [NSNames -> SUBSET Servers]
    /\ denied \subseteq Names
    /\ empty \subseteq Names

\* The question goes into the negative cache only if a server or the negative
\* cache denied the very name the lookup had arrived at, or if a name in the
\* text of the error is spelled with NXDOMAIN: never for a timeout, the depth
\* or a name server without address alone (resolver.go:105-108, 569, 579-599,
\* 636, 974-996).
NXDomainJustified ==
    CachedAsMissing => Arrived \in denied \/ result.text.names \cap Spelled # {}

\* The name that a record leads to, and that a list of records leads to.
After(rr) == IF rr.type = "cname" THEN rr.target ELSE rr.owner

Leads(from, records) == IF records = <<>> THEN from ELSE After(Last(records))

\* Each record belongs to the name the one before it leads to.
InChain(from, records) ==
    \A i \in DOMAIN records :
        records[i].owner = IF i = 1 THEN from ELSE After(records[i - 1])

\* An answer section as servers order it: records of the name, or the name's
\* alias before any other; with what the alias points to, it is the chain.
InOrder(name, records) ==
    IF CNAMEs(records) = {} THEN InChain(name, records)
    ELSE LET alias == FirstCNAME(records) IN
         /\ alias.owner = name
         /\ (\E i \in DOMAIN records :
                records[i].type = "asked" /\ records[i].owner = alias.target)
            => InChain(name, records) /\ Last(records).type = "asked"

\* Servers and cache answer in order, and the question is not for a CNAME.
AnswersInOrder ==
    /\ ~AskCNAME
    /\ \A n \in Names : \A records \in Answers[n] : InOrder(n, records)
    /\ \A n \in Names : \A records \in Cached[n] :
          InChain(n, records) /\ (Last(records).type = "asked" \/ After(Last(records)) \in Names)

\* The records of an answer hang together if those of every single server do:
\* the first belongs to the question, each of the others to the target of the
\* CNAME before it or to the same owner, and the last is of the type asked for
\* unless the servers have no such record for the last target, though they come
\* from several servers and the cache (resolver.go:586-613, 866-884).
AnswerFollowsChain ==
    AnswersInOrder /\ result.kind = "msg" =>
        /\ InChain(Question, result.answers)
        /\ \/ result.answers # <<>> /\ Last(result.answers).type = "asked"
           \/ Leads(Question, result.answers) \in empty

\* A referral without glue is given up only if no lookup of an A or AAAA
\* record of any of its name servers found an address: the first goroutine
\* that answers does not hide the other (resolver.go:962-977, 982-997).
GivesUpWithoutAddressOnly ==
    [][NoAddresses =>
          \A n \in NSNames, f \in Families :
              family[n][f] = Off \/ family[n][f] = [pc |-> "taken", ips |-> {}]]_lookupVars

\* Every lookup returns, whatever the servers answer: CNAME loops, referrals to
\* each other and name servers without glue all cost depth (resolver.go:568).
Over == at.pc = "done"

LookupEnds == <>Over

-----------------------------------------------------------------------------
(* The inductive invariant *)

\* Where the lookup is: the names it follows parse, and the running call
\* resolves the last of them.
Places ==
    /\ \A i \in DOMAIN links : links[i].target \in Names
    /\ at.pc \in {"query", "ns"} => at.name = Arrived
    /\ at.pc \in {"negative", "cache"} => links # <<>>
    /\ at.pc # "done" => result.kind = "none"

\* An error of this call that says NXDOMAIN is a denial of its name.
DenialOfName ==
    at.pc \in {"query", "ns"} /\ lastErr.nx => at.name \in denied

\* So is an error that has been returned and says it.
DenialReturned ==
    result.kind = "error" /\ result.text.nx => Arrived \in denied

Nothing == [pc |-> "taken", ips |-> {}]

Pending(n, f) == family[n][f].pc \in {"running", "sent"}

\* What the goroutine of a name server knows of its two lookups.
Collecting(n) ==
    /\ gather[n] = "off" => \A f \in Families : family[n][f] = Off
    /\ gather[n] = "first" => \A f \in Families : Pending(n, f)
    /\ gather[n] = "second" =>
          \E f \in Families : /\ family[n][f] = Nothing
                              /\ \A g \in Families \ {f} : Pending(n, g)
    /\ gather[n] = "done" /\ found[n] = {} =>
          \A f \in Families : family[n][f] = Nothing

LookupIInv ==
    /\ LookupTypeOK
    /\ Places
    /\ DenialOfName
    /\ DenialReturned
    /\ \A n \in NSNames : Collecting(n)

\* The CNAMEs that wait to be prepended are a chain from the question.
LinksInChain ==
    AnswersInOrder =>
        /\ InChain(Question, links)
        /\ \A i \in DOMAIN links : links[i].type = "cname"

-----------------------------------------------------------------------------
(* What the documentation says *)

\* config.yml:55 says of negative_ttl: "Seconds to cache NXDOMAIN responses".
OnlyDenialsCached == CachedAsMissing => Arrived \in denied
=============================================================================
