------------------------------- MODULE Dnssec -------------------------------
(***************************************************************************)
(* Lookups with validation: resolveAtDNSSEC and the walk to a signer in    *)
(* internal/server/resolver.go, the checks and the key cache of            *)
(* internal/dnssec/dnssec.go.                                              *)
(*                                                                         *)
(* A domain is the sequence of its labels from the root; a zone begins at  *)
(* some of the domains, the cuts.  The code takes every domain between a   *)
(* zone and a signer for a zone.  A record set carries the set of keys     *)
(* that have a valid signature over it, so that verification is a matter   *)
(* of sets; the cryptography is not modelled.  Which sets a published key  *)
(* has signed is a matter of the premise SignOwn: the code compares        *)
(* signatures with keys and never the owner of a set with the zone of the  *)
(* key.  A call of resolveAtDNSSEC for a referral or for the target of a   *)
(* CNAME continues the lookup one level deeper.                            *)
(***************************************************************************)
EXTENDS Integers, Sequences, FiniteSets, SequencesExt

CONSTANTS
    Lookups,     \* lookups that share the key cache
    Zones,       \* domains the code may take for zones, the root among them
    Cuts,        \* the domains at which a zone begins
    Names,       \* names asked for
    Home,        \* the zone each name is in
    Keys,        \* public keys
    Own,         \* the keys each zone publishes
    Signed,      \* the zones that sign their records
    KeySets,     \* the sets of keys a DS or DNSKEY record set may hold
    Sigs,        \* the RRSIG records a set may come with: the signer the first
                 \* of them names, and the keys with a signature that holds
    Servers,     \* how many servers each zone has
    TrueStarts,  \* premise: DS records that come while no keys are held are
                 \* as published
    SignOwn,     \* premise: a published key has signed only what the zones
                 \* that own the records publish
    MaxDepth,    \* resolver.max_depth
    TTLs,        \* TTLs of DNSKEY records
    DefaultTTL,  \* what CacheZoneKeys puts for a TTL of 0
    MaxTime      \* bound: the clock stops here

Root == <<>>
NoZone == <<"none">>
NoSig == [signer |-> NoZone, by |-> {}]

ASSUME DnssecConstants ==
    /\ Zones \subseteq Seq(STRING)
    /\ Root \in Zones
    /\ NoZone \notin Zones
    /\ \A z \in Zones : \A i \in 1..Len(z) : SubSeq(z, 1, i) \in Zones
    /\ Home \in [Names -> Zones]
    /\ Own \in [Zones -> SUBSET Keys]
    /\ KeySets \subseteq SUBSET Keys
    /\ {} \in KeySets
    /\ Sigs \subseteq [signer : Zones \cup {NoZone}, by : SUBSET Keys]
    /\ NoSig \in Sigs
    /\ Signed \subseteq Zones
    /\ Servers \in Nat
    /\ TrueStarts \in BOOLEAN
    /\ SignOwn \in BOOLEAN
    /\ MaxDepth \in Nat
    /\ TTLs \subseteq Nat
    /\ DefaultTTL \in Nat

\* Only zones publish keys, sign and have names in them.
ASSUME DnssecCuts ==
    /\ Root \in Cuts
    /\ Cuts \subseteq Zones
    /\ \A n \in Names : Home[n] \in Cuts
    /\ \A z \in Zones \ Cuts : Own[z] = {}
    /\ Signed \subseteq Cuts

\* A zone below the root that signs its records publishes the keys for it.
ASSUME SignersHaveKeys == \A z \in Signed \ {Root} : Own[z] # {}

VARIABLES
    look,      \* the state of each lookup
    keyCache,  \* Validator.keyCache: keys and expiry by zone, no keys if absent
    now,       \* the clock
    truthful   \* every server answers from the zones as they are published

vars == <<look, keyCache, now, truthful>>

-----------------------------------------------------------------------------
(* Zones *)

\* isDescendantZone.
Descends(child, ancestor) == IsStrictPrefix(ancestor, child)

\* Mutant of ZoneChain: the walk stops above the signer.
ZoneChainShort(parent, target) ==
    IF Descends(target, parent)
    THEN [i \in 1..(Len(target) - Len(parent) - 1) |-> SubSeq(target, 1, Len(parent) + i)]
    ELSE <<>>

\* zoneChain: the zones below parent down to target.
ZoneChain(parent, target) ==
    IF Descends(target, parent)
    THEN [i \in 1..(Len(target) - Len(parent)) |-> SubSeq(target, 1, Len(parent) + i)]
    ELSE <<>>

\* The zone that publishes the DS records of z: the nearest cut above it.
Above(z) == SubSeq(z, 1, Max({i \in 0..(Len(z) - 1) : SubSeq(z, 1, i) \in Cuts}))

-----------------------------------------------------------------------------
(* Record sets and replies *)

\* A published key has signed, which under SignOwn says that the set is what
\* its owner publishes.  Without it a set with such a signature may be anything:
\* VerifyAnyRRSIG does not ask whose key it is.
OwnerSigned(sig) == SignOwn /\ \E z \in Zones : sig.by \cap Own[z] # {}

AnswerReplies ==
    {r \in [kind : {"answer"}, asked : BOOLEAN, genuine : BOOLEAN, sig : Sigs] :
        OwnerSigned(r.sig) => r.genuine}

AliasReplies ==
    {r \in [kind : {"alias"}, target : Names, terminal : BOOLEAN,
            genuine : BOOLEAN, sig : Sigs] : OwnerSigned(r.sig) => r.genuine}

\* A key of the zone that publishes the DS records of z has signed: these are
\* as published, whatever other zones' keys sign.
AboveSigned(sig, z) == z # Root /\ sig.by \cap Own[Above(z)] # {}

\* DS records: whom they are about and the keys they designate.  In a referral
\* the NS records name the zone and secFilterTypeOwner takes the DS records of
\* it, if there are any; the root has none.
DSReplies ==
    {r \in [kind : {"referral"}, of : Zones, keys : KeySets, sig : Sigs] :
        /\ OwnerSigned(r.sig) \/ AboveSigned(r.sig, r.of) => r.keys \subseteq Own[r.of]
        /\ r.of = Root => r.keys = {}
        /\ r.keys = {} => r.sig = NoSig}

\* DNSKEY records of a zone, as published if a key of the zone has signed them.
KeyReplies ==
    {r \in [of : Zones, keys : KeySets \ {{}}, sig : Sigs] :
        OwnerSigned(r.sig) \/ r.sig.by \cap Own[r.of] # {} => r.keys \subseteq Own[r.of]}

NoReply == [kind |-> "none"]

\* The signatures zone z puts on its records.
TrueSig(z) == IF z \in Signed THEN [signer |-> z, by |-> Own[z]] ELSE NoSig

\* The DS set of z as its parent publishes it.
TrueDS(z) == IF z # Root /\ {z, Above(z)} \subseteq Signed THEN Own[z] ELSE {}

\* What the servers of zone z answer for name n when they hold what is
\* published; they may serve zones below z as well.
Truthful(r, n, z) ==
    IF r.kind = "referral"
    THEN /\ r.of \in Cuts
         /\ Descends(r.of, z)
         /\ IsPrefix(r.of, Home[n])
         /\ r.keys = TrueDS(r.of)
         /\ r.keys # {} => r.sig = TrueSig(Above(r.of))
    ELSE r.genuine /\ r.sig = TrueSig(Home[n]) /\ IsPrefix(z, Home[n])

-----------------------------------------------------------------------------
(* The lookups *)

Fresh(n) == [pc |-> "ask", name |-> n, zone |-> Root, keys |-> {}, depth |-> 0,
             left |-> Servers, resp |-> NoReply, todo |-> <<>>, walked |-> {},
             ds |-> {}, sound |-> TRUE, whole |-> TRUE, out |-> "none", status |-> "none"]

\* Nothing is stored for a zone.
Absent == [keys |-> {}, expires |-> 0]

Init ==
    /\ look \in [Lookups -> {Fresh(n) : n \in Names}]
    /\ keyCache = [z \in Zones |-> Absent]
    /\ now = 0
    /\ truthful \in BOOLEAN

\* A return of an answer, and of the kind of an error.
Return(s, status) ==
    [s EXCEPT !.pc = "done", !.out = "answer", !.status = status, !.keys = {},
              !.depth = 0, !.left = 0, !.todo = <<>>, !.walked = {}, !.ds = {}]

Fail(s, error, status) == [Fresh(s.name) EXCEPT !.pc = "done", !.out = error, !.status = status]

Invalid(s) == Fail(s, "invalid", "bogus")

\* A record set becomes part of the reply.
Take(s, held, genuine) ==
    [s EXCEPT !.sound = @ /\ (held => genuine), !.whole = @ /\ genuine, !.resp.sig = NoSig]

\* The call for the servers of a child zone.
Descend(s, keys) ==
    [s EXCEPT !.pc = "ask", !.zone = s.resp.of, !.keys = keys, !.depth = @ + 1,
              !.left = Servers, !.resp = NoReply, !.ds = {}]

\* The call for the target of a CNAME: LookupZoneKeys(".") finds nothing,
\* because the keys of the root are never stored.
Follow(s) ==
    [Fresh(s.resp.target) EXCEPT !.depth = s.depth + 1, !.sound = s.sound,
                                 !.whole = s.whole]

\* Mutant of Verifies: a signature counts whatever key has made it.
VerifiesByAnyKey(keys, sig) == sig.by # {}

\* VerifyAnyRRSIG.
Verifies(keys, sig) == keys \cap sig.by # {}

\* Mutant of Verified: the record set of a CNAME is not verified.
VerifiedButAlias(s) ==
    LET r == s.resp  t == [Take(s, TRUE, r.genuine) EXCEPT !.walked = {}] IN
    IF r.kind = "alias" THEN [t EXCEPT !.pc = "target"]
    ELSE IF ~Verifies(s.walked, r.sig) THEN Invalid(s)
    ELSE IF r.kind = "answer" THEN Return(t, "secure")
    ELSE [s EXCEPT !.pc = "servers", !.walked = {}, !.resp.sig = NoSig]

\* VerifyAnyRRSIG of secVerifyWithWalk, and what its caller does next.
Verified(s) ==
    LET r == s.resp  t == [Take(s, TRUE, r.genuine) EXCEPT !.walked = {}] IN
    IF ~Verifies(s.walked, r.sig) THEN Invalid(s)
    ELSE IF r.kind = "answer" THEN Return(t, "secure")
    ELSE IF r.kind = "alias" THEN [t EXCEPT !.pc = "target"]
    ELSE [s EXCEPT !.pc = "servers", !.walked = {}, !.resp.sig = NoSig]

Walk(s) == IF s.todo = <<>> THEN Verified(s) ELSE [s EXCEPT !.pc = "walk"]

\* secVerifyWithWalk begins: the keys of the zones down to the signer are
\* needed if it is below the zone of the call.
StartVerify(s) ==
    Walk([s EXCEPT !.walked = s.keys,
                   !.todo = IF s.resp.sig.signer = NoZone THEN <<>>
                            ELSE ZoneChain(s.zone, s.resp.sig.signer)])

\* VerifyDS: the keys of a set that DS records designate by tag and digest.
Designated(ds, keys) == ds \cap keys

\* ValidateZoneDNSKEY: some key that a DS record designates has signed the set.
ValidKeys(ds, r) == Verifies(Designated(ds, r.keys), r.sig)

\* An iteration of the loop over the servers in which query returns an error.
ServerFails(l) ==
    /\ look[l].pc = "ask"
    /\ look[l].depth <= MaxDepth
    /\ look[l].left > 0
    /\ look' = [look EXCEPT ![l].left = @ - 1]
    /\ UNCHANGED <<keyCache, now, truthful>>

\* The depth is checked first; a loop that ends has failed.
GivesUp(l) ==
    /\ look[l].pc = "ask"
    /\ look[l].depth > MaxDepth \/ look[l].left = 0
    /\ look' = [look EXCEPT ![l] = Fail(@, IF look[l].depth > MaxDepth THEN "depth"
                                           ELSE "servers", "bogus")]
    /\ UNCHANGED <<keyCache, now, truthful>>

\* A reply without answers and name servers.
NoData(l) ==
    /\ look[l].pc = "ask" /\ look[l].depth <= MaxDepth /\ look[l].left > 0
    /\ look' = [look EXCEPT ![l] = Return(@, "insecure")]
    /\ UNCHANGED <<keyCache, now, truthful>>

\* A server answers, one that holds what is published if all do.
Hears(l) == look[l].pc = "ask" /\ look[l].depth <= MaxDepth /\ look[l].left > 0

Credible(r, s) == truthful => Truthful(r, s.name, s.zone)

AnswerComes(l) ==
    /\ Hears(l)
    /\ \E r \in AnswerReplies :
          LET s == [look[l] EXCEPT !.resp = r] IN
          /\ Credible(r, s)
          /\ look' = [look EXCEPT ![l] =
                         IF s.keys # {} /\ r.asked THEN StartVerify(s)
                         ELSE Return(Take(s, FALSE, r.genuine), "insecure")]
    /\ UNCHANGED <<keyCache, now, truthful>>

AliasComes(l) ==
    /\ Hears(l)
    /\ \E r \in AliasReplies :
          LET s == [look[l] EXCEPT !.resp = r] IN
          /\ Credible(r, s)
          /\ look' = [look EXCEPT ![l] =
                         IF s.keys # {} THEN StartVerify(s)
                         ELSE [Take(s, FALSE, r.genuine) EXCEPT !.pc = "target"]]
    /\ UNCHANGED <<keyCache, now, truthful>>

ReferralComes(l) ==
    /\ Hears(l)
    /\ \E r \in DSReplies :
          LET s == [look[l] EXCEPT !.resp = r] IN
          /\ Credible(r, s)
          /\ TrueStarts /\ s.keys = {} => r.keys \subseteq Own[r.of]
          /\ look' = [look EXCEPT ![l] =
                         IF s.keys # {} /\ r.keys # {} THEN StartVerify(s)
                         ELSE [s EXCEPT !.pc = "servers", !.resp.sig = NoSig]]
    /\ UNCHANGED <<keyCache, now, truthful>>

\* The target of a CNAME: its records in the same reply, a negative entry, an
\* entry of the answer cache, or a lookup from the root.
TargetInReply(l) ==
    /\ look[l].pc = "target" /\ look[l].resp.terminal
    /\ look' = [look EXCEPT ![l] = Return(@, "insecure")]
    /\ UNCHANGED <<keyCache, now, truthful>>

TargetNegative(l) ==
    /\ look[l].pc = "target" /\ ~look[l].resp.terminal
    /\ look' = [look EXCEPT ![l] = Fail(@, "denied", "insecure")]
    /\ UNCHANGED <<keyCache, now, truthful>>

TargetCached(l, genuine) ==
    /\ look[l].pc = "target" /\ ~look[l].resp.terminal
    /\ look' = [look EXCEPT ![l] =
                  Return([look[l] EXCEPT !.whole = @ /\ genuine], "secure")]
    /\ UNCHANGED <<keyCache, now, truthful>>

TargetMissed(l) ==
    /\ look[l].pc = "target" /\ ~look[l].resp.terminal
    /\ look' = [look EXCEPT ![l] = Follow(@)]
    /\ UNCHANGED <<keyCache, now, truthful>>

\* Of a child zone the addresses of its servers are needed first, from glue or
\* resolveNSParallel, whose failure moves on to the next server.
NoAddresses(l) ==
    /\ look[l].pc = "servers"
    /\ look' = [look EXCEPT ![l].pc = "ask", ![l].left = @ - 1, ![l].resp = NoReply]
    /\ UNCHANGED <<keyCache, now, truthful>>

-----------------------------------------------------------------------------
(* The keys of the next zone: of the walk, or the child of a referral *)

NextZone(s) == IF s.todo # <<>> THEN Head(s.todo) ELSE s.resp.of

WantsKeys(s) == s.pc \in {"servers", "walk"}

Obtain(s, keys) ==
    IF s.todo # <<>>
    THEN Walk([s EXCEPT !.walked = keys, !.todo = Tail(@), !.ds = {}])
    ELSE Descend(s, keys)

\* No keys in the cache: the walk asks for DS records, a referral has brought
\* them, or the child zone is not signed.
Miss(s) ==
    IF s.todo # <<>> THEN [s EXCEPT !.pc = "ds"]
    ELSE IF s.resp.keys # {} THEN [s EXCEPT !.pc = "dnskey", !.ds = s.resp.keys]
    ELSE Descend(s, {})

\* LookupZoneKeys: Load, then the comparison with the clock.
KeysCached(l) ==
    LET s == look[l]  entry == keyCache[NextZone(s)] IN
    /\ WantsKeys(s)
    /\ entry # Absent /\ now <= entry.expires
    /\ look' = [look EXCEPT ![l] = Obtain(s, entry.keys)]
    /\ UNCHANGED <<keyCache, now, truthful>>

KeysMissing(l) ==
    LET s == look[l] IN
    /\ WantsKeys(s)
    /\ keyCache[NextZone(s)] = Absent
    /\ look' = [look EXCEPT ![l] = Miss(s)]
    /\ UNCHANGED <<keyCache, now, truthful>>

KeysExpired(l) ==
    LET s == look[l]  entry == keyCache[NextZone(s)] IN
    /\ WantsKeys(s)
    /\ entry # Absent /\ now > entry.expires
    /\ look' = [look EXCEPT ![l].pc = "delete"]
    /\ UNCHANGED <<keyCache, now, truthful>>

\* The Delete of LookupZoneKeys, of whatever is stored by now.
DeleteKeys(l) ==
    LET s == look[l] IN
    /\ s.pc = "delete"
    /\ keyCache' = [keyCache EXCEPT ![NextZone(s)] = Absent]
    /\ look' = [look EXCEPT ![l] = Miss(s)]
    /\ UNCHANGED <<now, truthful>>

\* secEstablishIntermediateKeys asks for the DS records of a zone: secFilterTypeOwner
\* keeps those of that zone, of which there must be one.
DSComes(l) ==
    /\ look[l].pc = "ds"
    /\ \E r \in DSReplies :
          LET s == look[l] IN
          /\ truthful => /\ r.of = NextZone(s)
                         /\ r.keys = TrueDS(r.of)
                         /\ r.keys # {} => r.sig = TrueSig(Above(r.of))
          /\ look' = [look EXCEPT ![l] =
                IF r.of = NextZone(s) /\ r.keys # {} /\ Verifies(s.walked, r.sig)
                THEN [s EXCEPT !.pc = "dnskey", !.ds = r.keys]
                ELSE Invalid(s)]
    /\ UNCHANGED <<keyCache, now, truthful>>

\* CacheZoneKeys.
CacheZoneKeys(z, keys, ttl) ==
    keyCache' = [keyCache EXCEPT ![z] =
        [keys |-> keys, expires |-> now + (IF ttl = 0 THEN DefaultTTL ELSE ttl)]]

\* secFetchDNSKEY, ValidateZoneDNSKEY and, of a valid set, CacheZoneKeys.
KeysCome(l) ==
    /\ look[l].pc = "dnskey"
    /\ \E r \in KeyReplies, ttl \in TTLs :
          LET s == look[l] IN
          /\ r.of = NextZone(s)
          /\ truthful => r.keys = Own[r.of] /\ r.sig = TrueSig(r.of)
          /\ IF ValidKeys(s.ds, r)
             THEN /\ look' = [look EXCEPT ![l] = Obtain(s, r.keys)]
                  /\ CacheZoneKeys(r.of, r.keys, ttl)
             ELSE /\ look' = [look EXCEPT ![l] = Invalid(s)]
                  /\ UNCHANGED keyCache
    /\ UNCHANGED <<now, truthful>>

\* No server answers a query for DS or DNSKEY records.
Unreachable(l) ==
    /\ look[l].pc \in {"ds", "dnskey"}
    /\ look' = [look EXCEPT ![l] = Fail(@, "unreachable", "bogus")]
    /\ UNCHANGED <<keyCache, now, truthful>>

Tick ==
    /\ now < MaxTime
    /\ now' = now + 1
    /\ UNCHANGED <<look, keyCache, truthful>>

Asking(l) ==
    \/ ServerFails(l)
    \/ GivesUp(l)
    \/ NoData(l)
    \/ AnswerComes(l)
    \/ AliasComes(l)
    \/ ReferralComes(l)
    \/ TargetInReply(l)
    \/ TargetNegative(l)
    \/ \E genuine \in BOOLEAN : TargetCached(l, genuine)
    \/ TargetMissed(l)
    \/ NoAddresses(l)

Establishing(l) ==
    \/ KeysCached(l)
    \/ KeysMissing(l)
    \/ KeysExpired(l)
    \/ DeleteKeys(l)
    \/ DSComes(l)
    \/ KeysCome(l)
    \/ Unreachable(l)

Next == Tick \/ \E l \in Lookups : Asking(l) \/ Establishing(l)

Spec == Init /\ [][Next]_vars

-----------------------------------------------------------------------------
(* Properties *)

Replies == AnswerReplies \cup AliasReplies \cup DSReplies

PCs == {"ask", "target", "servers", "walk", "delete", "ds", "dnskey", "done"}

Outs == {"none", "answer", "depth", "servers", "invalid", "denied", "unreachable"}

Statuses == {"none", "secure", "insecure", "bogus"}

LookType ==
    [pc : PCs,
     name : Names, zone : Zones, keys : SUBSET Keys, depth : Nat, left : Int,
     resp : Replies \cup {NoReply}, todo : Seq(Zones \ {Root}), walked : SUBSET Keys,
     ds : SUBSET Keys, sound : BOOLEAN, whole : BOOLEAN,
     out : Outs, status : Statuses]

\* Type correctness of the lookups and the key cache.
TypeOK ==
    /\ look \in [Lookups -> LookType]
    /\ keyCache \in [Zones -> [keys : SUBSET Keys, expires : Nat]]
    /\ now \in Nat
    /\ truthful \in BOOLEAN

\* The premises under which a chain of keys says whose records it is about: it
\* begins at DS records that are as published, and no published key has signed
\* what its owner does not publish.  The code establishes neither.
Premises == TrueStarts /\ SignOwn

\* Under the premises, what the key cache holds of a zone, and what a lookup
\* verifies with, are keys which that zone publishes.  (Validator.CacheZoneKeys and
\* LookupZoneKeys, whose callers interleave.)  The keys of the root are never
\* stored: this is why a lookup starts without keys.
KeysGenuine ==
    /\ keyCache[Root] = Absent
    /\ Premises =>
                /\ \A z \in Zones : keyCache[z].keys \subseteq Own[z]
                /\ \A l \in Lookups : look[l].keys \subseteq Own[look[l].zone]

\* Under the premises, every record set that a lookup took while it held keys is
\* what its zone publishes, and so is a plain answer that is called secure; what
\* came in without keys is not spoken of (SecureReplyGenuine).
\* (secVerifyWithWalk before each use of a record set.)
VerifiedIsGenuine ==
    \A l \in Lookups : Premises /\ look[l].out = "answer" =>
        /\ look[l].sound
        /\ (look[l].status = "secure" /\ look[l].resp.kind = "answer") => look[l].resp.genuine

\* A name with a signed zone at every label up to the root: of a label without
\* a zone of its own there are no DS records, and the walk fails.
WellSigned(n) == \A z \in Zones : IsPrefix(z, Home[n]) => z \in Signed

\* When the servers answer with what is published, no lookup of names with a
\* signed zone at every label is found invalid, and an answer from below the root
\* is secure, whatever other lookups do to the key cache.  (SERVFAIL is for bogus
\* responses only; the race of Delete in LookupZoneKeys.)
TruthAccepted ==
    \A l \in Lookups : truthful /\ (\A n \in Names : WellSigned(n)) =>
        /\ look[l].out # "invalid"
        /\ (/\ look[l].out = "answer" /\ look[l].zone # Root
            /\ look[l].resp.kind = "answer" /\ look[l].resp.asked)
           => look[l].status = "secure"

\* A lookup whose record sets may be relied on, under the premises.
Trusted(s) ==
    Premises => /\ s.keys \subseteq Own[s.zone]
                /\ s.sound
                /\ (s.status = "secure" /\ s.resp.kind = "answer") => s.resp.genuine

\* Keys that zone z has published, all of them.
Published(keys, z) == Premises => keys \subseteq Own[z]

\* Between a reply that waits for keys and its end: the zones whose keys are
\* still needed, and what the keys at hand are.
Waiting(s) ==
    /\ s.pc \in {"servers", "walk", "delete", "ds", "dnskey"}
       => IF s.todo = <<>>
          THEN s.resp \in DSReplies /\ Published(s.resp.keys, s.resp.of)
          ELSE s.resp \in Replies /\ \E z \in Zones : Published(s.walked, z)
    /\ s.pc \in {"ask", "servers"} => s.todo = <<>>
    /\ s.pc \in {"walk", "ds"} => s.todo # <<>>
    /\ s.pc = "dnskey" => /\ Published(s.ds, NextZone(s))
                          /\ s.todo = <<>> => s.resp.keys # {}
    /\ s.pc = "target" => s.resp \in AliasReplies
    /\ s.pc # "done" => s.out = "none" /\ s.status = "none"

\* The inductive invariant behind KeysGenuine and VerifiedIsGenuine.
IInv ==
    /\ TypeOK
    /\ keyCache[Root] = Absent
    /\ \A z \in Zones : Published(keyCache[z].keys, z)
    /\ \A l \in Lookups : Trusted(look[l]) /\ Waiting(look[l])

\* README.md, line 6: validation is from the root, and secure responses carry
\* the AD bit.  (resolve, lines 98-100.)
SecureReplyGenuine ==
    \A l \in Lookups : look[l].status = "secure" => look[l].whole

\* "Full chain validation (DNSKEY -> DS -> RRSIG)" (README.md, line 6): the keys
\* stored for a zone are keys it publishes, if the chains begin right.
\* (VerifyAnyRRSIG and ValidateZoneDNSKEY, dnssec.go:184-228, 382-400.)
ChainValidated ==
    TrueStarts => \A z \in Zones : keyCache[z].keys \subseteq Own[z]

=============================================================================
