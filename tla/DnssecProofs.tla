---------------------------- MODULE DnssecProofs ----------------------------
(***************************************************************************)
(* What validation achieves, however many lookups share the key cache and  *)
(* for any tree of zones.  If chains begin at DS records as published and  *)
(* published keys sign only what is published, keys that are held or       *)
(* stored are keys their zone publishes, and a record set that was taken   *)
(* while keys were held is what its zone publishes.  And what validation   *)
(* lets through: names with a signed zone at every label are never found   *)
(* invalid when the servers are truthful.                                  *)
(***************************************************************************)
EXTENDS Dnssec, SequenceTheorems, TLAPS

USE DnssecConstants

\* What the invariant says of one lookup.
GoodLook(s) == s \in LookType /\ Trusted(s) /\ Waiting(s)

-----------------------------------------------------------------------------
(* Record sets *)

\* A set verified with keys that some zone publishes is, if such keys sign only what
\* is published, as published (VerifyAnyRRSIG, dnssec.go:205-228).
LEMMA VerifiesOwner ==
  ASSUME SignOwn, NEW keys \in SUBSET Keys, NEW z \in Zones, NEW sig \in Sigs,
         keys \subseteq Own[z], Verifies(keys, sig)
  PROVE  OwnerSigned(sig)
<1>1. PICK k \in keys : k \in sig.by
  BY DEF Verifies
<1>2. k \in sig.by \cap Own[z]
  BY <1>1
<1> QED
  BY <1>2 DEF OwnerSigned

\* The kinds of replies, and what a signature of an owner says of each.
LEMMA ReplyFacts ==
  ASSUME NEW r \in Replies
  PROVE  /\ r.sig \in Sigs
         /\ r \in AnswerReplies <=> r.kind = "answer"
         /\ r \in AliasReplies <=> r.kind = "alias"
         /\ r \in DSReplies <=> r.kind = "referral"
         /\ r \notin DSReplies => r.genuine \in BOOLEAN /\ (OwnerSigned(r.sig) => r.genuine)
         /\ r \in AliasReplies => r.target \in Names
         /\ r \in DSReplies => /\ r.of \in Zones
                               /\ r.keys \in SUBSET Keys
                               /\ r.keys # {} => r.of # Root
                               /\ OwnerSigned(r.sig) => r.keys \subseteq Own[r.of]
  BY DEF Replies, AnswerReplies, AliasReplies, DSReplies

\* A reply whose signature is forgotten is still one of its kind.
LEMMA UnsignedReply ==
  ASSUME NEW r \in Replies
  PROVE  /\ r \in AnswerReplies => [r EXCEPT !.sig = NoSig] \in AnswerReplies
         /\ r \in AliasReplies => [r EXCEPT !.sig = NoSig] \in AliasReplies
         /\ r \in DSReplies => [r EXCEPT !.sig = NoSig] \in DSReplies
<1>1. ~OwnerSigned(NoSig) /\ NoSig \in Sigs /\ \A z : ~AboveSigned(NoSig, z)
  BY DEF OwnerSigned, AboveSigned, NoSig
<1>2. CASE r \in AnswerReplies
  BY <1>1, <1>2, ReplyFacts DEF AnswerReplies
<1>3. CASE r \in AliasReplies
  BY <1>1, <1>3, ReplyFacts DEF AliasReplies
<1>4. CASE r \in DSReplies
  BY <1>1, <1>4, ReplyFacts DEF DSReplies
<1> QED
  BY <1>2, <1>3, <1>4, ReplyFacts

\* The chain down to a signer consists of zones below the root (zoneChain,
\* resolver.go:326-350).
LEMMA ChainOfZones ==
  ASSUME NEW parent \in Zones, NEW target \in Zones
  PROVE  ZoneChain(parent, target) \in Seq(Zones \ {Root})
<1>1. parent \in Seq(STRING) /\ target \in Seq(STRING)
  OBVIOUS
<1>2. CASE Descends(target, parent)
  <2>1. Len(target) - Len(parent) \in Nat
    BY <1>1, <1>2 DEF Descends, IsStrictPrefix, IsPrefix
  <2>2. ASSUME NEW i \in 1 .. (Len(target) - Len(parent))
        PROVE  SubSeq(target, 1, Len(parent) + i) \in Zones \ {Root}
    <3>1. Len(parent) + i \in 1 .. Len(target)
      BY <1>1, <2>1
    <3>2. PICK z : z = SubSeq(target, 1, Len(parent) + i)
      OBVIOUS
    <3>3. z \in Zones
      BY <3>1, <3>2
    <3>4. Len(z) = Len(parent) + i
      BY <1>1, <3>1, <3>2
    <3>5. z # Root
      BY <3>1, <3>4 DEF Root
    <3> QED
      BY <3>2, <3>3, <3>5
  <2> DEFINE n == Len(target) - Len(parent)
             chain == [i \in 1 .. n |-> SubSeq(target, 1, Len(parent) + i)]
  <2>3. chain \in [1 .. n -> Zones \ {Root}] /\ n \in Nat
    BY <2>1, <2>2
  <2>4. chain \in Seq(Zones \ {Root})
    BY ONLY <2>3, SeqDef, Zenon
  <2> QED
    BY <1>2, <2>4 DEF ZoneChain
<1>3. CASE ~Descends(target, parent)
  BY <1>3 DEF ZoneChain
<1> QED
  BY <1>2, <1>3

-----------------------------------------------------------------------------
(* What the code does between two steps of a lookup *)

\* A start is good: nothing is held or taken yet (resolver.go:91-96).
LEMMA FreshGood ==
  ASSUME NEW n \in Names
  PROVE  GoodLook(Fresh(n))
<1>1. Fresh(n) \in LookType
  BY DEF Fresh, LookType, NoReply, Root, PCs, Outs, Statuses
<1> QED
  BY <1>1 DEF GoodLook, Trusted, Waiting, Fresh, NoReply

\* An error is returned with nothing that could be relied on
\* (resolver.go:129-136).
LEMMA FailGood ==
  ASSUME NEW s \in LookType,
         NEW error \in Outs \ {"none", "answer"},
         NEW status \in {"insecure", "bogus"}
  PROVE  GoodLook(Fail(s, error, status))
<1>1. s.name \in Names
  BY DEF LookType
<1>2. Fresh(s.name) \in LookType
  BY <1>1, FreshGood DEF GoodLook
<1>3. "done" \in PCs /\ error \in Outs /\ status \in Statuses
  BY DEF PCs, Statuses
<1>4. Fail(s, error, status) \in LookType
  BY <1>2, <1>3 DEF Fail, LookType
<1> QED
  BY <1>4 DEF GoodLook, Trusted, Waiting, Fail, Fresh, NoReply

\* A reply that is called secure must be genuine (resolver.go:183-193).
LEMMA ReturnGood ==
  ASSUME NEW s \in LookType, NEW status \in {"secure", "insecure"},
         Premises => s.sound,
         Premises /\ status = "secure" /\ s.resp.kind = "answer" => s.resp.genuine
  PROVE  GoodLook(Return(s, status))
<1>1. Return(s, status) \in LookType
  <2>1. <<>> \in Seq(Zones \ {Root}) /\ {} \in SUBSET Keys /\ 0 \in Nat /\ 0 \in Int
    OBVIOUS
  <2>2. "done" \in PCs /\ "answer" \in Outs /\ status \in Statuses
    BY DEF PCs, Outs, Statuses
  <2> DEFINE ended == [s EXCEPT !.pc = "done", !.out = "answer", !.status = status]
  <2>3. ended \in LookType
    BY <2>2 DEF LookType
  <2>4. ASSUME NEW e \in LookType, NEW empty \in SUBSET Keys,
               NEW none \in Seq(Zones \ {Root}), NEW zero \in Nat, NEW nought \in Int
        PROVE  [e EXCEPT !.keys = empty, !.depth = zero, !.left = nought, !.todo = none,
                         !.walked = empty, !.ds = empty] \in LookType
    BY DEF LookType
  <2>5. Return(s, status) = [ended EXCEPT !.keys = {}, !.depth = 0, !.left = 0,
                                          !.todo = <<>>, !.walked = {}, !.ds = {}]
    BY DEF Return, LookType
  <2> HIDE DEF ended
  <2>6. [ended EXCEPT !.keys = {}, !.depth = 0, !.left = 0, !.todo = <<>>, !.walked = {},
                      !.ds = {}] \in LookType
    BY <2>1, <2>3, <2>4, Zenon
  <2> QED
    BY <2>5, <2>6, Zenon
<1>2. /\ Return(s, status).keys = {}
      /\ Return(s, status).sound = s.sound
      /\ Return(s, status).status = status
      /\ Return(s, status).resp = s.resp
      /\ Return(s, status).pc = "done"
  BY DEF Return, LookType
<1>3. Trusted(Return(s, status))
  BY <1>2 DEF Trusted
<1> QED
  BY <1>1, <1>2, <1>3 DEF GoodLook, Waiting

\* The call for the child zone holds keys of that zone (resolver.go:224-255).
LEMMA DescendGood ==
  ASSUME NEW s \in LookType, s.resp \in DSReplies, s.todo = <<>>, NEW keys \in SUBSET Keys,
         Published(keys, s.resp.of), Premises => s.sound,
         s.out = "none", s.status = "none"
  PROVE  GoodLook(Descend(s, keys))
<1>1. s.resp.of \in Zones
  BY ReplyFacts DEF Replies
<1>2. Descend(s, keys) \in LookType
  <2>1. s.depth + 1 \in Nat /\ Servers \in Int /\ {} \in SUBSET Keys
    BY DEF LookType
  <2>2. NoReply \in Replies \cup {NoReply} /\ "ask" \in PCs
    BY DEF PCs
  <2> QED
    BY <1>1, <2>1, <2>2 DEF Descend, LookType
<1>3. /\ Descend(s, keys).keys = keys
      /\ Descend(s, keys).zone = s.resp.of
      /\ Descend(s, keys).sound = s.sound
      /\ Descend(s, keys).out = "none"
      /\ Descend(s, keys).status = "none"
      /\ Descend(s, keys).todo = <<>>
      /\ Descend(s, keys).pc = "ask"
  BY DEF Descend, LookType
<1>4. Trusted(Descend(s, keys))
  BY <1>3 DEF Trusted, Published
<1> QED
  BY <1>2, <1>3, <1>4 DEF GoodLook, Waiting

\* A record set becomes part of the reply.
LEMMA TakeType ==
  ASSUME NEW s \in LookType, s.resp \in Replies, NEW held \in BOOLEAN,
         NEW genuine \in BOOLEAN
  PROVE  /\ Take(s, held, genuine) \in LookType
         /\ Take(s, held, genuine).resp = [s.resp EXCEPT !.sig = NoSig]
         /\ Take(s, held, genuine).keys = s.keys
         /\ Take(s, held, genuine).zone = s.zone
         /\ Take(s, held, genuine).todo = s.todo
         /\ Take(s, held, genuine).status = s.status
         /\ Take(s, held, genuine).out = s.out
<1>1. [s.resp EXCEPT !.sig = NoSig] \in Replies
  BY UnsignedReply DEF Replies
<1>2. (s.sound /\ (held => genuine)) \in BOOLEAN /\ (s.whole /\ genuine) \in BOOLEAN
  OBVIOUS
<1> QED
  BY <1>1, <1>2 DEF Take, LookType

\* What was taken while keys were held must be genuine.
LEMMA TakeSound ==
  ASSUME NEW s \in LookType, s.resp \in Replies, NEW held \in BOOLEAN,
         NEW genuine \in BOOLEAN
  PROVE  Take(s, held, genuine).sound = (s.sound /\ (held => genuine))
  BY DEF Take, LookType

\* A lookup that is about to verify what it has received.
Verifiable(s) ==
    /\ s \in LookType
    /\ s.resp \in Replies
    /\ \E z \in Zones : Published(s.walked, z)
    /\ Premises => s.keys \subseteq Own[s.zone] /\ s.sound
    /\ s.out = "none" /\ s.status = "none"

\* What is taken after verification is genuine (resolver.go:306-312).
LEMMA VerifiedGood ==
  ASSUME NEW s, Verifiable(s), s.todo = <<>>
  PROVE  GoodLook(Verified(s))
<1> DEFINE r == s.resp
           t == [Take(s, TRUE, r.genuine) EXCEPT !.walked = {}]
<1>0. s \in LookType /\ r \in Replies /\ r.sig \in Sigs /\ s.walked \in SUBSET Keys
  BY ReplyFacts DEF Verifiable, LookType
<1>1. CASE ~Verifies(s.walked, r.sig)
  <2>1. Verified(s) = Fail(s, "invalid", "bogus")
    BY <1>1 DEF Verified, Invalid
  <2>2. "invalid" \in Outs \ {"none", "answer"}
    BY DEF Outs
  <2> QED
    BY <1>0, <2>1, <2>2, FailGood
<1>2. CASE Verifies(s.walked, r.sig)
  <2>1. Premises => OwnerSigned(r.sig)
    BY <1>0, <1>2, VerifiesOwner DEF Verifiable, Published, Premises
  <2>2. ASSUME r \notin DSReplies
        PROVE  /\ Premises => r.genuine
               /\ r.genuine \in BOOLEAN
    BY <1>0, <2>1, <2>2, ReplyFacts
  <2>3. ASSUME r \notin DSReplies
        PROVE  /\ t \in LookType
               /\ Premises => t.sound
               /\ t.resp = [r EXCEPT !.sig = NoSig]
               /\ t.keys = s.keys /\ t.zone = s.zone
               /\ t.out = "none" /\ t.status = "none"
    <3> DEFINE u == Take(s, TRUE, r.genuine)
    <3>1. /\ u \in LookType
          /\ u.sound = (s.sound /\ (TRUE => r.genuine))
          /\ u.resp = [r EXCEPT !.sig = NoSig]
          /\ u.keys = s.keys /\ u.zone = s.zone /\ u.out = s.out /\ u.status = s.status
      BY <1>0, <2>2, <2>3, TakeType, TakeSound
    <3>2. Premises => u.sound
      BY <2>2, <2>3, <3>1 DEF Verifiable
    <3> HIDE DEF u
    <3>3. [u EXCEPT !.walked = {}] \in LookType
      BY <3>1 DEF LookType
    <3> QED
      BY <3>1, <3>2, <3>3 DEF Verifiable, LookType, u
  <2> HIDE DEF t
  <2>4. CASE r.kind = "answer"
    <3>1. r \notin DSReplies
      BY <1>0, <2>4, ReplyFacts
    <3>2. Verified(s) = Return(t, "secure")
      BY <1>2, <2>4 DEF Verified, t
    <3>3. t.resp.genuine = r.genuine
      BY <1>0, <2>3, <2>4, <3>1, ReplyFacts DEF AnswerReplies
    <3> QED
      BY <2>2, <2>3, <3>1, <3>2, <3>3, ReturnGood
  <2>5. CASE r.kind = "alias"
    <3>1. r \in AliasReplies /\ r \notin DSReplies
      BY <1>0, <2>5, ReplyFacts
    <3>2. Verified(s) = [t EXCEPT !.pc = "target"]
      BY <1>2, <2>5 DEF Verified, t
    <3>3. t.resp \in AliasReplies
      BY <1>0, <2>3, <3>1, UnsignedReply
    <3>4. [t EXCEPT !.pc = "target"] \in LookType
      BY <2>3, <3>1 DEF LookType, PCs
    <3> QED
      BY <2>3, <3>1, <3>2, <3>3, <3>4 DEF GoodLook, Trusted, Waiting, Verifiable, LookType
  <2>6. CASE r.kind \notin {"answer", "alias"}
    <3> DEFINE v == [s EXCEPT !.pc = "servers", !.walked = {}, !.resp.sig = NoSig]
    <3>1. r \in DSReplies
      BY <1>0, <2>6, ReplyFacts DEF Replies
    <3>2. Verified(s) = v
      BY <1>2, <2>6 DEF Verified
    <3>3. [r EXCEPT !.sig = NoSig] \in DSReplies
      BY <1>0, <3>1, UnsignedReply
    <3>4. v = [s EXCEPT !.pc = "servers", !.walked = {}, !.resp = [r EXCEPT !.sig = NoSig]]
      BY <1>0 DEF LookType
    <3>5. v \in LookType
      BY <1>0, <3>3, <3>4 DEF LookType, PCs, Replies
    <3>6. /\ v.resp.keys = r.keys /\ v.resp.of = r.of /\ v.resp.kind = "referral"
          /\ v.resp \in DSReplies
      BY <1>0, <3>1, <3>3, <3>4 DEF LookType, DSReplies
    <3>7. v.pc = "servers" /\ v.todo = s.todo /\ v.keys = s.keys /\ v.zone = s.zone
          /\ v.sound = s.sound /\ v.out = s.out /\ v.status = s.status
      BY <1>0, <3>4 DEF LookType
    <3>8. Published(v.resp.keys, v.resp.of)
      BY <1>0, <2>1, <3>1, <3>6, ReplyFacts DEF Published
    <3> HIDE DEF v
    <3> QED
      BY <3>2, <3>5, <3>6, <3>7, <3>8 DEF GoodLook, Trusted, Waiting, Verifiable
  <2> QED
    BY <2>4, <2>5, <2>6
<1> QED
  BY <1>1, <1>2

\* The walk goes on with keys that some zone publishes (resolver.go:352-370).
LEMMA WalkGood ==
  ASSUME NEW s, Verifiable(s)
  PROVE  GoodLook(Walk(s))
<1>1. CASE s.todo = <<>>
  BY <1>1, VerifiedGood DEF Walk
<1>2. CASE s.todo # <<>>
  <2> DEFINE w == [s EXCEPT !.pc = "walk"]
  <2>1. Walk(s) = w
    BY <1>2 DEF Walk
  <2>2. w \in LookType
    BY DEF Verifiable, LookType, PCs
  <2>3. /\ w.pc = "walk" /\ w.todo = s.todo /\ w.resp = s.resp /\ w.walked = s.walked
        /\ w.keys = s.keys /\ w.zone = s.zone /\ w.sound = s.sound
        /\ w.out = "none" /\ w.status = "none"
    BY DEF Verifiable, LookType
  <2> HIDE DEF w
  <2> QED
    BY <1>2, <2>1, <2>2, <2>3 DEF Verifiable, GoodLook, Trusted, Waiting
<1> QED
  BY <1>1, <1>2

\* What verification starts from (resolver.go:273-290).
LEMMA StartVerifyGood ==
  ASSUME NEW s \in LookType, s.resp \in Replies, s.out = "none", s.status = "none",
         Premises => s.keys \subseteq Own[s.zone] /\ s.sound
  PROVE  GoodLook(StartVerify(s))
<1> DEFINE todo == IF s.resp.sig.signer = NoZone THEN <<>>
                   ELSE ZoneChain(s.zone, s.resp.sig.signer)
           v == [s EXCEPT !.walked = s.keys, !.todo = todo]
<1>1. s.zone \in Zones /\ s.keys \in SUBSET Keys
  BY DEF LookType
<1>2. todo \in Seq(Zones \ {Root})
  <2>1. CASE s.resp.sig.signer = NoZone
    BY <2>1
  <2>2. CASE s.resp.sig.signer # NoZone
    <3>1. s.resp.sig.signer \in Zones
      BY <2>2, ReplyFacts
    <3> QED
      BY <1>1, <2>2, <3>1, ChainOfZones
  <2> QED
    BY <2>1, <2>2
<1> HIDE DEF todo
<1>3. v \in LookType
  BY <1>1, <1>2 DEF LookType
<1>4. /\ v.resp = s.resp /\ v.walked = s.keys /\ v.keys = s.keys /\ v.zone = s.zone
      /\ v.sound = s.sound /\ v.out = "none" /\ v.status = "none"
  BY DEF LookType
<1>5. Verifiable(v)
  <2> HIDE DEF v
  <2>1. Published(v.walked, v.zone) /\ v.zone \in Zones
    BY <1>1, <1>4 DEF Published
  <2> QED
    BY <1>3, <1>4, <2>1 DEF Verifiable
<1>6. StartVerify(s) = Walk(v)
  BY DEF StartVerify, todo
<1> QED
  BY <1>5, <1>6, WalkGood

\* The next zone is one below the root when its keys are to be stored.
LEMMA NextZoneType ==
  ASSUME NEW s, GoodLook(s), s.pc \in {"servers", "walk", "delete", "ds", "dnskey"}
  PROVE  /\ NextZone(s) \in Zones
         /\ s.pc = "dnskey" => NextZone(s) # Root
<1>1. CASE s.todo = <<>>
  <2>1. s.resp \in DSReplies /\ s.resp \in Replies
    BY <1>1 DEF GoodLook, Waiting, Replies
  <2>2. s.resp.of \in Zones /\ (s.resp.keys # {} => s.resp.of # Root)
    BY <2>1, ReplyFacts
  <2> QED
    BY <1>1, <2>2 DEF NextZone, GoodLook, Waiting
<1>2. CASE s.todo # <<>>
  <2>1. s.todo \in Seq(Zones \ {Root})
    BY DEF GoodLook, LookType
  <2>2. Head(s.todo) \in Zones \ {Root}
    BY <1>2, <2>1
  <2> QED
    BY <1>2, <2>2 DEF NextZone
<1> QED
  BY <1>1, <1>2

\* Keys of the next zone serve the walk or the call for the child zone
\* (resolver.go:224-226, 358-367).
LEMMA ObtainGood ==
  ASSUME NEW s, GoodLook(s), s.pc \in {"servers", "walk", "dnskey"},
         NEW keys \in SUBSET Keys, Published(keys, NextZone(s))
  PROVE  GoodLook(Obtain(s, keys))
<1>0. s \in LookType /\ s.out = "none" /\ s.status = "none"
      /\ (Premises => s.keys \subseteq Own[s.zone] /\ s.sound)
  BY DEF GoodLook, Trusted, Waiting
<1>1. CASE s.todo = <<>>
  <2>1. s.resp \in DSReplies /\ NextZone(s) = s.resp.of
    BY <1>1 DEF GoodLook, Waiting, NextZone
  <2>2. Obtain(s, keys) = Descend(s, keys)
    BY <1>1 DEF Obtain
  <2> QED
    BY <1>0, <1>1, <2>1, <2>2, DescendGood
<1>2. CASE s.todo # <<>>
  <2> DEFINE v == [s EXCEPT !.walked = keys, !.todo = Tail(s.todo), !.ds = {}]
  <2>1. s.todo \in Seq(Zones \ {Root})
    BY <1>0 DEF LookType
  <2>2. Tail(s.todo) \in Seq(Zones \ {Root}) /\ {} \in SUBSET Keys
    BY <1>2, <2>1
  <2>3. v \in LookType
    BY <1>0, <2>2 DEF LookType
  <2>4. /\ v.resp = s.resp /\ v.walked = keys /\ v.keys = s.keys /\ v.zone = s.zone
        /\ v.sound = s.sound /\ v.out = "none" /\ v.status = "none"
    BY <1>0 DEF LookType
  <2>5. Obtain(s, keys) = Walk(v)
    BY <1>2 DEF Obtain
  <2>6. NextZone(s) \in Zones
    BY NextZoneType
  <2>7. s.resp \in Replies
    BY <1>2 DEF GoodLook, Waiting
  <2> HIDE DEF v
  <2>8. Verifiable(v)
    BY <1>0, <2>3, <2>4, <2>6, <2>7 DEF Verifiable
  <2> QED
    BY <2>5, <2>8, WalkGood
<1> QED
  BY <1>1, <1>2

\* Without keys in the cache the walk asks for DS records, a referral goes on
\* with those it brought, and an unsigned child has none (resolver.go:227-254).
LEMMA MissGood ==
  ASSUME NEW s, GoodLook(s), s.pc \in {"servers", "walk", "delete"}
  PROVE  GoodLook(Miss(s))
<1>0. s \in LookType /\ s.out = "none" /\ s.status = "none"
      /\ (Premises => s.keys \subseteq Own[s.zone] /\ s.sound)
  BY DEF GoodLook, Trusted, Waiting
<1>1. CASE s.todo # <<>>
  <2> DEFINE v == [s EXCEPT !.pc = "ds"]
  <2>1. Miss(s) = v
    BY <1>1 DEF Miss
  <2>2. v \in LookType
    BY <1>0 DEF LookType, PCs
  <2>3. /\ v.pc = "ds" /\ v.resp = s.resp /\ v.walked = s.walked /\ v.keys = s.keys
        /\ v.zone = s.zone /\ v.sound = s.sound /\ v.out = "none" /\ v.status = "none"
        /\ v.todo = s.todo
    BY <1>0 DEF LookType
  <2> HIDE DEF v
  <2> QED
    BY <1>1, <2>1, <2>2, <2>3 DEF GoodLook, Trusted, Waiting
<1>2. CASE s.todo = <<>> /\ s.resp.keys # {}
  <2> DEFINE v == [s EXCEPT !.pc = "dnskey", !.ds = s.resp.keys]
  <2>1. Miss(s) = v
    BY <1>2 DEF Miss
  <2>2. s.resp \in DSReplies /\ Published(s.resp.keys, s.resp.of)
        /\ s.resp.keys \in SUBSET Keys
    BY <1>2, ReplyFacts DEF GoodLook, Waiting, Replies
  <2>3. v \in LookType
    BY <1>0, <2>2 DEF LookType, PCs
  <2>4. /\ v.pc = "dnskey" /\ v.resp = s.resp /\ v.ds = s.resp.keys /\ v.keys = s.keys
        /\ v.zone = s.zone /\ v.sound = s.sound /\ v.out = "none" /\ v.status = "none"
        /\ v.todo = <<>>
    BY <1>0, <1>2 DEF LookType
  <2> HIDE DEF v
  <2> QED
    BY <1>2, <2>1, <2>2, <2>3, <2>4 DEF GoodLook, Trusted, Waiting, NextZone
<1>3. CASE s.todo = <<>> /\ s.resp.keys = {}
  <2>1. Miss(s) = Descend(s, {})
    BY <1>3 DEF Miss
  <2>2. s.resp \in DSReplies /\ {} \in SUBSET Keys /\ Published({}, s.resp.of)
    BY <1>3 DEF GoodLook, Waiting, Published
  <2> QED
    BY <1>0, <1>3, <2>1, <2>2, DescendGood
<1> QED
  BY <1>1, <1>2, <1>3

-----------------------------------------------------------------------------
(* The steps *)

\* Every lookup starts at the root and the key cache is empty.
LEMMA InitIInv == Init => IInv
<1> SUFFICES ASSUME Init PROVE IInv
  OBVIOUS
<1>1. \A l \in Lookups : GoodLook(look[l])
  BY FreshGood DEF Init
<1>2. look \in [Lookups -> LookType]
  BY <1>1 DEF Init, GoodLook
<1>3. keyCache = [z \in Zones |-> Absent] /\ Absent \in [keys : SUBSET Keys, expires : Nat]
  BY DEF Init, Absent
<1>4. TypeOK
  BY <1>2, <1>3 DEF Init, TypeOK
<1>5. \A z \in Zones : Published(keyCache[z].keys, z)
  BY <1>3 DEF Published, Absent
<1> QED
  BY <1>1, <1>3, <1>4, <1>5 DEF IInv, GoodLook

\* A step of one lookup that leaves the key cache alone.
LEMMA LookStep ==
  ASSUME IInv, NEW l \in Lookups, NEW s, GoodLook(s), look' = [look EXCEPT ![l] = s],
         UNCHANGED <<keyCache, now, truthful>>
  PROVE  IInv'
<1>1. look' \in [Lookups -> LookType]
  BY DEF IInv, TypeOK, GoodLook
<1>2. \A m \in Lookups : look'[m] = IF m = l THEN s ELSE look[m]
  BY DEF IInv, TypeOK
<1>3. \A m \in Lookups : Trusted(look'[m]) /\ Waiting(look'[m])
  BY <1>2 DEF IInv, GoodLook
<1> QED
  BY <1>1, <1>3 DEF IInv, TypeOK, Trusted, Waiting, Published, NextZone

\* What the invariant says of the lookup that takes the step.
LEMMA OneLook ==
  ASSUME IInv, NEW l \in Lookups
  PROVE  /\ GoodLook(look[l])
         /\ look[l] \in LookType
         /\ look[l].pc # "done" => look[l].out = "none" /\ look[l].status = "none"
         /\ Premises => look[l].keys \subseteq Own[look[l].zone] /\ look[l].sound
  BY DEF IInv, TypeOK, GoodLook, Trusted, Waiting

\* A server that fails is one less to ask (resolver.go:138-145).
LEMMA ServerFailsIInv ==
  ASSUME IInv, NEW l \in Lookups, ServerFails(l)
  PROVE  IInv'
<1>1. GoodLook(look[l]) /\ look[l] \in LookType
  BY OneLook
<1>2. PICK s : s = [look[l] EXCEPT !.left = @ - 1]
  OBVIOUS
<1>3. s \in LookType
  <2>1. PICK left \in Int : left = look[l].left - 1
    BY <1>1 DEF LookType
  <2>2. s = [look[l] EXCEPT !.left = left]
    BY <1>1, <1>2, <2>1 DEF LookType
  <2> QED
    BY <1>1, <2>2 DEF LookType
<1>4. GoodLook(s)
  BY <1>1, <1>2, <1>3 DEF GoodLook, Trusted, Waiting, NextZone, LookType, ServerFails
<1>5. look' = [look EXCEPT ![l] = s]
  BY <1>2 DEF ServerFails
<1> QED
  BY <1>4, <1>5, LookStep DEF ServerFails

\* A lookup that gives up returns an error (resolver.go:129-131, 257).
LEMMA GivesUpIInv ==
  ASSUME IInv, NEW l \in Lookups, GivesUp(l)
  PROVE  IInv'
<1>1. PICK e \in {"depth", "servers"} : look' = [look EXCEPT ![l] = Fail(look[l], e, "bogus")]
  BY DEF GivesUp
<1>2. e \in Outs \ {"none", "answer"}
  BY DEF Outs
<1>3. GoodLook(Fail(look[l], e, "bogus"))
  BY <1>2, FailGood, OneLook
<1>4. PICK s : s = Fail(look[l], e, "bogus")
  OBVIOUS
<1> QED
  BY <1>1, <1>3, <1>4, LookStep DEF GivesUp

\* A reply without data claims nothing (resolver.go:196-199).
LEMMA NoDataIInv ==
  ASSUME IInv, NEW l \in Lookups, NoData(l)
  PROVE  IInv'
<1>1. PICK s : s = Return(look[l], "insecure")
  OBVIOUS
<1>2. GoodLook(s)
  BY <1>1, ReturnGood, OneLook
<1>3. look' = [look EXCEPT ![l] = s]
  BY <1>1 DEF NoData
<1> QED
  BY <1>2, <1>3, LookStep DEF NoData

\* A lookup that has just received a reply.
Heard(l, r) == [look[l] EXCEPT !.resp = r]

LEMMA Received ==
  ASSUME IInv, NEW l \in Lookups, look[l].pc = "ask", NEW r \in Replies
  PROVE  /\ Heard(l, r) \in LookType
         /\ Heard(l, r).resp = r
         /\ Heard(l, r).todo = <<>>
         /\ Heard(l, r).out = "none" /\ Heard(l, r).status = "none"
         /\ Heard(l, r).keys = look[l].keys
         /\ Premises => /\ Heard(l, r).keys \subseteq Own[Heard(l, r).zone]
                        /\ Heard(l, r).sound
<1>1. GoodLook(look[l]) /\ look[l] \in LookType
  BY OneLook
<1>2. Heard(l, r) \in LookType
  BY <1>1 DEF LookType, Heard
<1>3. /\ Heard(l, r).resp = r /\ Heard(l, r).todo = look[l].todo
      /\ Heard(l, r).out = look[l].out /\ Heard(l, r).status = look[l].status
      /\ Heard(l, r).keys = look[l].keys /\ Heard(l, r).zone = look[l].zone
      /\ Heard(l, r).sound = look[l].sound
  BY <1>1 DEF LookType, Heard
<1> QED
  BY <1>1, <1>2, <1>3, OneLook DEF GoodLook, Waiting

\* Records of the type asked for are verified if there are keys
\* (resolver.go:182-194).
LEMMA AnswerComesIInv ==
  ASSUME IInv, NEW l \in Lookups, AnswerComes(l)
  PROVE  IInv'
<1>0. look[l].pc = "ask"
  BY DEF AnswerComes, Hears
<1>1. PICK r \in AnswerReplies :
        look' = [look EXCEPT ![l] =
                    IF Heard(l, r).keys # {} /\ r.asked THEN StartVerify(Heard(l, r))
                    ELSE Return(Take(Heard(l, r), FALSE, r.genuine), "insecure")]
  BY DEF AnswerComes, Heard
<1>3. r \in Replies /\ r.genuine \in BOOLEAN
  BY DEF Replies, AnswerReplies
<1> DEFINE s == Heard(l, r)
<1>4. /\ s \in LookType /\ s.resp = r /\ s.out = "none" /\ s.status = "none"
      /\ Premises => s.keys \subseteq Own[s.zone] /\ s.sound
  BY <1>0, <1>3, Received
<1>5. CASE s.keys # {} /\ r.asked
  <2>1. PICK t : t = StartVerify(s)
    OBVIOUS
  <2>2. GoodLook(t)
    BY <1>3, <1>4, <2>1, StartVerifyGood
  <2>3. look' = [look EXCEPT ![l] = t]
    BY <1>1, <1>5, <2>1
  <2> QED
    BY <2>2, <2>3, LookStep DEF AnswerComes
<1>6. CASE ~(s.keys # {} /\ r.asked)
  <2>1. PICK u : u = Take(s, FALSE, r.genuine)
    OBVIOUS
  <2>2. u \in LookType /\ u.sound = (s.sound /\ (FALSE => r.genuine))
    BY <1>3, <1>4, <2>1, TakeType, TakeSound
  <2>3. Premises => u.sound
    BY <1>4, <2>2
  <2>4. PICK t : t = Return(u, "insecure")
    OBVIOUS
  <2>5. GoodLook(t)
    BY <2>2, <2>3, <2>4, ReturnGood
  <2>6. look' = [look EXCEPT ![l] = t]
    BY <1>1, <1>6, <2>1, <2>4
  <2> QED
    BY <2>5, <2>6, LookStep DEF AnswerComes
<1> QED
  BY <1>5, <1>6

\* A CNAME is verified if there are keys (resolver.go:147-162).
LEMMA AliasComesIInv ==
  ASSUME IInv, NEW l \in Lookups, AliasComes(l)
  PROVE  IInv'
<1>0. look[l].pc = "ask"
  BY DEF AliasComes, Hears
<1>1. PICK r \in AliasReplies :
        look' = [look EXCEPT ![l] =
                    IF Heard(l, r).keys # {} THEN StartVerify(Heard(l, r))
                    ELSE [Take(Heard(l, r), FALSE, r.genuine) EXCEPT !.pc = "target"]]
  BY DEF AliasComes, Heard
<1>2. r \in Replies /\ r.genuine \in BOOLEAN
  BY DEF Replies, AliasReplies
<1> DEFINE s == Heard(l, r)
<1>3. /\ s \in LookType /\ s.resp = r /\ s.out = "none" /\ s.status = "none"
      /\ Premises => s.keys \subseteq Own[s.zone] /\ s.sound
  BY <1>0, <1>2, Received
<1> HIDE DEF s
<1>4. CASE s.keys # {}
  <2>1. PICK t : t = StartVerify(s)
    OBVIOUS
  <2>2. GoodLook(t)
    BY <1>2, <1>3, <2>1, StartVerifyGood
  <2>3. look' = [look EXCEPT ![l] = t]
    BY <1>1, <1>4, <2>1 DEF s
  <2> QED
    BY <2>2, <2>3, LookStep DEF AliasComes
<1>5. CASE s.keys = {}
  <2> DEFINE u == Take(s, FALSE, r.genuine)
  <2>1. FALSE \in BOOLEAN /\ s.resp \in Replies
    BY <1>2, <1>3
  <2>2. /\ u \in LookType /\ u.resp = [s.resp EXCEPT !.sig = NoSig]
        /\ u.keys = s.keys /\ u.zone = s.zone
        /\ u.out = s.out /\ u.status = s.status
    <3>1. u \in LookType
      BY <1>2, <1>3, <2>1, TakeType
    <3>2. u.resp = [s.resp EXCEPT !.sig = NoSig]
      BY <1>2, <1>3, <2>1, TakeType
    <3>3. u.keys = s.keys /\ u.zone = s.zone
      BY <1>2, <1>3, <2>1, TakeType
    <3>4. u.out = s.out /\ u.status = s.status
      BY <1>2, <1>3, <2>1, TakeType, ZenonT(60)
    <3> QED
      BY <3>1, <3>2, <3>3, <3>4
  <2>3. Premises => u.sound
    <3>1. u.sound = (s.sound /\ (FALSE => r.genuine))
      BY <1>2, <1>3, TakeSound
    <3> QED
      BY <1>3, <3>1
  <2> HIDE DEF u
  <2>4. u.resp \in AliasReplies
    BY <1>2, <1>3, <2>2, UnsignedReply
  <2>5. PICK t : t = [u EXCEPT !.pc = "target"]
    OBVIOUS
  <2>6. /\ t \in LookType /\ t.pc = "target" /\ t.resp = u.resp /\ t.keys = u.keys
        /\ t.zone = u.zone /\ t.sound = u.sound /\ t.out = u.out /\ t.status = u.status
    BY <2>2, <2>5 DEF LookType, PCs
  <2>7. GoodLook(t)
    BY <1>3, <2>2, <2>3, <2>4, <2>6 DEF GoodLook, Trusted, Waiting
  <2>8. look' = [look EXCEPT ![l] = t]
    BY <1>1, <1>5, <2>5 DEF u, s
  <2> QED
    BY <2>7, <2>8, LookStep DEF AliasComes
<1> QED
  BY <1>4, <1>5

\* The DS records of a referral are verified if there are keys and DS records
\* (resolver.go:196-211).
LEMMA ReferralComesIInv ==
  ASSUME IInv, NEW l \in Lookups, ReferralComes(l)
  PROVE  IInv'
<1>0. look[l].pc = "ask"
  BY DEF ReferralComes, Hears
<1>1. PICK r \in DSReplies :
        /\ TrueStarts /\ Heard(l, r).keys = {} => r.keys \subseteq Own[r.of]
        /\ look' = [look EXCEPT ![l] =
                       IF Heard(l, r).keys # {} /\ r.keys # {} THEN StartVerify(Heard(l, r))
                       ELSE [Heard(l, r) EXCEPT !.pc = "servers", !.resp.sig = NoSig]]
  BY DEF ReferralComes, Heard
<1>2. r \in Replies
  BY DEF Replies
<1> DEFINE s == Heard(l, r)
<1>3. /\ s \in LookType /\ s.resp = r /\ s.out = "none" /\ s.status = "none"
      /\ Premises => s.keys \subseteq Own[s.zone] /\ s.sound
  BY <1>0, <1>2, Received
<1>4. s.todo = <<>>
  BY <1>0, <1>2, Received
<1>5. CASE s.keys # {} /\ r.keys # {}
  <2>1. PICK t : t = StartVerify(s)
    OBVIOUS
  <2>2. GoodLook(t)
    BY <1>2, <1>3, <2>1, StartVerifyGood
  <2>3. look' = [look EXCEPT ![l] = t]
    BY <1>1, <1>5, <2>1
  <2> QED
    BY <2>2, <2>3, LookStep DEF ReferralComes
<1>6. CASE ~(s.keys # {} /\ r.keys # {})
  <2>1. PICK q : q = [r EXCEPT !.sig = NoSig]
    OBVIOUS
  <2>2. q \in DSReplies /\ q \in Replies
    BY <1>2, <2>1, UnsignedReply DEF Replies
  <2>3. q.keys = r.keys /\ q.of = r.of
    BY <2>1 DEF DSReplies
  <2>4. PICK t : t = [s EXCEPT !.pc = "servers", !.resp = q]
    OBVIOUS
  <2> HIDE DEF s
  <2>5. /\ t \in LookType /\ t.pc = "servers" /\ t.resp = q /\ t.keys = s.keys
        /\ t.zone = s.zone /\ t.sound = s.sound /\ t.out = s.out /\ t.status = s.status
        /\ t.todo = s.todo
    BY <1>3, <2>2, <2>4 DEF LookType, PCs
  <2>6. Published(q.keys, q.of)
    BY <1>1, <1>6, <2>3 DEF Published, s, Premises
  <2>7. GoodLook(t)
    BY <1>3, <1>4, <2>2, <2>5, <2>6 DEF GoodLook, Trusted, Waiting
  <2>8. t = [s EXCEPT !.pc = "servers", !.resp.sig = NoSig]
    BY <1>3, <2>1, <2>4 DEF LookType
  <2>9. look' = [look EXCEPT ![l] = t]
    BY <1>1, <1>6, <2>8 DEF s
  <2> QED
    BY <2>7, <2>9, LookStep DEF ReferralComes
<1> QED
  BY <1>5, <1>6

\* The target of a CNAME may be returned from the reply or the answer cache,
\* or be denied (resolver.go:163-171).
LEMMA TargetFoundIInv ==
  ASSUME IInv, NEW l \in Lookups,
         \/ TargetInReply(l)
         \/ TargetNegative(l)
         \/ \E genuine \in BOOLEAN : TargetCached(l, genuine)
  PROVE  IInv'
<1>0. /\ look[l] \in LookType /\ (Premises => look[l].sound) /\ GoodLook(look[l])
      /\ look[l].pc = "target"
  BY OneLook DEF TargetInReply, TargetNegative, TargetCached
<1>1. look[l].resp \in AliasReplies /\ look[l].resp.kind = "alias"
  BY <1>0 DEF GoodLook, Waiting, AliasReplies
<1>2. CASE TargetInReply(l)
  <2>1. PICK s : s = Return(look[l], "insecure")
    OBVIOUS
  <2>2. GoodLook(s)
    BY <1>0, <2>1, ReturnGood
  <2>3. look' = [look EXCEPT ![l] = s]
    BY <1>2, <2>1 DEF TargetInReply
  <2> QED
    BY <1>2, <2>2, <2>3, LookStep DEF TargetInReply
<1>3. CASE TargetNegative(l)
  <2>1. PICK s : s = Fail(look[l], "denied", "insecure")
    OBVIOUS
  <2>2. "denied" \in Outs \ {"none", "answer"}
    BY DEF Outs
  <2>3. GoodLook(s)
    BY <1>0, <2>1, <2>2, FailGood
  <2>4. look' = [look EXCEPT ![l] = s]
    BY <1>3, <2>1 DEF TargetNegative
  <2> QED
    BY <1>3, <2>3, <2>4, LookStep DEF TargetNegative
<1>4. ASSUME NEW genuine \in BOOLEAN, TargetCached(l, genuine) PROVE IInv'
  <2>1. PICK whole \in BOOLEAN : whole = (look[l].whole /\ genuine)
    OBVIOUS
  <2>2. PICK u : u = [look[l] EXCEPT !.whole = whole]
    OBVIOUS
  <2>3. u \in LookType /\ u.sound = look[l].sound /\ u.resp = look[l].resp
    BY <1>0, <2>2 DEF LookType
  <2>4. PICK s : s = Return(u, "secure")
    OBVIOUS
  <2>5. GoodLook(s)
    BY <1>0, <1>1, <2>3, <2>4, ReturnGood
  <2>6. u = [look[l] EXCEPT !.whole = @ /\ genuine]
    BY <1>0, <2>1, <2>2 DEF LookType
  <2>7. look' = [look EXCEPT ![l] = Return([look[l] EXCEPT !.whole = @ /\ genuine], "secure")]
    BY <1>4 DEF TargetCached
  <2>8. look' = [look EXCEPT ![l] = s]
    BY <2>4, <2>6, <2>7
  <2> QED
    BY <1>4, <2>5, <2>8, LookStep DEF TargetCached
<1> QED
  BY <1>2, <1>3, <1>4

\* The lookup of the target starts without keys (resolver.go:172-180).
LEMMA TargetMissedIInv ==
  ASSUME IInv, NEW l \in Lookups, TargetMissed(l)
  PROVE  IInv'
<1>0. /\ look[l] \in LookType /\ (Premises => look[l].sound) /\ GoodLook(look[l])
      /\ look[l].pc = "target"
  BY OneLook DEF TargetMissed
<1>1. look[l].resp \in AliasReplies
  BY <1>0 DEF GoodLook, Waiting
<1>2. look[l].resp.target \in Names
  BY <1>1, ReplyFacts DEF Replies
<1>3. PICK f : f = Fresh(look[l].resp.target)
  OBVIOUS
<1>4. f \in LookType /\ GoodLook(f) /\ f.pc = "ask" /\ f.keys = {} /\ f.todo = <<>>
      /\ f.out = "none" /\ f.status = "none"
  BY <1>2, <1>3, FreshGood DEF GoodLook, Fresh
<1>5. PICK s : s = Follow(look[l])
  OBVIOUS
<1>6. s = [f EXCEPT !.depth = look[l].depth + 1, !.sound = look[l].sound,
                    !.whole = look[l].whole]
  BY <1>3, <1>5 DEF Follow
<1>7. /\ look[l].depth + 1 \in Nat /\ look[l].sound \in BOOLEAN
      /\ look[l].whole \in BOOLEAN
  BY <1>0 DEF LookType
<1>8. s \in LookType
  BY <1>4, <1>6, <1>7 DEF LookType
<1>9. /\ s.pc = "ask" /\ s.keys = {} /\ s.todo = <<>> /\ s.out = "none"
      /\ s.status = "none" /\ s.sound = look[l].sound
  BY <1>4, <1>6 DEF LookType
<1>10. GoodLook(s)
  BY <1>0, <1>8, <1>9 DEF GoodLook, Trusted, Waiting
<1>11. look' = [look EXCEPT ![l] = s]
  BY <1>5 DEF TargetMissed
<1> QED
  BY <1>10, <1>11, LookStep DEF TargetMissed

\* Name servers without addresses are one server less (resolver.go:212-222).
LEMMA NoAddressesIInv ==
  ASSUME IInv, NEW l \in Lookups, NoAddresses(l)
  PROVE  IInv'
<1>0. look[l] \in LookType /\ GoodLook(look[l]) /\ look[l].pc = "servers"
  BY OneLook DEF NoAddresses
<1>1. PICK left \in Int : left = look[l].left - 1
  BY <1>0 DEF LookType
<1>2. PICK s : s = [look[l] EXCEPT !.pc = "ask", !.left = left, !.resp = NoReply]
  OBVIOUS
<1>3. /\ s \in LookType /\ s.pc = "ask" /\ s.todo = look[l].todo /\ s.resp = NoReply
      /\ s.keys = look[l].keys /\ s.zone = look[l].zone /\ s.sound = look[l].sound
      /\ s.out = look[l].out /\ s.status = look[l].status
  BY <1>0, <1>2 DEF LookType, PCs
<1>4. GoodLook(s)
  BY <1>0, <1>3 DEF GoodLook, Trusted, Waiting
<1>5. look' = [look EXCEPT ![l] = s]
  BY <1>0, <1>1, <1>2 DEF NoAddresses, IInv, TypeOK, LookType
<1> QED
  BY <1>4, <1>5, LookStep DEF NoAddresses

\* Keys of the cache are keys of the zone they are stored for
\* (resolver.go:225, 359).
LEMMA KeysCachedIInv ==
  ASSUME IInv, NEW l \in Lookups, KeysCached(l)
  PROVE  IInv'
<1>0. GoodLook(look[l]) /\ look[l].pc \in {"servers", "walk"}
  BY OneLook DEF KeysCached, WantsKeys
<1>1. NextZone(look[l]) \in Zones
  BY <1>0, NextZoneType
<1>2. PICK keys : keys = keyCache[NextZone(look[l])].keys
  OBVIOUS
<1>3. keys \in SUBSET Keys /\ Published(keys, NextZone(look[l]))
  BY <1>1, <1>2 DEF IInv, TypeOK
<1>4. PICK s : s = Obtain(look[l], keys)
  OBVIOUS
<1>5. GoodLook(s)
  BY <1>0, <1>3, <1>4, ObtainGood
<1>6. look' = [look EXCEPT ![l] = s]
  BY <1>2, <1>4 DEF KeysCached
<1> QED
  BY <1>5, <1>6, LookStep DEF KeysCached

\* No keys in the cache (resolver.go:227, 363).
LEMMA KeysMissingIInv ==
  ASSUME IInv, NEW l \in Lookups, KeysMissing(l)
  PROVE  IInv'
<1>0. GoodLook(look[l]) /\ look[l].pc \in {"servers", "walk"}
  BY OneLook DEF KeysMissing, WantsKeys
<1>1. PICK s : s = Miss(look[l])
  OBVIOUS
<1>2. GoodLook(s)
  BY <1>0, <1>1, MissGood
<1>3. look' = [look EXCEPT ![l] = s]
  BY <1>1 DEF KeysMissing
<1> QED
  BY <1>2, <1>3, LookStep DEF KeysMissing

\* Expired keys are not used (dnssec.go:328).
LEMMA KeysExpiredIInv ==
  ASSUME IInv, NEW l \in Lookups, KeysExpired(l)
  PROVE  IInv'
<1>0. /\ GoodLook(look[l]) /\ look[l] \in LookType
      /\ look[l].pc \in {"servers", "walk"}
  BY OneLook DEF KeysExpired, WantsKeys
<1>1. PICK s : s = [look[l] EXCEPT !.pc = "delete"]
  OBVIOUS
<1>2. /\ s \in LookType /\ s.pc = "delete" /\ s.todo = look[l].todo
      /\ s.resp = look[l].resp /\ s.walked = look[l].walked /\ s.keys = look[l].keys
      /\ s.zone = look[l].zone /\ s.sound = look[l].sound /\ s.out = look[l].out
      /\ s.status = look[l].status
  BY <1>0, <1>1 DEF LookType, PCs
<1>3. GoodLook(s)
  BY <1>0, <1>2 DEF GoodLook, Trusted, Waiting
<1>4. look' = [look EXCEPT ![l] = s]
  BY <1>1 DEF KeysExpired, IInv, TypeOK
<1> QED
  BY <1>3, <1>4, LookStep DEF KeysExpired

\* A step that replaces what the key cache holds of one zone.
LEMMA StoreStep ==
  ASSUME IInv, NEW l \in Lookups, NEW s, GoodLook(s), look' = [look EXCEPT ![l] = s],
         NEW z \in Zones, NEW entry \in [keys : SUBSET Keys, expires : Nat],
         Published(entry.keys, z), z = Root => entry = Absent,
         keyCache' = [keyCache EXCEPT ![z] = entry], UNCHANGED <<now, truthful>>
  PROVE  IInv'
<1>1. look' \in [Lookups -> LookType]
  BY DEF IInv, TypeOK, GoodLook
<1>2. \A m \in Lookups : look'[m] = IF m = l THEN s ELSE look[m]
  BY DEF IInv, TypeOK
<1>3. \A m \in Lookups : Trusted(look'[m]) /\ Waiting(look'[m])
  BY <1>2 DEF IInv, GoodLook
<1>4. \A y \in Zones : keyCache'[y] = IF y = z THEN entry ELSE keyCache[y]
  BY DEF IInv, TypeOK
<1>5. keyCache' \in [Zones -> [keys : SUBSET Keys, expires : Nat]]
  BY DEF IInv, TypeOK
<1>6. keyCache'[Root] = Absent
  BY <1>4 DEF IInv
<1>7. \A y \in Zones : Published(keyCache'[y].keys, y)
  BY <1>4 DEF IInv
<1>8. TypeOK'
  BY <1>1, <1>5 DEF IInv, TypeOK
<1> QED
  BY <1>3, <1>6, <1>7, <1>8 DEF IInv, Trusted, Waiting, Published, NextZone

\* The deletion of whatever is stored by now does no harm
\* (dnssec.go:329-330).
LEMMA DeleteKeysIInv ==
  ASSUME IInv, NEW l \in Lookups, DeleteKeys(l)
  PROVE  IInv'
<1>0. GoodLook(look[l]) /\ look[l].pc = "delete"
  BY OneLook DEF DeleteKeys
<1>1. PICK s : s = Miss(look[l])
  OBVIOUS
<1>2. GoodLook(s)
  BY <1>0, <1>1, MissGood
<1>3. look' = [look EXCEPT ![l] = s]
  BY <1>1 DEF DeleteKeys
<1>4. PICK z \in Zones : z = NextZone(look[l])
  BY <1>0, NextZoneType
<1>5. Absent \in [keys : SUBSET Keys, expires : Nat] /\ Published(Absent.keys, z)
  BY DEF Absent, Published
<1>6. keyCache' = [keyCache EXCEPT ![z] = Absent] /\ UNCHANGED <<now, truthful>>
  BY <1>4 DEF DeleteKeys
<1> QED
  BY <1>2, <1>3, <1>5, <1>6, StoreStep

\* A verified DS set designates keys of the next zone (resolver.go:372-406).
LEMMA DSComesIInv ==
  ASSUME IInv, NEW l \in Lookups, DSComes(l)
  PROVE  IInv'
<1>0. GoodLook(look[l]) /\ look[l] \in LookType /\ look[l].pc = "ds"
  BY OneLook DEF DSComes
<1>1. PICK r \in DSReplies :
        look' = [look EXCEPT ![l] =
            IF /\ r.of = NextZone(look[l]) /\ r.keys # {}
               /\ Verifies(look[l].walked, r.sig)
            THEN [look[l] EXCEPT !.pc = "dnskey", !.ds = r.keys]
            ELSE Invalid(look[l])]
  BY DEF DSComes
<1>2. CASE /\ r.of = NextZone(look[l]) /\ r.keys # {}
           /\ Verifies(look[l].walked, r.sig)
  <2>1. /\ look[l].todo # <<>>
        /\ look[l].resp \in Replies
        /\ \E z \in Zones : Published(look[l].walked, z)
    BY <1>0 DEF GoodLook, Waiting
  <2>2. r \in Replies /\ r.sig \in Sigs /\ r.keys \in SUBSET Keys
    BY ReplyFacts DEF Replies
  <2>3. Premises => OwnerSigned(r.sig)
    <3>1. look[l].walked \in SUBSET Keys
      BY <1>0 DEF LookType
    <3> QED
      BY <1>2, <2>1, <2>2, <3>1, VerifiesOwner DEF Published, Premises
  <2>4. Published(r.keys, NextZone(look[l]))
    BY <1>2, <2>2, <2>3, ReplyFacts DEF Published
  <2>5. PICK s : s = [look[l] EXCEPT !.pc = "dnskey", !.ds = r.keys]
    OBVIOUS
  <2>6. /\ s \in LookType /\ s.pc = "dnskey" /\ s.todo = look[l].todo /\ s.ds = r.keys
        /\ s.resp = look[l].resp /\ s.walked = look[l].walked /\ s.keys = look[l].keys
        /\ s.zone = look[l].zone /\ s.sound = look[l].sound /\ s.out = look[l].out
        /\ s.status = look[l].status
    BY <1>0, <2>2, <2>5 DEF LookType, PCs
  <2>7. NextZone(s) = NextZone(look[l])
    BY <2>6 DEF NextZone
  <2>8. GoodLook(s)
    BY <1>0, <2>1, <2>4, <2>6, <2>7 DEF GoodLook, Trusted, Waiting
  <2>9. look' = [look EXCEPT ![l] = s]
    BY <1>1, <1>2, <2>5
  <2> QED
    BY <2>8, <2>9, LookStep DEF DSComes
<1>3. CASE ~(/\ r.of = NextZone(look[l]) /\ r.keys # {}
             /\ Verifies(look[l].walked, r.sig))
  <2>1. PICK s : s = Fail(look[l], "invalid", "bogus")
    OBVIOUS
  <2>2. "invalid" \in Outs \ {"none", "answer"}
    BY DEF Outs
  <2>3. GoodLook(s)
    BY <1>0, <2>1, <2>2, FailGood
  <2>4. look' = [look EXCEPT ![l] = s]
    BY <1>1, <1>3, <2>1 DEF Invalid
  <2> QED
    BY <2>3, <2>4, LookStep DEF DSComes
<1> QED
  BY <1>2, <1>3

\* A set of keys is stored and used after a designated key has signed it
\* (resolver.go:227-252, 408-424).
LEMMA KeysComeIInv ==
  ASSUME IInv, NEW l \in Lookups, KeysCome(l)
  PROVE  IInv'
<1>0. GoodLook(look[l]) /\ look[l] \in LookType /\ look[l].pc = "dnskey"
  BY OneLook DEF KeysCome
<1>1. PICK r \in KeyReplies, ttl \in TTLs :
        /\ r.of = NextZone(look[l])
        /\ IF ValidKeys(look[l].ds, r)
           THEN /\ look' = [look EXCEPT ![l] = Obtain(look[l], r.keys)]
                /\ CacheZoneKeys(r.of, r.keys, ttl)
           ELSE /\ look' = [look EXCEPT ![l] = Invalid(look[l])]
                /\ UNCHANGED keyCache
  BY DEF KeysCome
<1>2. NextZone(look[l]) \in Zones /\ NextZone(look[l]) # Root
  BY <1>0, NextZoneType
<1>3. /\ r.keys \in SUBSET Keys /\ r.sig \in Sigs
      /\ OwnerSigned(r.sig) => r.keys \subseteq Own[r.of]
  BY DEF KeyReplies
<1>4. CASE ValidKeys(look[l].ds, r)
  <2>1. Published(look[l].ds, NextZone(look[l])) /\ look[l].ds \in SUBSET Keys
    BY <1>0 DEF GoodLook, Waiting, LookType
  <2>2. Premises => OwnerSigned(r.sig)
    <3>1. SUFFICES ASSUME Premises PROVE OwnerSigned(r.sig)
      OBVIOUS
    <3>2. Designated(look[l].ds, r.keys) \in SUBSET Keys
          /\ Designated(look[l].ds, r.keys) \subseteq Own[NextZone(look[l])]
      BY <2>1, <3>1 DEF Designated, Published
    <3> QED
      BY <1>2, <1>3, <1>4, <3>1, <3>2, VerifiesOwner DEF ValidKeys, Premises
  <2>3. Published(r.keys, NextZone(look[l]))
    BY <1>1, <1>3, <2>2 DEF Published
  <2>4. PICK s : s = Obtain(look[l], r.keys)
    OBVIOUS
  <2>5. GoodLook(s)
    BY <1>0, <1>3, <2>3, <2>4, ObtainGood
  <2>6. look' = [look EXCEPT ![l] = s]
    BY <1>1, <1>4, <2>4
  <2>7. PICK entry : entry = [keys |-> r.keys,
                              expires |-> now + (IF ttl = 0 THEN DefaultTTL ELSE ttl)]
    OBVIOUS
  <2>8. entry \in [keys : SUBSET Keys, expires : Nat] /\ entry.keys = r.keys
    <3>1. now + (IF ttl = 0 THEN DefaultTTL ELSE ttl) \in Nat
      BY DEF IInv, TypeOK
    <3> QED
      BY <1>3, <2>7, <3>1
  <2>9. keyCache' = [keyCache EXCEPT ![NextZone(look[l])] = entry]
    BY <1>1, <1>4, <2>7 DEF CacheZoneKeys
  <2>10. UNCHANGED <<now, truthful>>
    BY DEF KeysCome
  <2>11. Published(entry.keys, NextZone(look[l]))
    BY <2>3, <2>8
  <2> QED
    BY <1>2, <2>5, <2>6, <2>8, <2>9, <2>10, <2>11, StoreStep
<1>5. CASE ~ValidKeys(look[l].ds, r)
  <2>1. PICK s : s = Fail(look[l], "invalid", "bogus")
    OBVIOUS
  <2>2. "invalid" \in Outs \ {"none", "answer"}
    BY DEF Outs
  <2>3. GoodLook(s)
    BY <1>0, <2>1, <2>2, FailGood
  <2>4. look' = [look EXCEPT ![l] = s] /\ UNCHANGED keyCache
    BY <1>1, <1>5, <2>1 DEF Invalid
  <2> QED
    BY <2>3, <2>4, LookStep DEF KeysCome
<1> QED
  BY <1>4, <1>5

\* Keys that nobody sends end the lookup (resolver.go:229-231, 384-386).
LEMMA UnreachableIInv ==
  ASSUME IInv, NEW l \in Lookups, Unreachable(l)
  PROVE  IInv'
<1>1. PICK s : s = Fail(look[l], "unreachable", "bogus")
  OBVIOUS
<1>2. "unreachable" \in Outs \ {"none", "answer"}
  BY DEF Outs
<1>3. GoodLook(s)
  BY <1>1, <1>2, FailGood, OneLook
<1>4. look' = [look EXCEPT ![l] = s]
  BY <1>1 DEF Unreachable
<1> QED
  BY <1>3, <1>4, LookStep DEF Unreachable

\* The invariant is inductive.
LEMMA StepIInv == IInv /\ [Next]_vars => IInv'
<1> SUFFICES ASSUME IInv, [Next]_vars PROVE IInv'
  OBVIOUS
<1>1. CASE Tick
  <2>1. TypeOK' /\ keyCache'[Root] = Absent
    BY <1>1 DEF Tick, IInv, TypeOK
  <2>2. \A z \in Zones : Published(keyCache'[z].keys, z)
    BY <1>1 DEF Tick, IInv
  <2>3. \A l \in Lookups : Trusted(look'[l]) /\ Waiting(look'[l])
    BY <1>1 DEF Tick, IInv
  <2> QED
    BY <2>1, <2>2, <2>3 DEF IInv, Trusted, Waiting, Published, NextZone
<1>2. ASSUME NEW l \in Lookups, Asking(l) PROVE IInv'
  BY <1>2, ServerFailsIInv, GivesUpIInv, NoDataIInv, AnswerComesIInv, AliasComesIInv,
     ReferralComesIInv, TargetFoundIInv, TargetMissedIInv, NoAddressesIInv DEF Asking
<1>3. ASSUME NEW l \in Lookups, Establishing(l) PROVE IInv'
  BY <1>3, KeysCachedIInv, KeysMissingIInv, KeysExpiredIInv, DeleteKeysIInv, DSComesIInv,
     KeysComeIInv, UnreachableIInv DEF Establishing
<1>4. CASE UNCHANGED vars
  BY <1>4 DEF vars, IInv, TypeOK, Trusted, Waiting, Published, NextZone
<1> QED
  BY <1>1, <1>2, <1>3, <1>4 DEF Next

-----------------------------------------------------------------------------
(* Lookups of well-signed names at truthful servers: where they are on     *)
(* their way from the root to the zone of the name                         *)

\* The servers are truthful, and every name is well signed.
Honest ==
    /\ truthful
    /\ \A n \in Names : WellSigned(n)

\* The domain above z.
Parent(z) == Front(z)

\* The zone whose keys a reply needs.
SignerOf(s) == IF s.resp.kind = "referral" THEN Parent(s.resp.of) ELSE Home[s.name]

\* A referral as it is published: on the way to the name, with its DS records.
TrueReferral(s) ==
    /\ Descends(s.resp.of, s.zone)
    /\ IsPrefix(s.resp.of, Home[s.name])
    /\ s.resp.keys = Own[s.resp.of]

\* The zone of the n labels of z nearest to the root.
Upper(z, n) == SubSeq(z, 1, n)

\* A walk that has the keys of a zone above the signer, all of them, and the
\* zones from there to the signer before it.
OnTheWalk(s) ==
    LET signer == SignerOf(s)
        above == Len(signer) - Len(s.todo)
    IN  /\ s.resp.kind = "referral" => TrueReferral(s)
        /\ s.resp.sig = [signer |-> signer, by |-> Own[signer]]
        /\ IsPrefix(signer, Home[s.name])
        /\ above > 0
        /\ s.walked = Own[Upper(signer, above)]
        /\ \A i \in DOMAIN s.todo : s.todo[i] = Upper(signer, above + i)

\* Where an honest lookup is on its way to the answer.
OnTheWay(s) ==
    /\ s.pc # "done" =>
          /\ IsPrefix(s.zone, Home[s.name])
          /\ s.keys = IF s.zone = Root THEN {} ELSE Own[s.zone]
    /\ s.pc = "ask" => s.resp = NoReply
    /\ s.pc \in {"walk", "delete", "ds", "dnskey"} /\ s.todo # <<>> => s.zone # Root /\ OnTheWalk(s)
    /\ s.pc \in {"servers", "delete", "dnskey"} /\ s.todo = <<>> => TrueReferral(s)
    /\ s.pc = "dnskey" => s.ds = Own[NextZone(s)]
    /\ s.out # "invalid"
    /\ (/\ s.out = "answer" /\ s.zone # Root
        /\ s.resp.kind = "answer" /\ s.resp.asked) => s.status = "secure"

\* The inductive invariant behind TruthAccepted, beside IInv.
HonestInv ==
    Honest =>
        /\ \A z \in Zones : keyCache[z] = Absent \/ keyCache[z].keys = Own[z]
        /\ \A l \in Lookups : OnTheWay(look[l])

-----------------------------------------------------------------------------
(* Zones above and below each other *)

\* A zone and the zones above it.
LEMMA UpperZone ==
  ASSUME NEW z \in Zones, NEW n \in 1 .. Len(z)
  PROVE  /\ Upper(z, n) \in Zones
         /\ Upper(z, n) # Root
         /\ Len(Upper(z, n)) = n
         /\ IsPrefix(Upper(z, n), z)
<1>1. z \in Seq(STRING)
  OBVIOUS
<1>2. Upper(z, n) \in Zones
  BY DEF Upper
<1>3. Upper(z, n) \in Seq(STRING) /\ Len(Upper(z, n)) = n
  BY <1>1 DEF Upper
<1>4. SubSeq(Upper(z, n), 1, n) = Upper(z, n)
  BY <1>1, <1>3 DEF Upper
<1>5. n <= Len(z) /\ Len(Root) = 0 /\ n # 0
  BY <1>1 DEF Root
<1>6. IsPrefix(Upper(z, n), z)
  BY <1>3, <1>4, <1>5 DEF IsPrefix, Upper
<1> QED
  BY <1>2, <1>3, <1>5, <1>6

\* A zone above another one is an upper part of it.
LEMMA PrefixIsUpper ==
  ASSUME NEW y \in Zones, NEW z \in Zones, IsPrefix(y, z)
  PROVE  y = Upper(z, Len(y)) /\ Len(y) \in 0 .. Len(z)
<1>1. y \in Seq(STRING) /\ z \in Seq(STRING)
  OBVIOUS
<1>2. SubSeq(y, 1, Len(y)) = y
  BY <1>1
<1> QED
  BY <1>1, <1>2 DEF IsPrefix, Upper

\* The zones above a zone that is above another one are above that one.
LEMMA UpperOfUpper ==
  ASSUME NEW z \in Zones, NEW n \in 0 .. Len(z), NEW m \in 0 .. n
  PROVE  Upper(Upper(z, n), m) = Upper(z, m)
<1>1. z \in Seq(STRING)
  OBVIOUS
<1> QED
  BY <1>1 DEF Upper

\* A zone above one that is above a third is above that.
LEMMA PrefixTrans ==
  ASSUME NEW x \in Zones, NEW y \in Zones, NEW z \in Zones, IsPrefix(x, y), IsPrefix(y, z)
  PROVE  IsPrefix(x, z)
<1>1. x \in Seq(STRING) /\ y \in Seq(STRING) /\ z \in Seq(STRING)
  OBVIOUS
<1>2. /\ x = Upper(y, Len(x)) /\ Len(x) \in 0 .. Len(y)
      /\ y = Upper(z, Len(y)) /\ Len(y) \in 0 .. Len(z)
  BY PrefixIsUpper
<1>3. Upper(Upper(z, Len(y)), Len(x)) = Upper(z, Len(x))
  BY <1>1, <1>2, UpperOfUpper
<1>4. x = Upper(z, Len(x)) /\ Len(x) <= Len(z)
  BY <1>1, <1>2, <1>3
<1>5. SubSeq(x, 1, Len(x)) = x
  BY <1>1
<1> QED
  BY <1>4, <1>5 DEF IsPrefix, Upper

\* Of two zones above a third, the one with fewer labels is above the other.
LEMMA PrefixesNest ==
  ASSUME NEW x \in Zones, NEW y \in Zones, NEW z \in Zones, IsPrefix(x, z), IsPrefix(y, z),
         Len(x) <= Len(y)
  PROVE  x = Upper(y, Len(x)) /\ IsPrefix(x, y)
<1>1. x \in Seq(STRING) /\ y \in Seq(STRING) /\ z \in Seq(STRING)
  OBVIOUS
<1>2. /\ x = Upper(z, Len(x)) /\ Len(x) \in 0 .. Len(z)
      /\ y = Upper(z, Len(y)) /\ Len(y) \in 0 .. Len(z)
  BY PrefixIsUpper
<1>3. Len(x) \in 0 .. Len(y)
  BY <1>1
<1>4. Upper(y, Len(x)) = x
  BY <1>2, <1>3, UpperOfUpper
<1>5. SubSeq(x, 1, Len(x)) = x
  BY <1>1
<1> QED
  BY <1>4, <1>5 DEF IsPrefix, Upper

\* The parent of a zone below another one is that one or below it.
LEMMA ParentZone ==
  ASSUME NEW y \in Zones, NEW z \in Zones, Descends(z, y)
  PROVE  /\ Len(y) < Len(z)
         /\ Parent(z) \in Zones
         /\ IsPrefix(Parent(z), z)
         /\ IsPrefix(y, Parent(z))
         /\ Len(Parent(z)) = Len(z) - 1
<1>1. y \in Seq(STRING) /\ z \in Seq(STRING)
  OBVIOUS
<1>2. y = Upper(z, Len(y)) /\ Len(y) \in 0 .. Len(z) /\ y # z
  BY PrefixIsUpper DEF Descends, IsStrictPrefix
<1>3. Upper(z, Len(z)) = z
  BY <1>1 DEF Upper
<1>4. Len(y) # Len(z)
  BY <1>2, <1>3
<1>5. Parent(z) = Upper(z, Len(z) - 1)
  BY DEF Parent, Front, Upper
<1>6. Parent(z) \in Zones /\ IsPrefix(Parent(z), z) /\ Len(Parent(z)) = Len(z) - 1
  <2>1. CASE Len(z) = 1
    <3>1. Parent(z) = <<>>
      BY <1>1, <2>1 DEF Parent, Front
    <3> QED
      BY <1>1, <2>1, <3>1 DEF Root, IsPrefix
  <2>2. CASE Len(z) # 1
    <3>1. Len(z) \in Nat /\ Len(y) \in Nat
      BY <1>1
    <3>2. ASSUME NEW a \in Nat, NEW b \in Nat, a \in 0 .. b, a # b, b # 1
          PROVE  b - 1 \in 1 .. b
      BY <3>2
    <3>3. PICK m \in 1 .. Len(z) : m = Len(z) - 1
      BY <1>2, <1>4, <2>2, <3>1, <3>2
    <3>4. /\ Upper(z, m) \in Zones
          /\ Len(Upper(z, m)) = m
          /\ IsPrefix(Upper(z, m), z)
      BY UpperZone
    <3> QED
      BY <1>5, <3>3, <3>4
  <2> QED
    BY <2>1, <2>2
<1>7. IsPrefix(y, Parent(z))
  <2>1. IsPrefix(y, z) /\ Len(y) <= Len(z) - 1
    BY <1>1, <1>2, <1>4 DEF Descends, IsStrictPrefix
  <2> QED
    BY <1>6, <2>1, PrefixesNest
<1> QED
  BY <1>1, <1>2, <1>4, <1>6, <1>7

\* The zones on the way to a name are signed, and those below the root have keys.
LEMMA SignedOnTheWay ==
  ASSUME Honest, NEW n \in Names, NEW z \in Zones, IsPrefix(z, Home[n])
  PROVE  /\ z \in Signed
         /\ z # Root => Own[z] # {}
         /\ TrueSig(z) = [signer |-> z, by |-> Own[z]]
  BY SignersHaveKeys DEF Honest, WellSigned, TrueSig

\* On the way a zone begins at every label, so that the parent of a zone is the one
\* that publishes its DS records.
LEMMA AboveOnTheWay ==
  ASSUME Honest, NEW n \in Names, NEW z \in Zones, IsPrefix(z, Home[n]), z # Root,
         Parent(z) \in Zones, IsPrefix(Parent(z), z)
  PROVE  Above(z) = Parent(z)
<1>1. Home[n] \in Zones
  OBVIOUS
<1>2. IsPrefix(Parent(z), Home[n])
  BY <1>1, PrefixTrans
<1>3. Parent(z) \in Cuts
  BY <1>2, SignedOnTheWay, DnssecCuts
<1>4. z \in Seq(STRING) /\ Len(z) \in Nat /\ Len(z) # 0
  BY DEF Root
<1> DEFINE cuts == {i \in 0 .. (Len(z) - 1) : SubSeq(z, 1, i) \in Cuts}
<1>5. /\ Len(z) - 1 \in cuts
      /\ \A i \in cuts : i \in Int /\ i <= Len(z) - 1
  BY <1>3, <1>4 DEF Parent, Front
<1> HIDE DEF cuts
<1>6. Max(cuts) = Len(z) - 1
  BY <1>4, <1>5 DEF Max
<1> QED
  BY <1>6 DEF Above, Parent, Front, cuts

\* The parent of a zone on the way publishes DS records of all of its keys.
LEMMA TrueDSOnTheWay ==
  ASSUME Honest, NEW n \in Names, NEW z \in Zones, IsPrefix(z, Home[n]), z # Root,
         Parent(z) \in Zones, IsPrefix(Parent(z), z)
  PROVE  TrueDS(z) = Own[z] /\ Own[z] # {}
<1>1. Home[n] \in Zones
  OBVIOUS
<1>2. IsPrefix(Parent(z), Home[n])
  BY <1>1, PrefixTrans
<1> QED
  BY <1>2, SignedOnTheWay, AboveOnTheWay DEF TrueDS

-----------------------------------------------------------------------------
(* An honest lookup on its way *)

\* A lookup that ends for want of servers, depth or keys has met nothing invalid
\* (resolver.go:129-136).
LEMMA FailOnTheWay ==
  ASSUME NEW s \in LookType, NEW error \in Outs \ {"answer", "invalid"}, NEW status \in Statuses
  PROVE  OnTheWay(Fail(s, error, status))
<1>1. /\ Fail(s, error, status).pc = "done"
      /\ Fail(s, error, status).out = error
  BY DEF Fail, Fresh
<1> QED
  BY <1>1 DEF OnTheWay

\* A return is secure if it has to be.
LEMMA ReturnOnTheWay ==
  ASSUME NEW s \in LookType, NEW status \in Statuses,
         (s.zone # Root /\ s.resp.kind = "answer" /\ s.resp.asked) => status = "secure"
  PROVE  OnTheWay(Return(s, status))
<1>1. /\ Return(s, status).pc = "done"
      /\ Return(s, status).out = "answer"
      /\ Return(s, status).zone = s.zone
      /\ Return(s, status).resp = s.resp
      /\ Return(s, status).status = status
  BY DEF Return, LookType
<1> QED
  BY <1>1 DEF OnTheWay

\* A lookup that is to ask the servers of the zone it is at.
LEMMA AskOnTheWay ==
  ASSUME NEW s, s.pc = "ask", s.resp = NoReply, s.out = "none",
         IsPrefix(s.zone, Home[s.name]),
         s.keys = IF s.zone = Root THEN {} ELSE Own[s.zone]
  PROVE  OnTheWay(s)
  BY DEF OnTheWay

\* A lookup starts at the root, without keys (resolver.go:91-96).
LEMMA FreshOnTheWay ==
  ASSUME NEW n \in Names
  PROVE  OnTheWay(Fresh(n))
<1>1. IsPrefix(Root, Home[n])
  BY DEF IsPrefix, Root
<1>2. /\ Fresh(n).pc = "ask" /\ Fresh(n).resp = NoReply /\ Fresh(n).out = "none"
      /\ Fresh(n).zone = Root /\ Fresh(n).keys = {} /\ Fresh(n).name = n
  BY DEF Fresh
<1> QED
  BY <1>1, <1>2, AskOnTheWay

\* The call for the child zone has all of its keys.
LEMMA DescendOnTheWay ==
  ASSUME NEW s \in LookType, TrueReferral(s), s.resp.of \in Zones, s.out = "none"
  PROVE  OnTheWay(Descend(s, Own[s.resp.of]))
<1>1. s.resp.of # Root
  <2>1. s.zone \in Zones
    BY DEF LookType
  <2>2. Len(s.zone) < Len(s.resp.of)
    BY <2>1, ParentZone DEF TrueReferral
  <2>3. s.zone \in Seq(STRING) /\ s.resp.of \in Seq(STRING)
    BY <2>1
  <2> QED
    BY <2>2, <2>3 DEF Root
<1>2. PICK t : t = Descend(s, Own[s.resp.of])
  OBVIOUS
<1>3. /\ t.pc = "ask" /\ t.resp = NoReply /\ t.out = "none" /\ t.zone = s.resp.of
      /\ t.keys = Own[s.resp.of] /\ t.name = s.name
  BY <1>2 DEF Descend, LookType
<1>4. OnTheWay(t)
  BY <1>1, <1>3, AskOnTheWay DEF TrueReferral
<1> QED
  BY <1>2, <1>4

\* An honest lookup that is about to verify what it has received.
Walking(s) ==
    /\ s \in LookType
    /\ s.resp \in Replies
    /\ s.out = "none"
    /\ s.zone # Root
    /\ IsPrefix(s.zone, Home[s.name])
    /\ s.keys = Own[s.zone]
    /\ OnTheWalk(s)

\* The signer is a zone on the way, below the root.
LEMMA SignerZone ==
  ASSUME NEW s, Walking(s)
  PROVE  /\ SignerOf(s) \in Zones
         /\ SignerOf(s) # Root
         /\ IsPrefix(SignerOf(s), Home[s.name])
         /\ s.name \in Names
<1>1. s.name \in Names /\ s.zone \in Zones /\ s \in LookType /\ s.resp \in Replies
  BY DEF Walking, LookType
<1>2. SignerOf(s) \in Zones
  <2>1. CASE s.resp.kind = "referral"
    <3>1. s.resp.of \in Zones /\ Descends(s.resp.of, s.zone)
      BY <1>1, <2>1, ReplyFacts DEF Walking, OnTheWalk, TrueReferral
    <3> QED
      BY <1>1, <2>1, <3>1, ParentZone DEF SignerOf
  <2>2. CASE s.resp.kind # "referral"
    BY <1>1, <2>2 DEF SignerOf
  <2> QED
    BY <2>1, <2>2
<1>3. s.todo \in Seq(Zones \ {Root})
  BY <1>1 DEF LookType
<1>4. Len(s.todo) \in Nat /\ Len(SignerOf(s)) - Len(s.todo) > 0
  BY <1>3 DEF Walking, OnTheWalk
<1>5. SignerOf(s) \in Seq(STRING)
  BY <1>2
<1>6. SignerOf(s) # Root
  BY <1>4, <1>5 DEF Root
<1> QED
  BY <1>1, <1>2, <1>6 DEF Walking, OnTheWalk

\* Verification with the keys of the signer succeeds.
LEMMA VerifiedOnTheWay ==
  ASSUME Honest, NEW s, Walking(s), s.todo = <<>>
  PROVE  OnTheWay(Verified(s))
<1>1. /\ SignerOf(s) \in Zones /\ SignerOf(s) # Root
      /\ IsPrefix(SignerOf(s), Home[s.name]) /\ s.name \in Names
  BY SignerZone
<1>2. s.walked = Own[SignerOf(s)] /\ s.resp.sig.by = Own[SignerOf(s)]
  <2>1. SignerOf(s) \in Seq(STRING)
    BY <1>1
  <2>2. Upper(SignerOf(s), Len(SignerOf(s))) = SignerOf(s)
    BY <2>1 DEF Upper
  <2>3. Len(SignerOf(s)) - Len(s.todo) = Len(SignerOf(s))
    BY <2>1
  <2>4. s.walked = Own[Upper(SignerOf(s), Len(SignerOf(s)) - Len(s.todo))]
        /\ s.resp.sig = [signer |-> SignerOf(s), by |-> Own[SignerOf(s)]]
    BY DEF Walking, OnTheWalk
  <2> QED
    BY <2>2, <2>3, <2>4
<1>3. Own[SignerOf(s)] # {}
  BY <1>1, SignedOnTheWay
<1>4. Verifies(s.walked, s.resp.sig)
  BY <1>2, <1>3 DEF Verifies
<1>5. s \in LookType /\ s.resp \in Replies
  BY DEF Walking
<1>6. CASE s.resp.kind \in {"answer", "alias"}
  <2>1. s.resp.genuine \in BOOLEAN /\ s.resp \notin DSReplies
    BY <1>5, <1>6, ReplyFacts
  <2>2. PICK u : u = Take(s, TRUE, s.resp.genuine)
    OBVIOUS
  <2>3. u \in LookType
    BY <1>5, <2>1, <2>2, TakeType
  <2>4. /\ u.resp = [s.resp EXCEPT !.sig = NoSig] /\ u.zone = s.zone /\ u.keys = s.keys
        /\ u.out = s.out
    BY <1>5, <2>1, <2>2, TakeType
  <2>5. u.name = s.name
    BY <1>5, <2>2 DEF Take, LookType
  <2>6. PICK t : t = [u EXCEPT !.walked = {}]
    OBVIOUS
  <2>7. /\ t \in LookType /\ t.resp = u.resp /\ t.zone = s.zone /\ t.keys = s.keys
        /\ t.out = s.out /\ t.name = s.name
    BY <2>3, <2>4, <2>5, <2>6 DEF LookType
  <2>8. CASE s.resp.kind = "answer"
    <3>1. Verified(s) = Return(t, "secure")
      BY <1>4, <2>2, <2>6, <2>8 DEF Verified
    <3> QED
      BY <2>7, <3>1, ReturnOnTheWay DEF Statuses
  <2>9. CASE s.resp.kind = "alias"
    <3>1. PICK v : v = [t EXCEPT !.pc = "target"]
      OBVIOUS
    <3>2. Verified(s) = v
      BY <1>4, <2>2, <2>6, <2>9, <3>1 DEF Verified
    <3>3. /\ v.pc = "target" /\ v.zone = s.zone /\ v.keys = s.keys /\ v.out = s.out
          /\ v.name = s.name
      BY <2>7, <3>1 DEF LookType
    <3> QED
      BY <3>2, <3>3 DEF OnTheWay, Walking
  <2> QED
    BY <1>6, <2>8, <2>9
<1>7. CASE s.resp.kind \notin {"answer", "alias"}
  <2>1. s.resp \in DSReplies /\ s.resp.kind = "referral"
    BY <1>5, <1>7, ReplyFacts DEF Replies
  <2>2. PICK q : q = [s.resp EXCEPT !.sig = NoSig]
    OBVIOUS
  <2>3. q.of = s.resp.of /\ q.keys = s.resp.keys
    BY <2>1, <2>2 DEF DSReplies
  <2>4. PICK v : v = [s EXCEPT !.pc = "servers", !.walked = {}, !.resp = q]
    OBVIOUS
  <2>5. Verified(s) = v
    BY <1>4, <1>5, <1>7, <2>2, <2>4 DEF Verified, LookType
  <2>6. /\ v.pc = "servers" /\ v.zone = s.zone /\ v.keys = s.keys /\ v.out = s.out
        /\ v.name = s.name /\ v.resp = q /\ v.todo = s.todo
    BY <1>5, <2>4 DEF LookType
  <2>7. TrueReferral(s)
    BY <2>1 DEF Walking, OnTheWalk
  <2>8. TrueReferral(v)
    BY <2>3, <2>6, <2>7 DEF TrueReferral
  <2> QED
    BY <2>5, <2>6, <2>8 DEF OnTheWay, Walking
<1> QED
  BY <1>6, <1>7

\* So does the walk to the signer.
LEMMA WalkOnTheWay ==
  ASSUME Honest, NEW s, Walking(s)
  PROVE  OnTheWay(Walk(s))
<1>1. CASE s.todo = <<>>
  BY <1>1, VerifiedOnTheWay DEF Walk
<1>2. CASE s.todo # <<>>
  <2>1. PICK w : w = [s EXCEPT !.pc = "walk"]
    OBVIOUS
  <2>2. Walk(s) = w
    BY <1>2, <2>1 DEF Walk
  <2>3. /\ w.pc = "walk" /\ w.zone = s.zone /\ w.keys = s.keys /\ w.out = s.out
        /\ w.name = s.name /\ w.resp = s.resp /\ w.todo = s.todo /\ w.walked = s.walked
    BY <2>1 DEF LookType, Walking
  <2>4. OnTheWalk(w)
    BY <2>3 DEF Walking, OnTheWalk, SignerOf, TrueReferral
  <2> QED
    BY <1>2, <2>2, <2>3, <2>4 DEF OnTheWay, Walking
<1> QED
  BY <1>1, <1>2

\* The chain from the zone of a call down to the signer (zoneChain).
LEMMA StartVerifyOnTheWay ==
  ASSUME Honest, NEW s \in LookType, s.resp \in Replies, s.out = "none", s.zone # Root,
         s.name \in Names, SignerOf(s) \in Zones,
         IsPrefix(s.zone, SignerOf(s)), IsPrefix(SignerOf(s), Home[s.name]),
         s.keys = Own[s.zone],
         s.resp.sig = [signer |-> SignerOf(s), by |-> Own[SignerOf(s)]],
         s.resp.kind = "referral" => TrueReferral(s)
  PROVE  OnTheWay(StartVerify(s))
<1>1. PICK signer \in Zones : signer = SignerOf(s)
  OBVIOUS
<1>2. PICK zone \in Zones : zone = s.zone
  BY DEF LookType
<1>3. zone \in Seq(STRING) /\ signer \in Seq(STRING) /\ zone # <<>>
  BY <1>2 DEF Root
<1>4. zone = Upper(signer, Len(zone)) /\ Len(zone) \in 1 .. Len(signer)
  <2>1. zone = Upper(signer, Len(zone)) /\ Len(zone) \in 0 .. Len(signer)
    BY <1>1, <1>2, PrefixIsUpper
  <2>2. Len(zone) # 0
    BY <1>3
  <2> QED
    BY <2>1, <2>2
<1>5. PICK todo : todo = ZoneChain(zone, signer)
  OBVIOUS
<1>6. todo \in Seq(Zones \ {Root})
  BY <1>5, ChainOfZones
<1>7. /\ Len(signer) - Len(todo) = Len(zone)
      /\ \A i \in DOMAIN todo : todo[i] = Upper(signer, Len(zone) + i)
  <2>1. CASE Descends(signer, zone)
    <3>1. ASSUME NEW a \in Nat, NEW b \in Nat, a \in 1 .. b PROVE b - a \in Nat
      BY <3>1
    <3>2. Len(signer) \in Nat /\ Len(zone) \in Nat
      BY <1>3
    <3>3. Len(signer) - Len(zone) \in Nat
      BY <1>4, <3>1, <3>2
    <3>4. PICK n \in Nat : n = Len(signer) - Len(zone)
      BY <3>3
    <3>5. todo = [i \in 1 .. n |-> Upper(signer, Len(zone) + i)]
      BY <1>5, <2>1, <3>4 DEF ZoneChain, Upper
    <3>6. Len(todo) = n /\ DOMAIN todo = 1 .. n
      BY <3>4, <3>5
    <3>7. Len(signer) - Len(todo) = Len(zone)
      BY <3>4, <3>6, <3>2
    <3>8. \A i \in DOMAIN todo : todo[i] = Upper(signer, Len(zone) + i)
      BY <3>5, <3>6
    <3> QED
      BY <3>7, <3>8
  <2>2. CASE ~Descends(signer, zone)
    <3>1. todo = <<>> /\ signer = zone
      BY <1>1, <1>2, <1>5, <2>2 DEF ZoneChain, Descends, IsStrictPrefix
    <3> QED
      BY <1>3, <3>1
  <2> QED
    BY <2>1, <2>2
<1>8. PICK v : v = [s EXCEPT !.walked = s.keys, !.todo = todo]
  OBVIOUS
<1>9. /\ v.zone = s.zone /\ v.keys = s.keys /\ v.out = s.out /\ v.name = s.name
      /\ v.resp = s.resp /\ v.todo = todo /\ v.walked = s.keys
  BY <1>8 DEF LookType
<1>10. v \in LookType
  <2>1. s.keys \in SUBSET Keys
    BY DEF LookType
  <2> QED
    BY <1>6, <1>8, <2>1 DEF LookType
<1>11. StartVerify(s) = Walk(v)
  <2>1. s.resp.sig.signer = signer /\ signer # NoZone
    BY <1>1
  <2> QED
    BY <1>1, <1>2, <1>5, <1>8, <2>1 DEF StartVerify
<1>12. SignerOf(v) = signer /\ (s.resp.kind = "referral" => TrueReferral(v))
  BY <1>1, <1>9 DEF SignerOf, TrueReferral
<1>13. OnTheWalk(v)
  <2>1. Len(zone) > 0
    BY <1>3
  <2>2. v.walked = Own[Upper(signer, Len(zone))]
    BY <1>2, <1>4, <1>9
  <2> QED
    BY <1>1, <1>7, <1>9, <1>12, <2>1, <2>2 DEF OnTheWalk
<1>14. IsPrefix(s.zone, Home[s.name])
  BY <1>2, PrefixTrans
<1>15. Walking(v)
  BY <1>9, <1>10, <1>13, <1>14 DEF Walking
<1> QED
  BY <1>11, <1>15, WalkOnTheWay

\* The next zone is on the way, below the root, and so is the one that vouches for it.
LEMMA NextOnTheWay ==
  ASSUME NEW s, GoodLook(s), OnTheWay(s),
         s.pc \in {"servers", "walk", "delete", "ds", "dnskey"}
  PROVE  /\ NextZone(s) \in Zones
         /\ NextZone(s) # Root
         /\ IsPrefix(NextZone(s), Home[s.name])
         /\ Parent(NextZone(s)) \in Zones
         /\ IsPrefix(Parent(NextZone(s)), NextZone(s))
         /\ s.name \in Names
         /\ s.todo = <<>> => TrueReferral(s) /\ s.resp.of \in Zones
         /\ s.todo # <<>> =>
               /\ Walking(s)
               /\ s.walked = Own[Parent(NextZone(s))]
               /\ Parent(NextZone(s)) # Root
<1>1. s \in LookType /\ s.name \in Names /\ s.zone \in Zones /\ s.out = "none"
      /\ s.todo \in Seq(Zones \ {Root})
  BY DEF GoodLook, LookType, Waiting
<1>2. CASE s.todo = <<>>
  <2>1. s.pc \in {"servers", "delete", "dnskey"}
    BY <1>2 DEF GoodLook, Waiting
  <2>2. TrueReferral(s)
    BY <1>2, <2>1 DEF OnTheWay
  <2>3. NextZone(s) = s.resp.of /\ s.resp.of \in Zones
    BY <1>2, NextZoneType DEF NextZone
  <2>4. Descends(s.resp.of, s.zone) /\ IsPrefix(s.resp.of, Home[s.name])
    BY <2>2 DEF TrueReferral
  <2>5. Len(s.zone) < Len(s.resp.of) /\ s.resp.of \in Seq(STRING) /\ s.zone \in Seq(STRING)
    BY <1>1, <2>3, <2>4, ParentZone
  <2>6. s.resp.of # Root
    BY <2>5 DEF Root
  <2>7. Parent(s.resp.of) \in Zones /\ IsPrefix(Parent(s.resp.of), s.resp.of)
    BY <1>1, <2>3, <2>4, ParentZone
  <2> QED
    BY <1>1, <1>2, <2>2, <2>3, <2>4, <2>6, <2>7
<1>3. CASE s.todo # <<>>
  <2>1. s.pc \in {"walk", "delete", "ds", "dnskey"} /\ s.resp \in Replies
    BY <1>3 DEF GoodLook, Waiting
  <2>2. Walking(s)
    BY <1>1, <1>3, <2>1 DEF OnTheWay, Walking
  <2>3. PICK signer \in Zones : signer = SignerOf(s)
    BY <2>2, SignerZone
  <2>4. PICK m \in Nat : m = Len(s.todo)
    <3>1. s.todo \in Seq(Zones \ {Root})
      BY <1>1
    <3> QED
      BY ONLY <3>1
  <2>5. PICK k \in Nat : k = Len(signer)
    OBVIOUS
  <2>6. m > 0 /\ DOMAIN s.todo = 1 .. m /\ Head(s.todo) = s.todo[1]
    BY <1>1, <1>3, <2>4
  <2>7. /\ k - m > 0
        /\ s.walked = Own[Upper(signer, k - m)]
        /\ \A i \in DOMAIN s.todo : s.todo[i] = Upper(signer, (k - m) + i)
        /\ IsPrefix(signer, Home[s.name])
    BY <2>2, <2>3, <2>4, <2>5 DEF Walking, OnTheWalk
  <2>8. PICK a \in Nat : a = k - m
    BY <2>7
  <2>9. /\ a \in 1 .. k /\ a + 1 \in 1 .. k
        /\ NextZone(s) = Upper(signer, a + 1)
        /\ s.walked = Own[Upper(signer, a)]
    <3>1. a > 0 /\ a + m = k
      BY <2>7, <2>8
    <3>2. a \in 1 .. k /\ a + 1 \in 1 .. k
      BY <2>6, <3>1
    <3>3. NextZone(s) = s.todo[1] /\ 1 \in DOMAIN s.todo
      BY <1>3, <2>6 DEF NextZone
    <3> QED
      BY <2>7, <2>8, <3>2, <3>3
  <2>10. PICK next : next = Upper(signer, a + 1)
    OBVIOUS
  <2>11. next \in Zones /\ next # Root /\ Len(next) = a + 1 /\ IsPrefix(next, signer)
    BY <2>5, <2>9, <2>10, UpperZone
  <2>12. Upper(signer, a) \in Zones /\ Upper(signer, a) # Root
    BY <2>5, <2>9, UpperZone
  <2>13. Parent(next) = Upper(signer, a)
    <3>1. Parent(next) = Upper(next, a)
      BY <2>11 DEF Parent, Front, Upper
    <3>2. a + 1 \in 0 .. Len(signer) /\ a \in 0 .. (a + 1)
      BY <2>5, <2>9
    <3> QED
      BY <2>10, <3>1, <3>2, UpperOfUpper
  <2>14. Descends(next, Parent(next))
    <3>1. IsPrefix(Parent(next), next)
      <4>1. IsPrefix(Upper(signer, a), signer)
        BY <2>5, <2>9, UpperZone
      <4>2. Len(Upper(signer, a)) = a
        BY <2>5, <2>9, UpperZone
      <4> QED
        BY <2>11, <2>12, <2>13, <4>1, <4>2, PrefixesNest
    <3>2. Parent(next) # next
      <4>1. Len(Upper(signer, a)) = a
        BY <2>5, <2>9, UpperZone
      <4> QED
        BY <2>11, <2>13, <4>1
    <3> QED
      BY <3>1, <3>2 DEF Descends, IsStrictPrefix
  <2>15. IsPrefix(next, Home[s.name])
    BY <1>1, <2>7, <2>11, PrefixTrans
  <2>16. NextZone(s) = next /\ s.walked = Own[Parent(next)] /\ Parent(next) \in Zones
         /\ Parent(next) # Root /\ IsPrefix(Parent(next), next)
    BY <2>9, <2>10, <2>12, <2>13, <2>14 DEF Descends, IsStrictPrefix
  <2> QED
    BY <1>1, <1>3, <2>2, <2>11, <2>15, <2>16
<1> QED
  BY <1>2, <1>3

\* The keys of the next zone bring an honest lookup on.
LEMMA ObtainOnTheWay ==
  ASSUME Honest, NEW s, GoodLook(s), OnTheWay(s), s.pc \in {"servers", "walk", "dnskey"}
  PROVE  OnTheWay(Obtain(s, Own[NextZone(s)]))
<1>1. s \in LookType /\ s.out = "none" /\ s.todo \in Seq(Zones \ {Root})
  BY DEF GoodLook, Waiting, LookType
<1>2. CASE s.todo = <<>>
  <2>1. TrueReferral(s) /\ s.resp.of \in Zones
    BY <1>2, NextOnTheWay
  <2>2. Obtain(s, Own[NextZone(s)]) = Descend(s, Own[s.resp.of])
    BY <1>2 DEF Obtain, NextZone
  <2> QED
    BY <1>1, <2>1, <2>2, DescendOnTheWay
<1>3. CASE s.todo # <<>>
  <2>1. Walking(s) /\ NextZone(s) \in Zones
    BY <1>3, NextOnTheWay
  <2>2. PICK keys \in SUBSET Keys : keys = Own[NextZone(s)]
    BY <2>1
  <2>3. PICK rest \in Seq(Zones \ {Root}) : rest = Tail(s.todo)
    <3>1. s.todo \in Seq(Zones \ {Root})
      BY <1>1
    <3>2. Tail(s.todo) \in Seq(Zones \ {Root})
      BY <1>3, <3>1
    <3> QED
      BY <3>2
  <2>4. PICK v : v = [s EXCEPT !.walked = keys, !.todo = rest, !.ds = {}]
    OBVIOUS
  <2>5. /\ v \in LookType /\ v.resp = s.resp /\ v.out = s.out /\ v.zone = s.zone
        /\ v.name = s.name /\ v.keys = s.keys /\ v.walked = keys /\ v.todo = rest
    <3>1. {} \in SUBSET Keys
      OBVIOUS
    <3> QED
      BY <1>1, <2>4, <3>1 DEF LookType
  <2>6. PICK signer \in Zones : signer = SignerOf(s)
    BY <2>1, SignerZone
  <2>7. PICK m \in Nat, k \in Nat : m = Len(s.todo) /\ k = Len(signer)
    BY <1>1
  <2>8. /\ m > 0 /\ DOMAIN s.todo = 1 .. m /\ Head(s.todo) = s.todo[1]
        /\ Len(rest) = m - 1 /\ DOMAIN rest = 1 .. (m - 1)
        /\ \A i \in 1 .. (m - 1) : rest[i] = s.todo[i + 1]
    BY <1>1, <1>3, <2>3, <2>7
  <2>9. /\ k - m > 0
        /\ \A i \in DOMAIN s.todo : s.todo[i] = Upper(signer, (k - m) + i)
        /\ IsPrefix(signer, Home[s.name])
        /\ s.resp.sig = [signer |-> signer, by |-> Own[signer]]
        /\ s.resp.kind = "referral" => TrueReferral(s)
    BY <2>1, <2>6, <2>7 DEF Walking, OnTheWalk
  <2>10. SignerOf(v) = signer /\ (v.resp.kind = "referral" => TrueReferral(v))
    BY <2>5, <2>6, <2>9 DEF SignerOf, TrueReferral
  <2>11. k - (m - 1) > 0 /\ k - (m - 1) = (k - m) + 1
    BY <2>9
  <2>12. v.walked = Own[Upper(signer, k - (m - 1))]
    <3>1. NextZone(s) = s.todo[1] /\ 1 \in DOMAIN s.todo
      BY <1>3, <2>8 DEF NextZone
    <3> QED
      BY <2>2, <2>5, <2>9, <2>11, <3>1
  <2>13. \A i \in DOMAIN v.todo : v.todo[i] = Upper(signer, (k - (m - 1)) + i)
    <3>1. SUFFICES ASSUME NEW i \in 1 .. (m - 1)
                   PROVE  rest[i] = Upper(signer, (k - (m - 1)) + i)
      BY <2>5, <2>8
    <3>2. i + 1 \in DOMAIN s.todo /\ (k - m) + (i + 1) = (k - (m - 1)) + i
      BY <2>8
    <3> QED
      BY <2>8, <2>9, <3>2
  <2>14. Len(signer) - Len(v.todo) = k - (m - 1)
    BY <2>5, <2>7, <2>8
  <2>15. OnTheWalk(v)
    BY <2>5, <2>9, <2>10, <2>11, <2>12, <2>13, <2>14 DEF OnTheWalk
  <2>16. Walking(v)
    BY <2>1, <2>5, <2>15 DEF Walking
  <2>17. Obtain(s, Own[NextZone(s)]) = Walk(v)
    BY <1>3, <2>2, <2>3, <2>4 DEF Obtain
  <2> QED
    BY <2>16, <2>17, WalkOnTheWay
<1> QED
  BY <1>2, <1>3

\* Without keys in the cache an honest lookup asks for them.
LEMMA MissOnTheWay ==
  ASSUME Honest, NEW s, GoodLook(s), OnTheWay(s), s.pc \in {"servers", "walk", "delete"}
  PROVE  OnTheWay(Miss(s))
<1>1. s \in LookType /\ s.out = "none"
  BY DEF GoodLook, Waiting
<1>2. CASE s.todo = <<>>
  <2>1. TrueReferral(s) /\ s.resp.of \in Zones
    BY <1>2, NextOnTheWay
  <2>2. /\ NextZone(s) = s.resp.of /\ s.resp.of # Root /\ s.name \in Names
        /\ IsPrefix(s.resp.of, Home[s.name])
    BY <1>2, NextOnTheWay DEF NextZone
  <2>3. s.resp.keys # {} /\ s.resp.keys = Own[s.resp.of]
    BY <2>1, <2>2, SignedOnTheWay DEF TrueReferral
  <2>4. PICK v : v = [s EXCEPT !.pc = "dnskey", !.ds = s.resp.keys]
    OBVIOUS
  <2>5. Miss(s) = v
    BY <1>2, <2>3, <2>4 DEF Miss
  <2>6. /\ v.pc = "dnskey" /\ v.zone = s.zone /\ v.keys = s.keys /\ v.out = s.out
        /\ v.name = s.name /\ v.resp = s.resp /\ v.todo = s.todo /\ v.ds = s.resp.keys
    BY <1>1, <2>4 DEF LookType
  <2>7. TrueReferral(v) /\ v.ds = Own[NextZone(v)]
    BY <1>2, <2>1, <2>3, <2>6 DEF TrueReferral, NextZone
  <2> QED
    BY <1>1, <1>2, <2>5, <2>6, <2>7 DEF OnTheWay
<1>3. CASE s.todo # <<>>
  <2>1. PICK v : v = [s EXCEPT !.pc = "ds"]
    OBVIOUS
  <2>2. Miss(s) = v
    BY <1>3, <2>1 DEF Miss
  <2>3. /\ v.pc = "ds" /\ v.zone = s.zone /\ v.keys = s.keys /\ v.out = s.out
        /\ v.name = s.name /\ v.resp = s.resp /\ v.todo = s.todo /\ v.walked = s.walked
    BY <1>1, <2>1 DEF LookType
  <2>4. Walking(s)
    BY <1>3, NextOnTheWay
  <2>5. OnTheWalk(v)
    BY <2>3, <2>4 DEF Walking, OnTheWalk, SignerOf, TrueReferral
  <2> QED
    BY <1>3, <2>2, <2>3, <2>4, <2>5 DEF OnTheWay, Walking
<1> QED
  BY <1>2, <1>3

-----------------------------------------------------------------------------
(* The steps of an honest lookup *)

\* A step that keeps the lookups on their way and the stored keys whole.
LEMMA HonestLook ==
  ASSUME IInv, HonestInv, NEW l \in Lookups, NEW s, look' = [look EXCEPT ![l] = s],
         Honest => OnTheWay(s),
         UNCHANGED <<keyCache, now, truthful>>
  PROVE  HonestInv'
<1>1. SUFFICES ASSUME Honest PROVE HonestInv'
  BY DEF HonestInv, Honest, WellSigned
<1>2. \A m \in Lookups : look'[m] = IF m = l THEN s ELSE look[m]
  BY DEF IInv, TypeOK
<1>3. \A m \in Lookups : OnTheWay(look'[m])
  BY <1>1, <1>2 DEF HonestInv
<1>4. \A z \in Zones : keyCache'[z] = Absent \/ keyCache'[z].keys = Own[z]
  BY <1>1 DEF HonestInv
<1> QED
  BY <1>3, <1>4 DEF HonestInv, OnTheWay, OnTheWalk, TrueReferral, SignerOf, NextZone

\* What the invariants say of the lookup that takes the step.
LEMMA OneHonestLook ==
  ASSUME IInv, HonestInv, Honest, NEW l \in Lookups
  PROVE  /\ GoodLook(look[l]) /\ OnTheWay(look[l]) /\ look[l] \in LookType
         /\ look[l].name \in Names /\ look[l].zone \in Zones
         /\ look[l].pc # "done" =>
               /\ look[l].out = "none"
               /\ IsPrefix(look[l].zone, Home[look[l].name])
               /\ look[l].keys = IF look[l].zone = Root THEN {} ELSE Own[look[l].zone]
               /\ look[l].zone # Root => look[l].keys # {}
<1>1. GoodLook(look[l]) /\ OnTheWay(look[l])
  BY OneLook DEF HonestInv
<1>2. look[l] \in LookType /\ look[l].name \in Names /\ look[l].zone \in Zones
  BY <1>1 DEF GoodLook, LookType
<1>3. look[l].pc # "done" =>
               /\ look[l].out = "none"
               /\ IsPrefix(look[l].zone, Home[look[l].name])
               /\ look[l].keys = IF look[l].zone = Root THEN {} ELSE Own[look[l].zone]
  BY <1>1 DEF GoodLook, Waiting, OnTheWay
<1>4. look[l].pc # "done" /\ look[l].zone # Root => look[l].keys # {}
  BY <1>2, <1>3, SignedOnTheWay
<1> QED
  BY <1>1, <1>2, <1>3, <1>4

\* Every lookup starts on its way, and nothing is stored.
LEMMA InitHonest == Init => HonestInv
<1> SUFFICES ASSUME Init PROVE HonestInv
  OBVIOUS
<1>1. \A l \in Lookups : OnTheWay(look[l])
  BY FreshOnTheWay DEF Init
<1>2. \A z \in Zones : keyCache[z] = Absent
  BY DEF Init
<1> QED
  BY <1>1, <1>2 DEF HonestInv

\* A server that fails is one less to ask (resolver.go:138-145).
LEMMA ServerFailsHonest ==
  ASSUME IInv, HonestInv, NEW l \in Lookups, ServerFails(l)
  PROVE  HonestInv'
<1>1. PICK s : s = [look[l] EXCEPT !.left = @ - 1]
  OBVIOUS
<1>2. ASSUME Honest PROVE OnTheWay(s)
  <2>1. OnTheWay(look[l]) /\ look[l] \in LookType /\ look[l].pc = "ask"
    BY <1>2, OneHonestLook DEF ServerFails
  <2>2. /\ s.pc = look[l].pc /\ s.zone = look[l].zone /\ s.keys = look[l].keys
        /\ s.out = look[l].out /\ s.name = look[l].name /\ s.resp = look[l].resp
        /\ s.status = look[l].status
    BY <1>1, <2>1 DEF LookType
  <2> QED
    BY <2>1, <2>2 DEF OnTheWay
<1>3. look' = [look EXCEPT ![l] = s]
  BY <1>1 DEF ServerFails
<1> QED
  BY <1>2, <1>3, HonestLook DEF ServerFails

\* A lookup that gives up says so (resolver.go:129-131, 257).
LEMMA GivesUpHonest ==
  ASSUME IInv, HonestInv, NEW l \in Lookups, GivesUp(l)
  PROVE  HonestInv'
<1>1. PICK e \in {"depth", "servers"} : look' = [look EXCEPT ![l] = Fail(look[l], e, "bogus")]
  BY DEF GivesUp
<1>2. e \in Outs \ {"answer", "invalid"} /\ "bogus" \in Statuses
  BY DEF Outs, Statuses
<1>3. PICK s : s = Fail(look[l], e, "bogus")
  OBVIOUS
<1>4. OnTheWay(s)
  BY <1>2, <1>3, OneLook, FailOnTheWay
<1>5. look' = [look EXCEPT ![l] = s]
  BY <1>1, <1>3
<1> QED
  BY <1>4, <1>5, HonestLook DEF GivesUp

\* A reply without data carries no answer (resolver.go:196-199).
LEMMA NoDataHonest ==
  ASSUME IInv, HonestInv, NEW l \in Lookups, NoData(l)
  PROVE  HonestInv'
<1>1. PICK s : s = Return(look[l], "insecure")
  OBVIOUS
<1>2. ASSUME Honest PROVE OnTheWay(s)
  <2>1. OnTheWay(look[l]) /\ look[l] \in LookType /\ look[l].pc = "ask"
    BY <1>2, OneHonestLook DEF NoData
  <2>2. look[l].resp.kind # "answer" /\ "insecure" \in Statuses
    BY <2>1 DEF OnTheWay, NoReply, Statuses
  <2> QED
    BY <1>1, <2>1, <2>2, ReturnOnTheWay
<1>3. look' = [look EXCEPT ![l] = s]
  BY <1>1 DEF NoData
<1> QED
  BY <1>2, <1>3, HonestLook DEF NoData

\* An honest lookup that has just received a reply.
LEMMA HonestHeard ==
  ASSUME IInv, HonestInv, Honest, NEW l \in Lookups, look[l].pc = "ask", NEW r \in Replies
  PROVE  /\ Heard(l, r) \in LookType
         /\ Heard(l, r).resp = r
         /\ Heard(l, r).todo = <<>>
         /\ Heard(l, r).out = "none"
         /\ Heard(l, r).name = look[l].name
         /\ Heard(l, r).zone = look[l].zone
         /\ Heard(l, r).keys = look[l].keys
<1>1. look[l] \in LookType
  BY OneHonestLook
<1>2. Heard(l, r).name = look[l].name /\ Heard(l, r).zone = look[l].zone
  BY <1>1 DEF LookType, Heard
<1> QED
  BY <1>2, Received

\* The answer is signed by the zone of the name, whose chain can be walked; below
\* the root there are keys to start from (resolver.go:182-194).
LEMMA AnswerComesHonest ==
  ASSUME IInv, HonestInv, NEW l \in Lookups, AnswerComes(l)
  PROVE  HonestInv'
<1>0. look[l].pc = "ask"
  BY DEF AnswerComes, Hears
<1>1. PICK r \in AnswerReplies :
        /\ Credible(r, Heard(l, r))
        /\ look' = [look EXCEPT ![l] =
                    IF Heard(l, r).keys # {} /\ r.asked THEN StartVerify(Heard(l, r))
                    ELSE Return(Take(Heard(l, r), FALSE, r.genuine), "insecure")]
  BY DEF AnswerComes, Heard
<1>2. r \in Replies /\ r.genuine \in BOOLEAN /\ r.kind = "answer"
  BY DEF Replies, AnswerReplies
<1>3. PICK s : s = Heard(l, r)
  OBVIOUS
<1>4. PICK t : t = IF s.keys # {} /\ r.asked THEN StartVerify(s)
                   ELSE Return(Take(s, FALSE, r.genuine), "insecure")
  OBVIOUS
<1>5. ASSUME Honest PROVE OnTheWay(t)
  <2>1. /\ s \in LookType /\ s.resp = r /\ s.out = "none" /\ s.name = look[l].name
        /\ s.zone = look[l].zone /\ s.keys = look[l].keys
    BY <1>0, <1>2, <1>3, <1>5, HonestHeard
  <2>2. /\ s.name \in Names /\ s.zone \in Zones /\ IsPrefix(s.zone, Home[s.name])
        /\ s.keys = (IF s.zone = Root THEN {} ELSE Own[s.zone])
        /\ s.zone # Root => s.keys # {}
    BY <1>0, <1>5, <2>1, OneHonestLook
  <2>3. CASE s.keys # {} /\ r.asked
    <3>1. Truthful(r, s.name, s.zone)
      BY <1>1, <1>3, <1>5 DEF Credible, Honest
    <3>2. r.sig = TrueSig(Home[s.name])
      BY <1>2, <3>1 DEF Truthful
    <3>3. SignerOf(s) = Home[s.name] /\ Home[s.name] \in Zones
      BY <1>2, <2>1, <2>2 DEF SignerOf
    <3>4. IsPrefix(Home[s.name], Home[s.name])
      <4>1. Home[s.name] \in Seq(STRING)
        BY <3>3
      <4> QED
        BY <4>1 DEF IsPrefix
    <3>5. r.sig = [signer |-> SignerOf(s), by |-> Own[SignerOf(s)]]
      BY <1>5, <2>2, <3>2, <3>3, <3>4, SignedOnTheWay
    <3>6. s.zone # Root /\ s.keys = Own[s.zone]
      BY <2>2, <2>3
    <3>7. s.resp \in Replies /\ s.resp.kind # "referral"
      BY <1>2, <2>1
    <3>8. IsPrefix(s.zone, SignerOf(s)) /\ IsPrefix(SignerOf(s), Home[s.name])
          /\ SignerOf(s) \in Zones
      BY <2>2, <3>3, <3>4
    <3>9. OnTheWay(StartVerify(s))
      BY <1>5, <2>1, <2>2, <3>5, <3>6, <3>7, <3>8, StartVerifyOnTheWay
    <3> QED
      BY <1>4, <2>3, <3>9
  <2>4. CASE ~(s.keys # {} /\ r.asked)
    <3>1. PICK u : u = Take(s, FALSE, r.genuine)
      OBVIOUS
    <3>2. u \in LookType /\ u.zone = s.zone /\ u.resp = [r EXCEPT !.sig = NoSig]
      BY <1>2, <2>1, <3>1, TakeType
    <3>3. u.resp.asked = r.asked
      BY <3>2 DEF AnswerReplies
    <3>4. u.zone # Root => ~u.resp.asked
      BY <2>2, <2>4, <3>2, <3>3
    <3>5. OnTheWay(Return(u, "insecure"))
      BY <3>2, <3>4, ReturnOnTheWay DEF Statuses
    <3> QED
      BY <1>4, <2>4, <3>1, <3>5
  <2> QED
    BY <2>3, <2>4
<1>6. look' = [look EXCEPT ![l] = t]
  BY <1>1, <1>3, <1>4
<1> QED
  BY <1>5, <1>6, HonestLook DEF AnswerComes

\* So is a CNAME (resolver.go:147-162).
LEMMA AliasComesHonest ==
  ASSUME IInv, HonestInv, NEW l \in Lookups, AliasComes(l)
  PROVE  HonestInv'
<1>0. look[l].pc = "ask"
  BY DEF AliasComes, Hears
<1>1. PICK r \in AliasReplies :
        /\ Credible(r, Heard(l, r))
        /\ look' = [look EXCEPT ![l] =
                    IF Heard(l, r).keys # {} THEN StartVerify(Heard(l, r))
                    ELSE [Take(Heard(l, r), FALSE, r.genuine) EXCEPT !.pc = "target"]]
  BY DEF AliasComes, Heard
<1>2. r \in Replies /\ r.genuine \in BOOLEAN /\ r.kind = "alias"
  BY DEF Replies, AliasReplies
<1>3. PICK s : s = Heard(l, r)
  OBVIOUS
<1>4. PICK t : t = IF s.keys # {} THEN StartVerify(s)
                   ELSE [Take(s, FALSE, r.genuine) EXCEPT !.pc = "target"]
  OBVIOUS
<1>5. ASSUME Honest PROVE OnTheWay(t)
  <2>1. /\ s \in LookType /\ s.resp = r /\ s.out = "none" /\ s.name = look[l].name
        /\ s.zone = look[l].zone /\ s.keys = look[l].keys
    BY <1>0, <1>2, <1>3, <1>5, HonestHeard
  <2>2. /\ s.name \in Names /\ s.zone \in Zones /\ IsPrefix(s.zone, Home[s.name])
        /\ s.keys = (IF s.zone = Root THEN {} ELSE Own[s.zone])
    BY <1>0, <1>5, <2>1, OneHonestLook
  <2>3. CASE s.keys # {}
    <3>1. Truthful(r, s.name, s.zone)
      BY <1>1, <1>3, <1>5 DEF Credible, Honest
    <3>2. r.sig = TrueSig(Home[s.name])
      BY <1>2, <3>1 DEF Truthful
    <3>3. SignerOf(s) = Home[s.name] /\ Home[s.name] \in Zones
      BY <1>2, <2>1, <2>2 DEF SignerOf
    <3>4. IsPrefix(Home[s.name], Home[s.name])
      <4>1. Home[s.name] \in Seq(STRING)
        BY <3>3
      <4> QED
        BY <4>1 DEF IsPrefix
    <3>5. r.sig = [signer |-> SignerOf(s), by |-> Own[SignerOf(s)]]
      BY <1>5, <2>2, <3>2, <3>3, <3>4, SignedOnTheWay
    <3>6. s.zone # Root /\ s.keys = Own[s.zone]
      BY <2>2, <2>3
    <3>7. s.resp \in Replies /\ s.resp.kind # "referral"
      BY <1>2, <2>1
    <3>8. IsPrefix(s.zone, SignerOf(s)) /\ IsPrefix(SignerOf(s), Home[s.name])
          /\ SignerOf(s) \in Zones
      BY <2>2, <3>3, <3>4
    <3>9. OnTheWay(StartVerify(s))
      BY <1>5, <2>1, <2>2, <3>5, <3>6, <3>7, <3>8, StartVerifyOnTheWay
    <3> QED
      BY <1>4, <2>3, <3>9
  <2>4. CASE s.keys = {}
    <3>1. PICK u : u = Take(s, FALSE, r.genuine)
      OBVIOUS
    <3>2. u \in LookType /\ u.zone = s.zone /\ u.keys = s.keys /\ u.out = s.out
      BY <1>2, <2>1, <3>1, TakeType
    <3>3. u.name = s.name
      BY <1>2, <2>1, <3>1 DEF Take, LookType
    <3>4. t = [u EXCEPT !.pc = "target"]
      BY <1>4, <2>4, <3>1
    <3>5. /\ t.pc = "target" /\ t.zone = s.zone /\ t.keys = s.keys /\ t.out = s.out
          /\ t.name = s.name
      BY <3>2, <3>3, <3>4 DEF LookType
    <3> QED
      BY <2>1, <2>2, <3>5 DEF OnTheWay
  <2> QED
    BY <2>3, <2>4
<1>6. look' = [look EXCEPT ![l] = t]
  BY <1>1, <1>3, <1>4
<1> QED
  BY <1>5, <1>6, HonestLook DEF AliasComes

\* The DS records of a referral are signed by the parent of the child zone
\* (resolver.go:196-211).
LEMMA ReferralComesHonest ==
  ASSUME IInv, HonestInv, NEW l \in Lookups, ReferralComes(l)
  PROVE  HonestInv'
<1>0. look[l].pc = "ask"
  BY DEF ReferralComes, Hears
<1>1. PICK r \in DSReplies :
        /\ Credible(r, Heard(l, r))
        /\ look' = [look EXCEPT ![l] =
                       IF Heard(l, r).keys # {} /\ r.keys # {} THEN StartVerify(Heard(l, r))
                       ELSE [Heard(l, r) EXCEPT !.pc = "servers", !.resp.sig = NoSig]]
  BY DEF ReferralComes, Heard
<1>2. r \in Replies /\ r.kind = "referral" /\ r.of \in Zones
  BY DEF Replies, DSReplies
<1>3. PICK s : s = Heard(l, r)
  OBVIOUS
<1>4. PICK q : q = [r EXCEPT !.sig = NoSig]
  OBVIOUS
<1>5. PICK t : t = IF s.keys # {} /\ r.keys # {} THEN StartVerify(s)
                   ELSE [s EXCEPT !.pc = "servers", !.resp = q]
  OBVIOUS
<1>6. ASSUME Honest PROVE OnTheWay(t)
  <2>1. /\ s \in LookType /\ s.resp = r /\ s.out = "none" /\ s.name = look[l].name
        /\ s.zone = look[l].zone /\ s.keys = look[l].keys /\ s.todo = <<>>
    BY <1>0, <1>2, <1>3, <1>6, HonestHeard
  <2>2. /\ s.name \in Names /\ s.zone \in Zones /\ IsPrefix(s.zone, Home[s.name])
        /\ s.keys = (IF s.zone = Root THEN {} ELSE Own[s.zone])
    BY <1>0, <1>6, <2>1, OneHonestLook
  <2>3. Truthful(r, s.name, s.zone)
    BY <1>1, <1>3, <1>6 DEF Credible, Honest
  <2>4. /\ Descends(r.of, s.zone) /\ IsPrefix(r.of, Home[s.name])
        /\ r.keys = TrueDS(r.of)
        /\ r.keys # {} => r.sig = TrueSig(Above(r.of))
    BY <1>2, <2>3 DEF Truthful
  <2>5. /\ Len(s.zone) < Len(r.of) /\ Parent(r.of) \in Zones
        /\ IsPrefix(Parent(r.of), r.of) /\ IsPrefix(s.zone, Parent(r.of))
    BY <1>2, <2>2, <2>4, ParentZone
  <2>6. r.of # Root
    <3>1. r.of \in Seq(STRING) /\ s.zone \in Seq(STRING)
      BY <1>2, <2>2
    <3> QED
      BY <2>5, <3>1 DEF Root
  <2>7. r.keys = Own[r.of]
    BY <1>2, <1>6, <2>2, <2>4, <2>5, <2>6, TrueDSOnTheWay
  <2>8. TrueReferral(s)
    BY <2>1, <2>4, <2>7 DEF TrueReferral
  <2>9. CASE s.keys # {} /\ r.keys # {}
    <3>1. SignerOf(s) = Parent(r.of)
      BY <1>2, <2>1 DEF SignerOf
    <3>2. IsPrefix(Parent(r.of), Home[s.name])
      <4>1. Home[s.name] \in Zones
        BY <2>2
      <4> QED
        BY <1>2, <2>4, <2>5, <4>1, PrefixTrans
    <3>3. r.sig = [signer |-> SignerOf(s), by |-> Own[SignerOf(s)]]
      <4>1. Above(r.of) = Parent(r.of)
        BY <1>2, <1>6, <2>2, <2>4, <2>5, <2>6, AboveOnTheWay
      <4> QED
        BY <1>6, <2>2, <2>4, <2>5, <2>9, <3>1, <3>2, <4>1, SignedOnTheWay
    <3>4. s.zone # Root /\ s.keys = Own[s.zone]
      BY <2>2, <2>9
    <3>5. IsPrefix(s.zone, SignerOf(s)) /\ IsPrefix(SignerOf(s), Home[s.name])
          /\ SignerOf(s) \in Zones
      BY <2>5, <3>1, <3>2
    <3>6. OnTheWay(StartVerify(s))
      BY <1>2, <1>6, <2>1, <2>2, <2>8, <3>3, <3>4, <3>5, StartVerifyOnTheWay
    <3> QED
      BY <1>5, <2>9, <3>6
  <2>10. CASE ~(s.keys # {} /\ r.keys # {})
    <3>1. q.of = r.of /\ q.keys = r.keys
      BY <1>4 DEF DSReplies
    <3>2. t = [s EXCEPT !.pc = "servers", !.resp = q]
      BY <1>5, <2>10
    <3>3. /\ t.pc = "servers" /\ t.zone = s.zone /\ t.keys = s.keys /\ t.out = s.out
          /\ t.name = s.name /\ t.resp = q /\ t.todo = s.todo
      BY <2>1, <3>2 DEF LookType
    <3>4. TrueReferral(t)
      BY <2>1, <2>8, <3>1, <3>3 DEF TrueReferral
    <3> QED
      BY <2>1, <2>2, <3>3, <3>4 DEF OnTheWay
  <2> QED
    BY <2>9, <2>10
<1>7. look' = [look EXCEPT ![l] = t]
  <2>1. s \in LookType /\ s.resp = r
    BY <1>0, <1>2, <1>3, Received
  <2>2. [s EXCEPT !.pc = "servers", !.resp.sig = NoSig]
        = [s EXCEPT !.pc = "servers", !.resp = q]
    BY <1>4, <2>1 DEF LookType
  <2> QED
    BY <1>1, <1>3, <1>5, <2>2
<1> QED
  BY <1>6, <1>7, HonestLook DEF ReferralComes

\* The target of a CNAME found elsewhere ends the lookup (resolver.go:163-171).
LEMMA TargetFoundHonest ==
  ASSUME IInv, HonestInv, NEW l \in Lookups,
         \/ TargetInReply(l)
         \/ TargetNegative(l)
         \/ \E genuine \in BOOLEAN : TargetCached(l, genuine)
  PROVE  HonestInv'
<1>0. /\ look[l] \in LookType /\ GoodLook(look[l])
      /\ look[l].pc = "target"
  BY OneLook DEF TargetInReply, TargetNegative, TargetCached
<1>1. look[l].resp.kind = "alias" /\ {"secure", "insecure"} \subseteq Statuses
  BY <1>0 DEF GoodLook, Waiting, AliasReplies, Statuses
<1>2. CASE TargetInReply(l)
  <2>1. PICK s : s = Return(look[l], "insecure")
    OBVIOUS
  <2>2. OnTheWay(s)
    BY <1>0, <1>1, <2>1, ReturnOnTheWay
  <2>3. look' = [look EXCEPT ![l] = s]
    BY <1>2, <2>1 DEF TargetInReply
  <2> QED
    BY <1>2, <2>2, <2>3, HonestLook DEF TargetInReply
<1>3. CASE TargetNegative(l)
  <2>1. PICK s : s = Fail(look[l], "denied", "insecure")
    OBVIOUS
  <2>2. "denied" \in Outs \ {"answer", "invalid"}
    BY DEF Outs
  <2>3. OnTheWay(s)
    BY <1>0, <1>1, <2>1, <2>2, FailOnTheWay
  <2>4. look' = [look EXCEPT ![l] = s]
    BY <1>3, <2>1 DEF TargetNegative
  <2> QED
    BY <1>3, <2>3, <2>4, HonestLook DEF TargetNegative
<1>4. ASSUME NEW genuine \in BOOLEAN, TargetCached(l, genuine) PROVE HonestInv'
  <2>1. PICK whole \in BOOLEAN : whole = (look[l].whole /\ genuine)
    OBVIOUS
  <2>2. PICK u : u = [look[l] EXCEPT !.whole = whole]
    OBVIOUS
  <2>3. u \in LookType /\ u.resp = look[l].resp
    BY <1>0, <2>2 DEF LookType
  <2>4. PICK s : s = Return(u, "secure")
    OBVIOUS
  <2>5. OnTheWay(s)
    BY <1>1, <2>3, <2>4, ReturnOnTheWay
  <2>6. u = [look[l] EXCEPT !.whole = @ /\ genuine]
    BY <1>0, <2>1, <2>2 DEF LookType
  <2>7. look' = [look EXCEPT ![l] = Return([look[l] EXCEPT !.whole = @ /\ genuine], "secure")]
    BY <1>4 DEF TargetCached
  <2>8. look' = [look EXCEPT ![l] = s]
    BY <2>4, <2>6, <2>7
  <2> QED
    BY <1>4, <2>5, <2>8, HonestLook DEF TargetCached
<1> QED
  BY <1>2, <1>3, <1>4

\* The lookup of the target starts at the root (resolver.go:172-180).
LEMMA TargetMissedHonest ==
  ASSUME IInv, HonestInv, NEW l \in Lookups, TargetMissed(l)
  PROVE  HonestInv'
<1>0. look[l] \in LookType /\ GoodLook(look[l]) /\ look[l].pc = "target"
  BY OneLook DEF TargetMissed
<1>1. look[l].resp \in AliasReplies
  BY <1>0 DEF GoodLook, Waiting
<1>2. look[l].resp.target \in Names
  BY <1>1, ReplyFacts DEF Replies
<1>3. PICK s : s = Follow(look[l])
  OBVIOUS
<1>4. /\ s.pc = "ask" /\ s.resp = NoReply /\ s.out = "none" /\ s.zone = Root
      /\ s.keys = {} /\ s.name = look[l].resp.target
  BY <1>3 DEF Follow, Fresh
<1>5. IsPrefix(Root, Home[look[l].resp.target])
  BY <1>2 DEF IsPrefix, Root
<1>6. OnTheWay(s)
  BY <1>4, <1>5, AskOnTheWay
<1>7. look' = [look EXCEPT ![l] = s]
  BY <1>3 DEF TargetMissed
<1> QED
  BY <1>6, <1>7, HonestLook DEF TargetMissed

\* Name servers without addresses are one server less (resolver.go:212-222).
LEMMA NoAddressesHonest ==
  ASSUME IInv, HonestInv, NEW l \in Lookups, NoAddresses(l)
  PROVE  HonestInv'
<1>1. look[l] \in LookType /\ look[l].pc = "servers"
  BY OneLook DEF NoAddresses
<1>2. PICK left \in Int : left = look[l].left - 1
  BY <1>1 DEF LookType
<1>3. PICK s : s = [look[l] EXCEPT !.pc = "ask", !.left = left, !.resp = NoReply]
  OBVIOUS
<1>4. /\ s.pc = "ask" /\ s.resp = NoReply /\ s.keys = look[l].keys /\ s.zone = look[l].zone
      /\ s.out = look[l].out /\ s.name = look[l].name
  BY <1>1, <1>3 DEF LookType
<1>5. ASSUME Honest PROVE OnTheWay(s)
  BY <1>1, <1>4, <1>5, OneHonestLook, AskOnTheWay
<1>6. look' = [look EXCEPT ![l] = s]
  BY <1>1, <1>2, <1>3 DEF NoAddresses, IInv, TypeOK, LookType
<1> QED
  BY <1>5, <1>6, HonestLook DEF NoAddresses

\* What is stored of the next zone are all of its keys (resolver.go:225, 359).
LEMMA KeysCachedHonest ==
  ASSUME IInv, HonestInv, NEW l \in Lookups, KeysCached(l)
  PROVE  HonestInv'
<1>1. PICK s : s = Obtain(look[l], keyCache[NextZone(look[l])].keys)
  OBVIOUS
<1>2. ASSUME Honest PROVE OnTheWay(s)
  <2>1. GoodLook(look[l]) /\ OnTheWay(look[l]) /\ look[l].pc \in {"servers", "walk"}
    BY <1>2, OneHonestLook DEF KeysCached, WantsKeys
  <2>2. NextZone(look[l]) \in Zones /\ keyCache[NextZone(look[l])] # Absent
    BY <2>1, NextOnTheWay DEF KeysCached
  <2>3. keyCache[NextZone(look[l])].keys = Own[NextZone(look[l])]
    BY <1>2, <2>2 DEF HonestInv
  <2> QED
    BY <1>1, <1>2, <2>1, <2>3, ObtainOnTheWay
<1>3. look' = [look EXCEPT ![l] = s]
  BY <1>1 DEF KeysCached
<1> QED
  BY <1>2, <1>3, HonestLook DEF KeysCached

\* No keys in the cache (resolver.go:227, 363).
LEMMA KeysMissingHonest ==
  ASSUME IInv, HonestInv, NEW l \in Lookups, KeysMissing(l)
  PROVE  HonestInv'
<1>1. PICK s : s = Miss(look[l])
  OBVIOUS
<1>2. ASSUME Honest PROVE OnTheWay(s)
  <2>1. GoodLook(look[l]) /\ OnTheWay(look[l]) /\ look[l].pc \in {"servers", "walk"}
    BY <1>2, OneHonestLook DEF KeysMissing, WantsKeys
  <2> QED
    BY <1>1, <1>2, <2>1, MissOnTheWay
<1>3. look' = [look EXCEPT ![l] = s]
  BY <1>1 DEF KeysMissing
<1> QED
  BY <1>2, <1>3, HonestLook DEF KeysMissing

\* Expired keys are not used (dnssec.go:328).
LEMMA KeysExpiredHonest ==
  ASSUME IInv, HonestInv, NEW l \in Lookups, KeysExpired(l)
  PROVE  HonestInv'
<1>1. PICK s : s = [look[l] EXCEPT !.pc = "delete"]
  OBVIOUS
<1>2. ASSUME Honest PROVE OnTheWay(s)
  <2>1. GoodLook(look[l]) /\ OnTheWay(look[l]) /\ look[l].pc \in {"servers", "walk"}
        /\ look[l] \in LookType
    BY <1>2, OneHonestLook DEF KeysExpired, WantsKeys
  <2>2. /\ s.pc = "delete" /\ s.zone = look[l].zone /\ s.keys = look[l].keys
        /\ s.out = look[l].out /\ s.name = look[l].name /\ s.resp = look[l].resp
        /\ s.todo = look[l].todo /\ s.walked = look[l].walked /\ s.status = look[l].status
    BY <1>1, <2>1 DEF LookType
  <2>3. CASE look[l].todo = <<>>
    <3>1. TrueReferral(look[l])
      BY <2>1, <2>3, NextOnTheWay
    <3>2. TrueReferral(s)
      BY <2>2, <3>1 DEF TrueReferral
    <3> QED
      BY <2>1, <2>2, <2>3, <3>2 DEF OnTheWay
  <2>4. CASE look[l].todo # <<>>
    <3>1. Walking(look[l])
      BY <2>1, <2>4, NextOnTheWay
    <3>2. OnTheWalk(s)
      BY <2>2, <3>1 DEF Walking, OnTheWalk, SignerOf, TrueReferral
    <3> QED
      BY <2>2, <2>4, <3>1, <3>2 DEF OnTheWay, Walking
  <2> QED
    BY <2>3, <2>4
<1>3. look' = [look EXCEPT ![l] = s]
  BY <1>1 DEF KeysExpired
<1> QED
  BY <1>2, <1>3, HonestLook DEF KeysExpired

\* A step that replaces what the key cache holds of one zone.
LEMMA HonestStore ==
  ASSUME IInv, HonestInv, NEW l \in Lookups, NEW s, look' = [look EXCEPT ![l] = s],
         NEW z \in Zones, NEW entry, keyCache' = [keyCache EXCEPT ![z] = entry],
         Honest => OnTheWay(s) /\ (entry = Absent \/ entry.keys = Own[z]),
         UNCHANGED <<now, truthful>>
  PROVE  HonestInv'
<1>1. SUFFICES ASSUME Honest PROVE HonestInv'
  BY DEF HonestInv, Honest, WellSigned
<1>2. \A m \in Lookups : look'[m] = IF m = l THEN s ELSE look[m]
  BY DEF IInv, TypeOK
<1>3. \A m \in Lookups : OnTheWay(look'[m])
  BY <1>1, <1>2 DEF HonestInv
<1>4. \A y \in Zones : keyCache'[y] = IF y = z THEN entry ELSE keyCache[y]
  BY DEF IInv, TypeOK
<1>5. \A y \in Zones : keyCache'[y] = Absent \/ keyCache'[y].keys = Own[y]
  BY <1>1, <1>4 DEF HonestInv
<1> QED
  BY <1>3, <1>5 DEF HonestInv, OnTheWay, OnTheWalk, TrueReferral, SignerOf, NextZone

\* A deletion, even of keys that another lookup has just stored, costs queries and
\* no more (dnssec.go:329-330).
LEMMA DeleteKeysHonest ==
  ASSUME IInv, HonestInv, NEW l \in Lookups, DeleteKeys(l)
  PROVE  HonestInv'
<1>0. GoodLook(look[l]) /\ look[l].pc = "delete"
  BY OneLook DEF DeleteKeys
<1>1. PICK s : s = Miss(look[l])
  OBVIOUS
<1>2. ASSUME Honest PROVE OnTheWay(s)
  BY <1>0, <1>1, <1>2, OneHonestLook, MissOnTheWay
<1>3. look' = [look EXCEPT ![l] = s]
  BY <1>1 DEF DeleteKeys
<1>4. PICK z \in Zones : z = NextZone(look[l])
  BY <1>0, NextZoneType
<1>5. keyCache' = [keyCache EXCEPT ![z] = Absent] /\ UNCHANGED <<now, truthful>>
  BY <1>4 DEF DeleteKeys
<1>6. PICK entry : entry = Absent
  OBVIOUS
<1> QED
  BY <1>2, <1>3, <1>5, <1>6, HonestStore

\* The DS records of the next zone are there and are signed by the zone whose keys
\* the walk has (resolver.go:372-406).
LEMMA DSComesHonest ==
  ASSUME IInv, HonestInv, NEW l \in Lookups, DSComes(l)
  PROVE  HonestInv'
<1>0. look[l].pc = "ds"
  BY DEF DSComes
<1>1. PICK r \in DSReplies :
        /\ truthful => /\ r.of = NextZone(look[l])
                       /\ r.keys = TrueDS(r.of)
                       /\ r.keys # {} => r.sig = TrueSig(Above(r.of))
        /\ look' = [look EXCEPT ![l] =
            IF /\ r.of = NextZone(look[l]) /\ r.keys # {}
               /\ Verifies(look[l].walked, r.sig)
            THEN [look[l] EXCEPT !.pc = "dnskey", !.ds = r.keys]
            ELSE Invalid(look[l])]
  BY DEF DSComes
<1>2. PICK s : s = IF /\ r.of = NextZone(look[l]) /\ r.keys # {}
                      /\ Verifies(look[l].walked, r.sig)
                   THEN [look[l] EXCEPT !.pc = "dnskey", !.ds = r.keys]
                   ELSE Invalid(look[l])
  OBVIOUS
<1>3. ASSUME Honest PROVE OnTheWay(s)
  <2>1. GoodLook(look[l]) /\ OnTheWay(look[l]) /\ look[l] \in LookType
    BY <1>3, OneHonestLook
  <2>2. look[l].todo # <<>>
    BY <1>0, <2>1 DEF GoodLook, Waiting
  <2>3. PICK z \in Zones : z = NextZone(look[l])
    BY <1>0, <2>1, NextOnTheWay
  <2>4. /\ z # Root /\ IsPrefix(z, Home[look[l].name]) /\ Parent(z) \in Zones
        /\ IsPrefix(Parent(z), z) /\ look[l].name \in Names
        /\ Walking(look[l]) /\ look[l].walked = Own[Parent(z)] /\ Parent(z) # Root
    BY <1>0, <2>1, <2>2, <2>3, NextOnTheWay
  <2>5. Home[look[l].name] \in Zones
    BY <2>4
  <2>6. IsPrefix(Parent(z), Home[look[l].name])
    BY <2>4, <2>5, PrefixTrans
  <2>7. TrueDS(z) = Own[z] /\ Own[z] # {}
    BY <1>3, <2>4, TrueDSOnTheWay
  <2>8. /\ r.of = z /\ r.keys = Own[z] /\ r.keys # {}
        /\ r.sig = TrueSig(Parent(z))
    <3>1. Above(z) = Parent(z)
      BY <1>3, <2>4, AboveOnTheWay
    <3> QED
      BY <1>1, <1>3, <2>3, <2>7, <3>1 DEF Honest
  <2>9. Own[Parent(z)] # {} /\ r.sig.by = Own[Parent(z)]
    BY <1>3, <2>4, <2>6, <2>8, SignedOnTheWay
  <2>10. Verifies(look[l].walked, r.sig)
    BY <2>4, <2>9 DEF Verifies
  <2>11. s = [look[l] EXCEPT !.pc = "dnskey", !.ds = r.keys]
    BY <1>2, <2>3, <2>8, <2>10
  <2>12. /\ s.pc = "dnskey" /\ s.zone = look[l].zone /\ s.keys = look[l].keys
         /\ s.out = look[l].out /\ s.name = look[l].name /\ s.resp = look[l].resp
         /\ s.todo = look[l].todo /\ s.walked = look[l].walked /\ s.ds = r.keys
    BY <2>1, <2>11 DEF LookType
  <2>13. OnTheWalk(s) /\ s.ds = Own[NextZone(s)]
    <3>1. OnTheWalk(s)
      BY <2>4, <2>12 DEF Walking, OnTheWalk, SignerOf, TrueReferral
    <3>2. NextZone(s) = z
      BY <2>3, <2>12 DEF NextZone
    <3> QED
      BY <2>8, <2>12, <3>1, <3>2
  <2> QED
    BY <2>2, <2>4, <2>12, <2>13 DEF OnTheWay, Walking
<1>4. look' = [look EXCEPT ![l] = s]
  BY <1>1, <1>2
<1> QED
  BY <1>3, <1>4, HonestLook DEF DSComes

\* The keys of the next zone are signed with a designated one
\* (resolver.go:227-252, 408-424).
LEMMA KeysComeHonest ==
  ASSUME IInv, HonestInv, NEW l \in Lookups, KeysCome(l)
  PROVE  HonestInv'
<1>0. GoodLook(look[l]) /\ look[l] \in LookType /\ look[l].pc = "dnskey"
  BY OneLook DEF KeysCome
<1>1. PICK r \in KeyReplies, ttl \in TTLs :
        /\ r.of = NextZone(look[l])
        /\ truthful => r.keys = Own[r.of] /\ r.sig = TrueSig(r.of)
        /\ IF ValidKeys(look[l].ds, r)
           THEN /\ look' = [look EXCEPT ![l] = Obtain(look[l], r.keys)]
                /\ CacheZoneKeys(r.of, r.keys, ttl)
           ELSE /\ look' = [look EXCEPT ![l] = Invalid(look[l])]
                /\ UNCHANGED keyCache
  BY DEF KeysCome
<1>2. UNCHANGED <<now, truthful>>
  BY DEF KeysCome
<1>3. ASSUME Honest
      PROVE  ValidKeys(look[l].ds, r) /\ r.keys = Own[NextZone(look[l])]
             /\ OnTheWay(Obtain(look[l], r.keys))
  <2>1. GoodLook(look[l]) /\ OnTheWay(look[l])
    BY <1>3, OneHonestLook
  <2>2. PICK z \in Zones : z = NextZone(look[l])
    BY <1>0, <2>1, NextOnTheWay
  <2>3. z # Root /\ IsPrefix(z, Home[look[l].name]) /\ look[l].name \in Names
    BY <1>0, <2>1, <2>2, NextOnTheWay
  <2>4. r.keys = Own[z] /\ r.sig = TrueSig(z)
    BY <1>1, <1>3, <2>2 DEF Honest
  <2>5. Own[z] # {} /\ r.sig.by = Own[z]
    BY <1>3, <2>3, <2>4, SignedOnTheWay
  <2>6. look[l].ds = Own[z]
    BY <1>0, <2>1, <2>2 DEF OnTheWay
  <2>7. ValidKeys(look[l].ds, r)
    BY <2>4, <2>5, <2>6 DEF ValidKeys, Designated, Verifies
  <2>8. OnTheWay(Obtain(look[l], Own[NextZone(look[l])]))
    BY <1>0, <1>3, <2>1, ObtainOnTheWay
  <2> QED
    BY <2>2, <2>4, <2>7, <2>8
<1>4. CASE ValidKeys(look[l].ds, r)
  <2>1. PICK s : s = Obtain(look[l], r.keys)
    OBVIOUS
  <2>2. PICK entry : entry = [keys |-> r.keys,
                              expires |-> now + (IF ttl = 0 THEN DefaultTTL ELSE ttl)]
    OBVIOUS
  <2>3. look' = [look EXCEPT ![l] = s]
    BY <1>1, <1>4, <2>1
  <2>4. PICK z \in Zones : z = NextZone(look[l])
    BY <1>0, NextZoneType
  <2>5. keyCache' = [keyCache EXCEPT ![z] = entry]
    BY <1>1, <1>4, <2>2, <2>4 DEF CacheZoneKeys
  <2>6. Honest => OnTheWay(s) /\ entry.keys = Own[z]
    BY <1>3, <2>1, <2>2, <2>4
  <2> QED
    BY <1>2, <2>3, <2>5, <2>6, HonestStore
<1>5. CASE ~ValidKeys(look[l].ds, r)
  <2>1. PICK s : s = Invalid(look[l])
    OBVIOUS
  <2>2. look' = [look EXCEPT ![l] = s] /\ UNCHANGED keyCache
    BY <1>1, <1>5, <2>1
  <2>3. ~Honest
    BY <1>3, <1>5
  <2> QED
    BY <1>2, <2>2, <2>3, HonestLook
<1> QED
  BY <1>4, <1>5

\* Keys that nobody sends end the lookup (resolver.go:229-231, 384-386).
LEMMA UnreachableHonest ==
  ASSUME IInv, HonestInv, NEW l \in Lookups, Unreachable(l)
  PROVE  HonestInv'
<1>1. PICK s : s = Fail(look[l], "unreachable", "bogus")
  OBVIOUS
<1>2. "unreachable" \in Outs \ {"answer", "invalid"} /\ "bogus" \in Statuses
  BY DEF Outs, Statuses
<1>3. OnTheWay(s)
  BY <1>1, <1>2, FailOnTheWay, OneLook
<1>4. look' = [look EXCEPT ![l] = s]
  BY <1>1 DEF Unreachable
<1> QED
  BY <1>3, <1>4, HonestLook DEF Unreachable

\* The invariant of honest lookups is inductive, given the other one.
LEMMA StepHonest == IInv /\ HonestInv /\ [Next]_vars => HonestInv'
<1> SUFFICES ASSUME IInv, HonestInv, [Next]_vars PROVE HonestInv'
  OBVIOUS
<1>1. CASE UNCHANGED <<look, keyCache, truthful>>
  <2>1. SUFFICES ASSUME Honest PROVE HonestInv'
    BY <1>1 DEF HonestInv, Honest, WellSigned
  <2>2. \A m \in Lookups : OnTheWay(look'[m])
    BY <1>1, <2>1 DEF HonestInv
  <2>3. \A z \in Zones : keyCache'[z] = Absent \/ keyCache'[z].keys = Own[z]
    BY <1>1, <2>1 DEF HonestInv
  <2> QED
    BY <2>2, <2>3 DEF HonestInv, OnTheWay, OnTheWalk, TrueReferral, SignerOf, NextZone
<1>2. ASSUME NEW l \in Lookups, Asking(l) PROVE HonestInv'
  BY <1>2, ServerFailsHonest, GivesUpHonest, NoDataHonest, AnswerComesHonest,
     AliasComesHonest, ReferralComesHonest, TargetFoundHonest, TargetMissedHonest,
     NoAddressesHonest DEF Asking
<1>3. ASSUME NEW l \in Lookups, Establishing(l) PROVE HonestInv'
  BY <1>3, KeysCachedHonest, KeysMissingHonest, KeysExpiredHonest, DeleteKeysHonest,
     DSComesHonest, KeysComeHonest, UnreachableHonest DEF Establishing
<1> QED
  BY <1>1, <1>2, <1>3 DEF Next, Tick, vars

-----------------------------------------------------------------------------
(* The theorems *)

\* The inductive invariant of validated lookups (resolver.go:121-425).
THEOREM DnssecInvariant == Spec => []IInv
  BY InitIInv, StepIInv, PTL DEF Spec

\* Type correctness of the lookups and the key cache.
THEOREM DnssecTypeOK == Spec => []TypeOK
<1>1. IInv => TypeOK
  BY DEF IInv
<1> QED
  BY <1>1, DnssecInvariant, PTL

\* If chains begin at DS records that are as published and no published key has
\* signed what its owner does not publish, the keys stored for a zone are keys that
\* zone publishes, however the lookups interleave (dnssec.go:312-333,
\* resolver.go:225-252).
THEOREM DnssecKeysGenuine == Spec => []KeysGenuine
<1>1. IInv => KeysGenuine
  BY DEF IInv, KeysGenuine, Published, Trusted
<1> QED
  BY <1>1, DnssecInvariant, PTL

\* Under the same premises, what was taken with keys at hand is genuine, and so is
\* a plain answer that is called secure (resolver.go:155, 187, 207).  A reply put
\* together behind a CNAME that came without keys is not covered.
THEOREM DnssecVerified == Spec => []VerifiedIsGenuine
<1>1. IInv => VerifiedIsGenuine
  BY DEF IInv, VerifiedIsGenuine, Trusted
<1> QED
  BY <1>1, DnssecInvariant, PTL

\* When servers answer as published and every name has a signed zone at each of its
\* labels, no lookup is found invalid and answers from below the root are secure,
\* however the lookups interleave in the key cache (resolver.go:147-211, 306-425,
\* dnssec.go:312-333).
THEOREM DnssecTruthAccepted == Spec => []TruthAccepted
<1>1. HonestInv => TruthAccepted
  BY DEF HonestInv, Honest, OnTheWay, TruthAccepted
<1> QED
  BY <1>1, InitHonest, StepHonest, DnssecInvariant, PTL DEF Spec
=============================================================================
