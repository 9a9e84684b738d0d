--------------------------- MODULE IterativeProofs ---------------------------
(***************************************************************************)
(* What an iterative lookup returns, whatever the servers answer and how   *)
(* many there are: its state is well typed, NXDOMAIN is a denial of the    *)
(* name it arrived at, and name servers are given up only when neither     *)
(* address family has an address.  If each server's answer hangs together, *)
(* so does the answer that is put together from them.                      *)
(***************************************************************************)
EXTENDS Iterative, WellFoundedInduction, TLAPS

\* The first CNAME of an answer section exists and is one of its CNAMEs
\* (resolveAt, resolver.go:588-590).
LEMMA FirstCNAMEType ==
  ASSUME NEW answers \in Seq(RR), CNAMEs(answers) # {}
  PROVE  FirstCNAME(answers) \in RR /\ FirstCNAME(answers).type = "cname"
<1>1. CNAMEs(answers) \subseteq Nat
  BY DEF CNAMEs
<1>2. PICK i \in CNAMEs(answers) :
         \A j \in CNAMEs(answers) : <<j, i>> \notin OpToRel(<, Nat)
  BY <1>1, WFMin, NatLessThanWellFounded
<1>3. \A j \in CNAMEs(answers) : i <= j
  <2>1. SUFFICES ASSUME NEW j \in CNAMEs(answers), j < i PROVE FALSE
    BY <1>1
  <2>2. <<j, i>> \in OpToRel(<, Nat)
    BY <1>1, <2>1 DEF OpToRel
  <2> QED
    BY <1>2, <2>2
<1> DEFINE first == CHOOSE k \in CNAMEs(answers) : \A j \in CNAMEs(answers) : k <= j
<1>4. first \in CNAMEs(answers)
  BY <1>3
<1> HIDE DEF first
<1>5. first \in DOMAIN answers
  BY <1>4 DEF CNAMEs
<1>6. answers[first] \in RR /\ answers[first].type = "cname"
  BY <1>4, <1>5 DEF CNAMEs
<1> QED
  BY <1>6 DEF FirstCNAME, first

\* The texts of errors (resolver.go:569, 599, 636, 974).
LEMMA TextFacts ==
  /\ NoText \in Text /\ ~NoText.nx
  /\ \A name \in Names \cup NSNames, cause \in Text :
        /\ About(name, cause) \in Text
        /\ About(name, cause).nx = cause.nx
  /\ \A name \in Names : Missing(name) \in Text
  /\ \A text \in Text : /\ Error(text) \in [kind : {"msg", "error"}, answers : Seq(RR), text : Text]
                         /\ Error(text).text = text
BY DEF NoText, Text, About, Missing, Error

\* The name the lookup has arrived at is a name: links that do not parse are
\* never followed (resolver.go:590-593).
LEMMA ArrivedType ==
  ASSUME LookupTypeOK, Places
  PROVE  Arrived \in Names
<1>1. CASE links = <<>>
  BY <1>1, IterativeConstants DEF Arrived
<1>2. CASE links # <<>>
  BY <1>2 DEF Arrived, LookupTypeOK, Places, Last
<1> QED
  BY <1>1, <1>2

\* A new call of resolveAt leaves the lookup well typed, resolving the name it
\* was given, with no error yet (resolver.go:567-577).
LEMMA CallEffect ==
  ASSUME LookupTypeOK, NEW name \in Names, NEW servers \in SUBSET Servers,
         at.pc # "done", result.kind = "none",
         Call(name, at.depth + 1, servers)
  PROVE  /\ at' \in [pc : {"query", "done"}, name : Names, depth : 0 .. MaxDepth]
         /\ todo' \in SUBSET Servers
         /\ lastErr' \in Text
         /\ result' \in [kind : {"none", "error"}, answers : Seq(RR), text : Text]
         /\ at'.pc = "query" => /\ at'.name = name
                                /\ lastErr' = NoText
                                /\ result'.kind = "none"
         /\ result'.kind = "error" => ~result'.text.nx
<1>1. at.depth \in Nat /\ MaxDepth \in Nat
  BY IterativeConstants DEF LookupTypeOK
<1>2. CASE at.depth + 1 > MaxDepth
  <2>1. /\ result' = [kind |-> "error", answers |-> <<>>, text |-> About(name, NoText)]
        /\ at' = [at EXCEPT !.pc = "done"]
        /\ UNCHANGED <<todo, lastErr>>
    BY <1>2 DEF Call, Error
  <2>2. /\ result' \in [kind : {"none", "error"}, answers : Seq(RR), text : Text]
        /\ ~result'.text.nx
    BY <2>1, TextFacts
  <2>3. at' \in [pc : {"query", "done"}, name : Names, depth : 0 .. MaxDepth]
        /\ at'.pc = "done"
    BY <2>1 DEF LookupTypeOK
  <2> QED
    BY <2>1, <2>2, <2>3 DEF LookupTypeOK
<1>3. CASE ~(at.depth + 1 > MaxDepth)
  <2>1. at.depth + 1 \in 0 .. MaxDepth
    BY <1>1, <1>3
  <2> QED
    BY <1>3, <2>1, TextFacts DEF Call, LookupTypeOK
<1> QED
  BY <1>2, <1>3

\* A lookup starts well (resolver.go:567-577).
LEMMA InitIInv == LookupInit => LookupIInv
<1> SUFFICES ASSUME LookupInit PROVE LookupIInv
  OBVIOUS
<1>1. LookupTypeOK
  BY IterativeConstants, TextFacts DEF LookupInit, LookupTypeOK, NoResult, Off, Families
<1>2. Places /\ DenialOfName /\ DenialReturned
  BY TextFacts DEF LookupInit, Places, DenialOfName, DenialReturned, Arrived, NoResult
<1>3. \A n \in NSNames : Collecting(n)
  BY DEF LookupInit, Collecting, Families
<1> QED
  BY <1>1, <1>2, <1>3 DEF LookupIInv

\* The goroutines that look up name servers do not touch the calls
\* (resolver.go:925-979).
LEMMA GoroutineIInv ==
  ASSUME LookupIInv, UNCHANGED <<at, todo, lastErr, links, result, denied, empty>>,
         family' \in [NSNames -> [Families ->
                        [pc : {"off", "running", "sent", "taken"}, ips : SUBSET Servers]]],
         gather' \in [NSNames -> {"off", "first", "second", "done"}],
         found' \in [NSNames -> SUBSET Servers],
         \A n \in NSNames : Collecting(n)'
  PROVE  LookupIInv'
  BY DEF LookupIInv, LookupTypeOK, Places, DenialOfName, DenialReturned, Arrived

\* A result sent on a channel is not lost to the one who waits for it
\* (resolver.go:931-960).
LEMMA SendIInv ==
  ASSUME LookupIInv, NEW n \in NSNames, NEW f \in Families, NEW ips \in SUBSET Servers,
         Deliver(n, f, ips)
  PROVE  LookupIInv'
<1> DEFINE sent == [pc |-> "sent", ips |-> ips]
<1>1. /\ family' = [family EXCEPT ![n][f] = sent]
      /\ family[n][f] = Running
      /\ UNCHANGED <<at, todo, lastErr, links, result, gather, found, denied, empty>>
  BY DEF Deliver
<1>2. /\ family \in [NSNames -> [Families ->
                        [pc : {"off", "running", "sent", "taken"}, ips : SUBSET Servers]]]
      /\ gather \in [NSNames -> {"off", "first", "second", "done"}]
      /\ found \in [NSNames -> SUBSET Servers]
  BY DEF LookupIInv, LookupTypeOK
<1>3. family' \in [NSNames -> [Families ->
                        [pc : {"off", "running", "sent", "taken"}, ips : SUBSET Servers]]]
  BY <1>1, <1>2
<1>4. \A m \in NSNames, g \in Families :
         family'[m][g] = IF m = n /\ g = f THEN sent ELSE family[m][g]
  BY <1>1, <1>2
<1>5. ASSUME NEW m \in NSNames PROVE Collecting(m)'
  <2>1. Collecting(m)
    BY DEF LookupIInv
  <2>2. family[n][f] # Nothing /\ family[n][f] # Off
    BY <1>1 DEF Running, Nothing, Off
  <2> QED
    BY <1>1, <1>2, <1>4, <2>1, <2>2 DEF Collecting, Pending
<1> QED
  BY <1>1, <1>2, <1>3, <1>5, GoroutineIInv

\* The select keeps count of what it has read (resolver.go:962-977).
LEMMA ReceiveIInv ==
  ASSUME LookupIInv, NEW n \in NSNames, NEW f \in Families, Receive(n, f)
  PROVE  LookupIInv'
<1> DEFINE ips == family[n][f].ips
           taken == [pc |-> "taken", ips |-> ips]
<1>1. /\ gather[n] \in {"first", "second"}
      /\ family[n][f].pc = "sent"
      /\ family' = [family EXCEPT ![n][f].pc = "taken"]
      /\ UNCHANGED <<at, todo, lastErr, links, result, denied, empty>>
      /\ IF ips = {} /\ gather[n] = "first"
         THEN gather' = [gather EXCEPT ![n] = "second"] /\ UNCHANGED found
         ELSE /\ gather' = [gather EXCEPT ![n] = "done"]
              /\ found' = [found EXCEPT ![n] = ips]
  BY DEF Receive
<1>2. /\ family \in [NSNames -> [Families ->
                        [pc : {"off", "running", "sent", "taken"}, ips : SUBSET Servers]]]
      /\ gather \in [NSNames -> {"off", "first", "second", "done"}]
      /\ found \in [NSNames -> SUBSET Servers]
  BY DEF LookupIInv, LookupTypeOK
<1>3. ips \in SUBSET Servers
  BY <1>2
<1>4. family' = [family EXCEPT ![n] = [family[n] EXCEPT ![f] = taken]]
  <2>1. [family[n][f] EXCEPT !.pc = "taken"] = taken
    BY <1>2
  <2>2. family' = [family EXCEPT ![n] =
                      [family[n] EXCEPT ![f] = [family[n][f] EXCEPT !.pc = "taken"]]]
    BY <1>1, Zenon
  <2> QED
    BY <2>1, <2>2
<1>5. \A m \in NSNames, g \in Families :
         family'[m][g] = IF m = n /\ g = f THEN taken ELSE family[m][g]
  BY <1>2, <1>4
<1>6. family' \in [NSNames -> [Families ->
                        [pc : {"off", "running", "sent", "taken"}, ips : SUBSET Servers]]]
  BY <1>2, <1>3, <1>4
<1>7. /\ gather' \in [NSNames -> {"off", "first", "second", "done"}]
      /\ found' \in [NSNames -> SUBSET Servers]
  BY <1>1, <1>2, <1>3
<1>8. ASSUME NEW m \in NSNames PROVE Collecting(m)'
  <2>1. Collecting(m) /\ Collecting(n)
    BY DEF LookupIInv
  <2>2. CASE m # n
    <3>1. /\ gather'[m] = gather[m] /\ found'[m] = found[m]
          /\ \A g \in Families : family'[m][g] = family[m][g]
      BY <1>1, <1>2, <1>5, <2>2
    <3> QED
      BY <2>1, <3>1 DEF Collecting, Pending
  <2>3. CASE m = n /\ ips = {} /\ gather[n] = "first"
    <3>1. gather'[n] = "second"
      BY <1>1, <1>2, <2>3
    <3>2. family'[n][f] = Nothing
      BY <1>5, <2>3 DEF Nothing
    <3>3. \A g \in Families \ {f} : Pending(n, g)'
      BY <1>5, <2>1, <2>3 DEF Collecting, Pending
    <3> QED
      BY <2>3, <3>1, <3>2, <3>3 DEF Collecting
  <2>4. CASE m = n /\ ~(ips = {} /\ gather[n] = "first")
    <3>1. gather'[n] = "done" /\ found'[n] = ips
      BY <1>1, <1>2, <2>4
    <3>2. ASSUME ips = {} PROVE \A g \in Families : family'[n][g] = Nothing
      <4>1. gather[n] = "second"
        BY <1>1, <2>4, <3>2
      <4>2. PICK h \in Families : /\ family[n][h] = Nothing
                                 /\ \A g \in Families \ {h} : Pending(n, g)
        BY <2>1, <4>1 DEF Collecting
      <4>3. h # f
        BY <1>1, <4>2 DEF Nothing
      <4>4. \A g \in Families : g = f \/ g = h
        BY <4>3 DEF Families
      <4> QED
        BY <1>5, <3>2, <4>2, <4>3, <4>4 DEF Nothing
    <3> QED
      BY <2>4, <3>1, <3>2 DEF Collecting
  <2> QED
    BY <2>2, <2>3, <2>4
<1> QED
  BY <1>1, <1>6, <1>7, <1>8, GoroutineIInv

\* A call that returns keeps the invariant if its error, when it says NXDOMAIN,
\* is a denial of the name (resolver.go:595-609, 636).
LEMMA ReturnIInv ==
  ASSUME LookupIInv, NEW res \in [kind : {"msg", "error"}, answers : Seq(RR), text : Text],
         Return(res), UNCHANGED <<links, family, gather, found>>,
         denied' \in SUBSET Names, empty' \in SUBSET Names,
         res.text.nx => Arrived \in denied'
  PROVE  LookupIInv'
<1>1. /\ result' = res
      /\ at' = [at EXCEPT !.pc = "done"]
      /\ UNCHANGED <<todo, lastErr, links, family, gather, found>>
  BY DEF Return
<1>2. at' \in [pc : {"done"}, name : Names, depth : 0 .. MaxDepth]
  BY <1>1 DEF LookupIInv, LookupTypeOK
<1>3. LookupTypeOK'
  BY <1>1, <1>2 DEF LookupIInv, LookupTypeOK
<1>4. Places' /\ DenialOfName'
  BY <1>1, <1>2 DEF LookupIInv, Places, DenialOfName
<1>5. DenialReturned'
  BY <1>1 DEF DenialReturned, Arrived
<1>6. \A n \in NSNames : Collecting(n)'
  BY <1>1 DEF LookupIInv, Collecting, Pending
<1> QED
  BY <1>3, <1>4, <1>5, <1>6 DEF LookupIInv

\* A deeper call for the name the lookup has arrived at keeps the invariant
\* (resolver.go:605, 625, 633).
LEMMA CallIInv ==
  ASSUME LookupIInv, at.pc # "done", NEW servers \in SUBSET Servers,
         Call(Arrived, at.depth + 1, servers), UNCHANGED <<links, denied, empty>>,
         family' \in [NSNames -> [Families ->
                        [pc : {"off", "running", "sent", "taken"}, ips : SUBSET Servers]]],
         gather' \in [NSNames -> {"off", "first", "second", "done"}],
         found' \in [NSNames -> SUBSET Servers],
         \A n \in NSNames : Collecting(n)'
  PROVE  LookupIInv'
<1>1. LookupTypeOK /\ Places /\ result.kind = "none"
  BY DEF LookupIInv, Places
<1>2. Arrived \in Names
  BY <1>1, ArrivedType
<1>3. /\ at' \in [pc : {"query", "done"}, name : Names, depth : 0 .. MaxDepth]
      /\ todo' \in SUBSET Servers
      /\ lastErr' \in Text
      /\ result' \in [kind : {"none", "error"}, answers : Seq(RR), text : Text]
      /\ at'.pc = "query" => /\ at'.name = Arrived
                             /\ lastErr' = NoText
                             /\ result'.kind = "none"
      /\ result'.kind = "error" => ~result'.text.nx
  BY <1>1, <1>2, CallEffect
<1>4. Arrived' = Arrived
  BY DEF Arrived
<1>5. LookupTypeOK'
  BY <1>1, <1>3 DEF LookupTypeOK
<1>6. Places'
  BY <1>1, <1>3, <1>4 DEF Places
<1>7. DenialOfName'
  BY <1>3, TextFacts DEF DenialOfName
<1>8. DenialReturned'
  BY <1>3, <1>4 DEF DenialReturned, LookupIInv
<1> QED
  BY <1>5, <1>6, <1>7, <1>8 DEF LookupIInv

\* The server's reply ends the loop, or the next server is tried, or a name
\* is followed (resolver.go:577-634).
LEMMA ExchangeIInv ==
  ASSUME LookupIInv, NEW s \in Servers, NEW reply \in ReplyTo(at.name), Exchange(s, reply)
  PROVE  LookupIInv'
<1>1. /\ LookupTypeOK /\ Places /\ at.pc = "query" /\ s \in todo
      /\ at.name = Arrived /\ at.name \in Names /\ result.kind = "none"
  BY DEF LookupIInv, Exchange, QueryFails, NoData, Answer, Glue, NoGlue, Asking, LookupTypeOK, Places
<1>2. CASE QueryFails(s, reply)
  <2>0. lastErr' \in Text /\ (lastErr'.nx => reply.kind = "nxdomain")
    BY <1>1, <1>2, TextFacts DEF QueryFails
  <2>1. LookupTypeOK'
    BY <1>1, <1>2, <2>0 DEF QueryFails, LookupTypeOK
  <2>2. Places' /\ DenialOfName'
    BY <1>1, <1>2, <2>0 DEF QueryFails, Places, DenialOfName, Arrived
  <2>3. DenialReturned' /\ \A n \in NSNames : Collecting(n)'
    BY <1>1, <1>2 DEF QueryFails, DenialReturned, Arrived, LookupIInv, Collecting, Pending
  <2> QED
    BY <2>1, <2>2, <2>3 DEF LookupIInv
<1>3. CASE NoData(s, reply)
  <2>1. Returned(<<>>) \in [kind : {"msg", "error"}, answers : Seq(RR), text : Text]
        /\ ~Returned(<<>>).text.nx
    BY <1>1, TextFacts DEF Returned, LookupTypeOK
  <2>2. denied' \in SUBSET Names /\ empty' \in SUBSET Names
    BY <1>1, <1>3 DEF NoData, LookupTypeOK
  <2> QED
    BY <1>3, <2>1, <2>2, ReturnIInv DEF NoData
<1>4. CASE Answer(s, reply)
  <2> DEFINE answers == reply.answers
             rr == FirstCNAME(answers)
  <2>1. answers \in Seq(RR)
    BY <1>1, <1>4, IterativeConstants DEF Answer, ReplyTo
  <2>2. UNCHANGED <<family, gather, found, denied, empty>>
    BY <1>4 DEF Answer
  <2>3. denied' \in SUBSET Names /\ empty' \in SUBSET Names
    BY <1>1, <2>2 DEF LookupTypeOK
  <2>4. /\ Returned(answers) \in [kind : {"msg", "error"}, answers : Seq(RR), text : Text]
        /\ ~Returned(answers).text.nx
        /\ Error(NoText) \in [kind : {"msg", "error"}, answers : Seq(RR), text : Text]
        /\ ~Error(NoText).text.nx
    BY <1>1, <2>1, TextFacts DEF Returned, LookupTypeOK
  <2>5. CASE Return(Returned(answers)) /\ UNCHANGED links
    BY <2>2, <2>3, <2>4, <2>5, ReturnIInv
  <2>6. CASE Return(Error(NoText)) /\ UNCHANGED links
    BY <2>2, <2>3, <2>4, <2>6, ReturnIInv
  <2>7. CASE /\ CNAMEs(answers) # {} /\ rr.target # Unparsed
             /\ at' = [at EXCEPT !.pc = "negative"]
             /\ links' = Append(links, rr)
             /\ UNCHANGED <<todo, lastErr, result>>
    <3>1. rr \in RR
      BY <2>1, <2>7, FirstCNAMEType
    <3>2. rr.target \in Names
      BY <2>7, <3>1 DEF RR
    <3>3. at' \in [pc : {"negative"}, name : Names, depth : 0 .. MaxDepth]
      BY <1>1, <2>7 DEF LookupTypeOK
    <3>4. links' \in Seq(RR) /\ links' # <<>>
      BY <1>1, <2>7, <3>1 DEF LookupTypeOK
    <3>5. LookupTypeOK'
      BY <1>1, <2>2, <2>7, <3>3, <3>4 DEF LookupTypeOK
    <3>6. \A i \in DOMAIN links' : links'[i].target \in Names
      BY <1>1, <2>7, <3>1, <3>2 DEF LookupTypeOK, Places
    <3>7. Places' /\ DenialOfName' /\ DenialReturned'
      BY <1>1, <2>7, <3>3, <3>4, <3>6 DEF Places, DenialOfName, DenialReturned
    <3>8. \A n \in NSNames : Collecting(n)'
      BY <2>2 DEF LookupIInv, Collecting, Pending
    <3> QED
      BY <3>5, <3>7, <3>8 DEF LookupIInv
  <2> QED
    BY <1>4, <2>5, <2>6, <2>7 DEF Answer
<1>5. CASE Glue(s, reply)
  <2>1. reply.glue \in SUBSET Servers
    BY <1>5 DEF Glue, ReplyTo
  <2>2. Call(Arrived, at.depth + 1, reply.glue)
        /\ UNCHANGED <<links, family, gather, found, denied, empty>>
    BY <1>1, <1>5 DEF Glue
  <2>3. \A n \in NSNames : Collecting(n)'
    BY <2>2 DEF LookupIInv, Collecting, Pending
  <2> QED
    BY <1>1, <2>1, <2>2, <2>3, CallIInv DEF LookupTypeOK
<1>6. CASE NoGlue(s, reply)
  <2>1. /\ family' = [n \in NSNames |-> [f \in Families |->
                        IF n \in reply.ns THEN Running ELSE Off]]
        /\ gather' = [n \in NSNames |-> IF n \in reply.ns THEN "first" ELSE "off"]
        /\ found' = [n \in NSNames |-> {}]
        /\ at' = [at EXCEPT !.pc = "ns"]
        /\ todo' = todo \ {s}
        /\ UNCHANGED <<lastErr, links, result, denied, empty>>
    BY <1>6 DEF NoGlue
  <2>2. at' \in [pc : {"ns"}, name : Names, depth : 0 .. MaxDepth] /\ at'.name = at.name
    BY <1>1, <2>1 DEF LookupTypeOK
  <2>3. family' \in [NSNames -> [Families ->
                        [pc : {"off", "running", "sent", "taken"}, ips : SUBSET Servers]]]
    BY <2>1 DEF Running, Off
  <2>4. LookupTypeOK'
    BY <1>1, <2>1, <2>2, <2>3 DEF LookupTypeOK
  <2>5. Places' /\ DenialOfName' /\ DenialReturned'
    BY <1>1, <2>1, <2>2 DEF LookupIInv, Places, DenialOfName, DenialReturned, Arrived
  <2>6. \A n \in NSNames : Collecting(n)'
    BY <2>1 DEF Collecting, Pending, Running, Off
  <2> QED
    BY <2>4, <2>5, <2>6 DEF LookupIInv
<1> QED
  BY <1>2, <1>3, <1>4, <1>5, <1>6 DEF Exchange

\* What happens between a CNAME and the call for its target
\* (resolver.go:598-609), and after the last server (636).
LEMMA FollowIInv ==
  ASSUME LookupIInv,
         \/ AllFailed \/ TargetNegative \/ TargetNotNegative \/ TargetMissed
         \/ at.pc = "cache" /\ \E answers \in Cached[Arrived] : TargetCached(answers)
  PROVE  LookupIInv'
<1>1. LookupTypeOK /\ Places /\ Arrived \in Names
  BY ArrivedType DEF LookupIInv
<1>2. \A n \in NSNames : UNCHANGED <<family, gather, found>> => Collecting(n)'
  BY DEF LookupIInv, Collecting, Pending
<1>4. CASE AllFailed
  <2> DEFINE text == About(at.name, lastErr)
  <2>1. /\ at.pc = "query" /\ Return(Error(text))
        /\ UNCHANGED <<links, family, gather, found, denied, empty>>
    BY <1>4 DEF AllFailed
  <2>2. text \in Text /\ (text.nx => Arrived \in denied)
    BY <1>1, <2>1, TextFacts DEF LookupIInv, LookupTypeOK, Places, DenialOfName
  <2>3. denied' \in SUBSET Names /\ empty' \in SUBSET Names
    BY <1>1, <2>1 DEF LookupTypeOK
  <2> HIDE DEF text
  <2> QED
    BY <2>1, <2>2, <2>3, TextFacts, ReturnIInv
<1>5. CASE TargetNegative
  <2>1. /\ Return(Error(Missing(Arrived)))
        /\ denied' = denied \cup {Arrived}
        /\ UNCHANGED <<links, family, gather, found, empty>>
    BY <1>5 DEF TargetNegative
  <2>2. denied' \in SUBSET Names /\ empty' \in SUBSET Names
    BY <1>1, <2>1 DEF LookupTypeOK
  <2> QED
    BY <1>1, <2>1, <2>2, TextFacts, ReturnIInv
<1>6. CASE TargetNotNegative
  <2>1. /\ at.pc = "negative"
        /\ at' = [at EXCEPT !.pc = "cache"]
        /\ UNCHANGED <<todo, lastErr, links, result, family, gather, found, denied, empty>>
    BY <1>6 DEF TargetNotNegative
  <2>2. at' \in [pc : {"cache"}, name : Names, depth : 0 .. MaxDepth]
    BY <1>1, <2>1 DEF LookupTypeOK
  <2>3. LookupTypeOK'
    BY <1>1, <2>1, <2>2 DEF LookupTypeOK
  <2>4. Places' /\ DenialOfName' /\ DenialReturned'
    BY <1>1, <2>1, <2>2 DEF Places, DenialOfName, DenialReturned
  <2> QED
    BY <1>2, <2>1, <2>3, <2>4 DEF LookupIInv
<1>7. CASE TargetMissed
  <2>1. /\ at.pc = "cache" /\ Call(Arrived, at.depth + 1, Roots)
        /\ UNCHANGED <<links, family, gather, found, denied, empty>>
    BY <1>7 DEF TargetMissed
  <2>2. Roots \in SUBSET Servers
    BY IterativeConstants
  <2> QED
    BY <1>1, <1>2, <2>1, <2>2, CallIInv DEF LookupTypeOK
<1>8. ASSUME at.pc = "cache", NEW answers \in Cached[Arrived], TargetCached(answers)
      PROVE  LookupIInv'
  <2>1. answers \in Seq(RR) /\ answers # <<>>
    BY <1>1, IterativeConstants
  <2>2. Returned(answers) \in [kind : {"msg", "error"}, answers : Seq(RR), text : Text]
        /\ ~Returned(answers).text.nx
    BY <1>1, <2>1, TextFacts DEF Returned, LookupTypeOK
  <2>3. /\ Return(Returned(answers))
        /\ UNCHANGED <<links, family, gather, found, denied>>
        /\ empty' \in SUBSET Names
    BY <1>1, <1>8 DEF TargetCached, LookupTypeOK
  <2>4. denied' \in SUBSET Names
    BY <1>1, <2>3 DEF LookupTypeOK
  <2> QED
    BY <2>2, <2>3, <2>4, ReturnIInv
<1> QED
  BY <1>4, <1>5, <1>6, <1>7, <1>8

\* The goroutines of a referral are forgotten once their results are in: the
\* next server is tried, or a deeper call is made (resolver.go:628-633).
LEMMA GatheredIInv ==
  ASSUME LookupIInv, NoAddresses \/ Addresses
  PROVE  LookupIInv'
<1>1. /\ LookupTypeOK /\ Places /\ at.pc = "ns" /\ at.name = Arrived
  BY DEF LookupIInv, NoAddresses, Addresses, Gathered, Places
<1>2. ASSUME ForgetOthers
      PROVE  /\ family' \in [NSNames -> [Families ->
                    [pc : {"off", "running", "sent", "taken"}, ips : SUBSET Servers]]]
             /\ gather' \in [NSNames -> {"off", "first", "second", "done"}]
             /\ found' \in [NSNames -> SUBSET Servers]
             /\ \A n \in NSNames : Collecting(n)'
  BY <1>2 DEF ForgetOthers, Off, Collecting
<1>3. CASE NoAddresses
  <2>1. /\ at' = [at EXCEPT !.pc = "query"]
        /\ lastErr' \in Text /\ ~lastErr'.nx
        /\ ForgetOthers
        /\ UNCHANGED <<todo, links, result, denied, empty>>
    BY <1>3, TextFacts DEF NoAddresses
  <2>2. at' \in [pc : {"query"}, name : Names, depth : 0 .. MaxDepth] /\ at'.name = at.name
    BY <1>1, <2>1 DEF LookupTypeOK
  <2>3. LookupTypeOK'
    BY <1>1, <1>2, <2>1, <2>2 DEF LookupTypeOK
  <2>4. Places' /\ DenialOfName' /\ DenialReturned'
    BY <1>1, <2>1, <2>2 DEF LookupIInv, Places, DenialOfName, DenialReturned, Arrived
  <2> QED
    BY <1>2, <2>1, <2>3, <2>4 DEF LookupIInv
<1>4. CASE Addresses
  <2> DEFINE all == UNION Range(found)
  <2>1. /\ Call(Arrived, at.depth + 1, all)
        /\ ForgetOthers
        /\ UNCHANGED <<links, denied, empty>>
    BY <1>1, <1>4 DEF Addresses
  <2>2. all \in SUBSET Servers
    BY <1>1 DEF LookupTypeOK, Range
  <2> HIDE DEF all
  <2> QED
    BY <1>1, <1>2, <2>1, <2>2, CallIInv
<1> QED
  BY <1>3, <1>4

\* The inductive invariant of an iterative lookup: the running call resolves
\* the name the CNAMEs lead to, its last error is a denial of that name if it
\* says NXDOMAIN, and the goroutines' bookkeeping is right.
THEOREM IterativeInvariant == LookupSpec => []LookupIInv
<1>1. ASSUME LookupIInv, [LookupNext]_lookupVars PROVE LookupIInv'
  <2>1. ASSUME NEW s \in Servers, NEW reply \in ReplyTo(at.name), Exchange(s, reply)
        PROVE  LookupIInv'
    BY <1>1, <2>1, ExchangeIInv
  <2>2. ASSUME NEW n \in NSNames, NEW f \in Families, NEW ips \in SUBSET Servers,
               Deliver(n, f, ips)
        PROVE  LookupIInv'
    BY <1>1, <2>2, SendIInv
  <2>3. ASSUME NEW n \in NSNames, NEW f \in Families, Receive(n, f) PROVE LookupIInv'
    BY <1>1, <2>3, ReceiveIInv
  <2>4. CASE NoAddresses \/ Addresses
    BY <1>1, <2>4, GatheredIInv
  <2>5. CASE UNCHANGED lookupVars
    BY <1>1, <2>5 DEF lookupVars, LookupIInv, LookupTypeOK, Places, DenialOfName, DenialReturned,
       Arrived, Collecting, Pending
  <2> QED
    BY <1>1, <2>1, <2>2, <2>3, <2>4, <2>5, FollowIInv DEF LookupNext
<1> QED
  BY <1>1, InitIInv, PTL DEF LookupSpec

\* Type correctness of an iterative lookup.
THEOREM IterativeTypeOK == LookupSpec => []LookupTypeOK
<1>1. LookupIInv => LookupTypeOK
  BY DEF LookupIInv
<1> QED
  BY <1>1, IterativeInvariant, PTL

\* The question goes into the negative cache for a denial of the name that the
\* lookup had arrived at, or for a name in the text of the error that is spelled
\* with NXDOMAIN (resolver.go:105-108, 569, 579-599, 636, 974-996).
THEOREM IterativeNXDomain == LookupSpec => []NXDomainJustified
<1>1. LookupIInv => NXDomainJustified
  BY DEF LookupIInv, DenialReturned, NXDomainJustified, CachedAsMissing, ReadsNXDOMAIN
<1> QED
  BY <1>1, IterativeInvariant, PTL

\* No goroutine hides an address that the other family of its name server has
\* found (resolver.go:962-977).
THEOREM IterativeGivesUp == LookupSpec => GivesUpWithoutAddressOnly
<1>1. ASSUME LookupIInv, NoAddresses, NEW n \in NSNames, NEW f \in Families
      PROVE  family[n][f] = Off \/ family[n][f] = [pc |-> "taken", ips |-> {}]
  <2>1. Collecting(n) /\ gather[n] \in {"off", "done"} /\ UNION Range(found) = {}
    BY <1>1 DEF LookupIInv, NoAddresses, Gathered
  <2>2. found \in [NSNames -> SUBSET Servers]
    BY <1>1 DEF LookupIInv, LookupTypeOK
  <2>3. found[n] \in Range(found)
    BY <2>2 DEF Range
  <2>4. found[n] = {}
    BY <2>1, <2>3
  <2> QED
    BY <2>1, <2>4 DEF Collecting, Nothing
<1> DEFINE P == NoAddresses => \A n \in NSNames, f \in Families :
                  family[n][f] = Off \/ family[n][f] = [pc |-> "taken", ips |-> {}]
<1>2. LookupIInv /\ [LookupNext]_lookupVars => [P]_lookupVars
  BY <1>1
<1> QED
  BY <1>2, IterativeInvariant, PTL DEF LookupSpec, GivesUpWithoutAddressOnly

-----------------------------------------------------------------------------
(* The chain of an answer *)

\* Two chains, the second from where the first leads to, are one.
LEMMA ChainConcat ==
  ASSUME NEW from \in Names, NEW a \in Seq(RR), NEW b \in Seq(RR),
         InChain(from, a), InChain(Leads(from, a), b)
  PROVE  /\ InChain(from, a \o b)
         /\ Leads(from, a \o b) = Leads(Leads(from, a), b)
         /\ b # <<>> => a \o b # <<>> /\ Last(a \o b) = Last(b)
<1> DEFINE c == a \o b
<1>1. /\ Len(a) \in Nat /\ Len(b) \in Nat /\ Len(c) = Len(a) + Len(b)
      /\ DOMAIN a = 1 .. Len(a) /\ DOMAIN b = 1 .. Len(b) /\ DOMAIN c = 1 .. Len(c)
  OBVIOUS
<1>2. /\ \A i \in 1 .. Len(a) : c[i] = a[i]
      /\ \A i \in 1 .. Len(b) : c[Len(a) + i] = b[i]
  OBVIOUS
<1>3. b # <<>> => c # <<>> /\ Last(c) = Last(b)
  BY <1>1, <1>2 DEF Last
<1>4. b = <<>> => c = a
  OBVIOUS
<1>5. a = <<>> => c = b
  OBVIOUS
<1>6. ASSUME NEW i \in 1 .. Len(c)
      PROVE  c[i].owner = IF i = 1 THEN from ELSE After(c[i - 1])
  <2>1. CASE i <= Len(a)
    <3>1. i \in 1 .. Len(a) /\ (i # 1 => i - 1 \in 1 .. Len(a))
      BY <1>1, <2>1
    <3>2. c[i] = a[i] /\ (i # 1 => c[i - 1] = a[i - 1])
      BY <1>2, <3>1
    <3>3. a[i].owner = IF i = 1 THEN from ELSE After(a[i - 1])
      BY <1>1, <3>1 DEF InChain
    <3> QED
      BY <3>2, <3>3
  <2>2. CASE i > Len(a)
    <3>1. PICK j \in 1 .. Len(b) : i = Len(a) + j
      <4>1. i - Len(a) \in 1 .. Len(b) /\ i = Len(a) + (i - Len(a))
        BY <1>1, <2>2
      <4> QED
        BY <4>1
    <3>2. c[i] = b[j]
      BY <1>2, <3>1
    <3>3. b[j].owner = IF j = 1 THEN Leads(from, a) ELSE After(b[j - 1])
      BY <1>1 DEF InChain
    <3>4. CASE j = 1 /\ a = <<>>
      BY <1>1, <3>1, <3>2, <3>3, <3>4 DEF Leads
    <3>5. CASE j = 1 /\ a # <<>>
      <4>1. Len(a) \in 1 .. Len(a) /\ i # 1 /\ i - 1 = Len(a)
        BY <1>1, <3>1, <3>5
      <4>2. c[i - 1] = Last(a)
        BY <1>2, <4>1 DEF Last
      <4> QED
        BY <3>2, <3>3, <3>5, <4>1, <4>2 DEF Leads
    <3>6. CASE j # 1
      <4>1. j - 1 \in 1 .. Len(b) /\ i # 1 /\ i - 1 = Len(a) + (j - 1)
        BY <1>1, <3>1, <3>6
      <4>2. c[i - 1] = b[j - 1]
        BY <1>2, <4>1
      <4> QED
        BY <3>2, <3>3, <3>6, <4>1, <4>2
    <3> QED
      BY <3>4, <3>5, <3>6
  <2> QED
    BY <1>1, <2>1, <2>2
<1>7. InChain(from, c)
  BY <1>1, <1>6 DEF InChain
<1> HIDE DEF c
<1>8. Leads(from, c) = Leads(Leads(from, a), b)
  BY <1>3, <1>4 DEF Leads
<1> QED
  BY <1>3, <1>7, <1>8 DEF c

\* The name the lookup has arrived at is the one the links lead to.
LEMMA ArrivedIsLed ==
  ASSUME LookupTypeOK, \A i \in DOMAIN links : links[i].type = "cname"
  PROVE  Arrived = Leads(Question, links)
<1>1. links # <<>> => Len(links) \in DOMAIN links
  BY DEF LookupTypeOK
<1> QED
  BY <1>1 DEF Arrived, Leads, After, Last

\* An answer without a CNAME ends in a record of the type asked for.
LEMMA PlainAnswer ==
  ASSUME NEW a \in Seq(RR), a # <<>>, CNAMEs(a) = {}
  PROVE  Last(a).type = "asked"
<1>1. Len(a) \in DOMAIN a /\ a[Len(a)] \in RR
  OBVIOUS
<1>2. a[Len(a)].type # "cname"
  BY <1>1 DEF CNAMEs
<1> QED
  BY <1>1, <1>2 DEF RR, Last

\* prependCNAME by every call that returns puts a chain in front of a chain
\* (resolver.go:595-609, 875-884).
LEMMA ReturnInChain ==
  ASSUME LookupTypeOK, LinksInChain, AnswersInOrder, NEW a \in Seq(RR),
         Return(Returned(a)), InChain(Arrived, a),
         (a # <<>> /\ Last(a).type = "asked") \/ Leads(Arrived, a) \in empty'
  PROVE  AnswerFollowsChain'
<1>1. /\ links \in Seq(RR) /\ Question \in Names
      /\ InChain(Question, links) /\ Arrived = Leads(Question, links)
  BY ArrivedIsLed, IterativeConstants DEF LookupTypeOK, LinksInChain
<1>2. /\ InChain(Question, links \o a)
      /\ Leads(Question, links \o a) = Leads(Arrived, a)
      /\ a # <<>> => links \o a # <<>> /\ Last(links \o a) = Last(a)
  BY <1>1, ChainConcat
<1>3. result'.answers = links \o a
  BY DEF Return, Returned
<1> QED
  BY <1>2, <1>3 DEF AnswerFollowsChain

\* A call that ends in an error, or does not end, returns no answer.
LEMMA NoAnswer == ASSUME result'.kind # "msg" PROVE AnswerFollowsChain'
  BY DEF AnswerFollowsChain

\* Every reply of a server keeps links and answer in their order
\* (resolver.go:577-634).
LEMMA ExchangeInChain ==
  ASSUME LookupIInv, LinksInChain, AnswersInOrder, NEW s \in Servers,
         NEW reply \in ReplyTo(at.name), Exchange(s, reply)
  PROVE  LinksInChain' /\ AnswerFollowsChain'
<1>1. /\ LookupTypeOK /\ Places /\ at.pc = "query" /\ result.kind = "none"
      /\ at.name = Arrived /\ Arrived \in Names
  BY ArrivedType DEF LookupIInv, Exchange, QueryFails, NoData, Answer, Glue, NoGlue, Asking, Places
<1>2. CASE NoData(s, reply)
  <2>1. /\ Return(Returned(<<>>)) /\ UNCHANGED links
        /\ Arrived \in empty'
    BY <1>1, <1>2 DEF NoData
  <2>2. <<>> \in Seq(RR) /\ InChain(Arrived, <<>>) /\ Leads(Arrived, <<>>) = Arrived
    BY DEF InChain, Leads
  <2>3. Leads(Arrived, <<>>) \in empty'
    BY <2>1, <2>2
  <2>4. AnswerFollowsChain'
    BY <1>1, <2>1, <2>2, <2>3, ReturnInChain
  <2> QED
    BY <2>1, <2>4 DEF LinksInChain
<1>3. CASE Answer(s, reply)
  <2> DEFINE answers == reply.answers
             rr == FirstCNAME(answers)
  <2>1. answers \in Answers[Arrived] /\ answers \in Seq(RR) /\ answers # <<>>
    BY <1>1, <1>3, IterativeConstants DEF Answer, ReplyTo
  <2>2. InOrder(Arrived, answers) /\ ~AskCNAME
    BY <1>1, <2>1 DEF AnswersInOrder
  <2> HIDE DEF answers
  <2>3. CASE CNAMEs(answers) = {}
    <3>1. Return(Returned(answers)) /\ UNCHANGED links
      BY <1>3, <2>3 DEF Answer, answers
    <3>2. InChain(Arrived, answers) /\ Last(answers).type = "asked"
      BY <2>1, <2>2, <2>3, PlainAnswer DEF InOrder
    <3>3. AnswerFollowsChain'
      BY <1>1, <2>1, <3>1, <3>2, ReturnInChain
    <3> QED
      BY <3>1, <3>3 DEF LinksInChain
  <2>4. CASE CNAMEs(answers) # {} /\ rr.target = Unparsed
    <3>1. result'.kind = "error" /\ UNCHANGED links
      BY <1>3, <2>2, <2>4 DEF Answer, answers, Return, Error
    <3> QED
      BY <3>1, NoAnswer DEF LinksInChain
  <2>5. CASE CNAMEs(answers) # {} /\ rr.target # Unparsed /\ hasTerminalRecords(answers, rr.target)
    <3>1. Return(Returned(answers)) /\ UNCHANGED links
      BY <1>3, <2>2, <2>5 DEF Answer, answers
    <3>2. InChain(Arrived, answers) /\ Last(answers).type = "asked"
      BY <2>2, <2>5 DEF InOrder, hasTerminalRecords
    <3>3. AnswerFollowsChain'
      BY <1>1, <2>1, <3>1, <3>2, ReturnInChain
    <3> QED
      BY <3>1, <3>3 DEF LinksInChain
  <2>6. CASE CNAMEs(answers) # {} /\ rr.target # Unparsed /\ ~hasTerminalRecords(answers, rr.target)
    <3>1. links' = Append(links, rr) /\ UNCHANGED result
      BY <1>3, <2>2, <2>6 DEF Answer, answers
    <3>2. rr \in RR /\ rr.owner = Arrived /\ rr.type = "cname"
      BY <2>1, <2>2, <2>6, FirstCNAMEType DEF InOrder
    <3>3. /\ links \in Seq(RR) /\ Question \in Names
          /\ InChain(Question, links) /\ Arrived = Leads(Question, links)
          /\ \A i \in DOMAIN links : links[i].type = "cname"
      BY <1>1, ArrivedIsLed, IterativeConstants DEF LookupTypeOK, LinksInChain
    <3>4. <<rr>> \in Seq(RR) /\ InChain(Leads(Question, links), <<rr>>)
      BY <3>2, <3>3 DEF InChain
    <3> HIDE DEF rr
    <3>5. InChain(Question, links \o <<rr>>)
      BY <3>3, <3>4, ChainConcat
    <3>6. links' = links \o <<rr>>
      BY <3>1, <3>2, <3>3
    <3>7. \A i \in DOMAIN links' : links'[i].type = "cname"
      BY <3>1, <3>2, <3>3
    <3>8. LinksInChain'
      BY <3>5, <3>6, <3>7 DEF LinksInChain
    <3> QED
      BY <1>1, <3>1, <3>8, NoAnswer
  <2> QED
    BY <2>3, <2>4, <2>5, <2>6
<1>4. CASE QueryFails(s, reply) \/ Glue(s, reply) \/ NoGlue(s, reply)
  <2>1. result'.kind # "msg" /\ UNCHANGED links
    BY <1>1, <1>4 DEF QueryFails, Glue, NoGlue, Call, Error
  <2> QED
    BY <2>1, NoAnswer DEF LinksInChain
<1> QED
  BY <1>2, <1>3, <1>4 DEF Exchange

\* The answer of a lookup hangs together from the question to its last record,
\* for any number of servers and aliases, if every server's answer and every
\* cached one does (resolver.go:586-613, 866-884).
THEOREM IterativeAnswerFollowsChain == LookupSpec => []AnswerFollowsChain
<1> DEFINE Chained == LinksInChain /\ AnswerFollowsChain
<1>1. LookupInit => Chained
  BY DEF LookupInit, NoResult, LinksInChain, InChain, AnswerFollowsChain
<1>2. ASSUME LookupIInv, Chained, [LookupNext]_lookupVars PROVE Chained'
  <2>1. CASE ~AnswersInOrder
    BY <2>1 DEF LinksInChain, AnswerFollowsChain
  <2>2. CASE AnswersInOrder
    <3>1. LookupTypeOK /\ Places
      BY <1>2 DEF LookupIInv
    <3>2. ASSUME NEW s \in Servers, NEW reply \in ReplyTo(at.name), Exchange(s, reply)
          PROVE  Chained'
      BY <1>2, <2>2, <3>2, ExchangeInChain
    <3>3. CASE AllFailed \/ TargetNegative \/ TargetMissed \/ TargetNotNegative
               \/ NoAddresses \/ Addresses
      <4>1. result.kind = "none"
        BY <3>1, <3>3 DEF Places, AllFailed, TargetNegative, TargetMissed, TargetNotNegative,
           NoAddresses, Addresses, Gathered
      <4>2. result'.kind # "msg" /\ UNCHANGED links
        BY <3>3, <4>1 DEF AllFailed, TargetNegative, TargetMissed, TargetNotNegative,
           NoAddresses, Addresses, Call, Return, Error
      <4> QED
        BY <1>2, <4>2, NoAnswer DEF LinksInChain
    <3>4. ASSUME at.pc = "cache", NEW answers \in Cached[Arrived], TargetCached(answers)
          PROVE  Chained'
      <4>1. Arrived \in Names
        BY <3>1, ArrivedType
      <4>2. answers \in Seq(RR) /\ answers # <<>>
        BY <4>1, IterativeConstants
      <4>3. /\ InChain(Arrived, answers)
            /\ Last(answers).type = "asked" \/ After(Last(answers)) \in Names
        BY <2>2, <4>1 DEF AnswersInOrder
      <4>4. Last(answers) \in RR
        BY <4>2 DEF Last
      <4>5. Last(answers).type = "asked" \/ Leads(Arrived, answers) \in empty'
        BY <3>4, <4>2, <4>3, <4>4 DEF TargetCached, Leads, After, RR
      <4>6. Return(Returned(answers)) /\ UNCHANGED links
        BY <3>4 DEF TargetCached
      <4>7. AnswerFollowsChain'
        BY <1>2, <2>2, <3>1, <4>2, <4>3, <4>5, <4>6, ReturnInChain
      <4> QED
        BY <1>2, <4>6, <4>7 DEF LinksInChain
    <3>5. CASE UNCHANGED <<links, result, empty>>
      BY <1>2, <3>5 DEF LinksInChain, AnswerFollowsChain
    <3> QED
      BY <1>2, <3>2, <3>3, <3>4, <3>5 DEF LookupNext, lookupVars, Deliver, Receive
  <2> QED
    BY <2>1, <2>2
<1>3. Chained => AnswerFollowsChain
  OBVIOUS
<1> QED
  BY <1>1, <1>2, <1>3, IterativeInvariant, PTL DEF LookupSpec
=============================================================================
