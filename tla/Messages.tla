------------------------------ MODULE Messages ------------------------------
(***************************************************************************)
(* DNS messages on their way through the resolver: parsed from what        *)
(* upstream sent, put together along a chain of aliases, and packed again  *)
(* for the client (internal/dns/message.go, internal/server/resolver.go).  *)
(*                                                                         *)
(* A packet is a sequence of cells.  A cell stands for the bytes that the  *)
(* code reads or writes together: the header, one label, a compression     *)
(* pointer, the zero byte that ends a name, the fixed fields of a question *)
(* or of a record, or opaque data.  An offset in the packet is the         *)
(* position of a cell; the header is at position 1, and 0 stands for no    *)
(* position.  Labels hold no dots.  Classes, TTLs, IDs and flags pass      *)
(* through unchanged and are left out.                                     *)
(***************************************************************************)
EXTENDS Integers, Sequences, FiniteSets, SequencesExt

CONSTANTS
    Labels,      \* the labels of names
    Lower,       \* strings.ToLower, label by label
    MaxPointer,  \* the largest offset a pointer can hold (0x3FFF in the code)
    MaxDepth,    \* aliases that are followed before a lookup is given up
    Questions,   \* the questions clients ask
    Packets,     \* what may come from upstream
    NoMessage

\* What a packet is made of; "bad" are reserved label types and labels, pointers
\* and fields that are cut off.
Cells ==
    [k : {"header"}, counts : [1 .. 4 -> Nat]]
    \cup [k : {"label"}, label : Labels]
    \cup [k : {"pointer"}, to : Nat]
    \cup [k : {"question"}, type : STRING]
    \cup [k : {"fixed"}, type : STRING, rdlen : Nat]
    \cup [k : {"opaque"}, v : Nat]
    \cup [k : {"end", "bad"}]

ASSUME MessageConstants ==
    /\ Lower \in [Labels -> Labels]
    /\ \A l \in Labels : Lower[Lower[l]] = Lower[l]
    /\ MaxPointer \in Nat
    /\ MaxDepth \in Nat
    /\ \A q \in Questions : q.name \in Seq(Labels) /\ q.type \in STRING
    /\ \A p \in Packets : p \in Seq(Cells) /\ p # <<>> /\ p[1].k = "header"

VARIABLES
    question,   \* what the client asked
    forwarded,  \* a forwarder is asked, which follows aliases itself
    packet,     \* the last packet from upstream
    accepted,   \* ghost: the packets that what is held was made from
    held,       \* the message in hand
    aliases,    \* the records to be put in front, and the messages they are in
    returning,  \* resolveAt is on its way back to the client
    sent        \* the reply to the client

messagesVars == <<question, forwarded, packet, accepted, held, aliases, returning, sent>>

-----------------------------------------------------------------------------
(* Cells *)

Header(counts) == [k |-> "header", counts |-> counts]

Label(l) == [k |-> "label", label |-> l]

End == [k |-> "end"]

\* Two bytes, of which 14 bits are the offset.
Pointer(to) == [k |-> "pointer", to |-> to % (MaxPointer + 1)]

FixedQuestion(type) == [k |-> "question", type |-> type]

Fixed(type, rdlen) == [k |-> "fixed", type |-> type, rdlen |-> rdlen]

Opaque(v) == [k |-> "opaque", v |-> v]

IsCell(buf, at, kind) == at \in DOMAIN buf /\ buf[at].k = kind

\* strings.ToLower and strings.EqualFold
Folded(name) == [i \in DOMAIN name |-> Lower[name[i]]]

-----------------------------------------------------------------------------
(* ParseMessage *)

\* The first cell from `at' on that is no label.
Stop(buf, at) ==
    Min({i \in DOMAIN buf : i >= at /\ buf[i].k # "label"} \cup {Len(buf) + 1})

Labelled(buf, at) == [i \in 1 .. Stop(buf, at) - at |-> buf[at + i - 1].label]

\* Mutant of ParseTurn: pointers are followed wherever they lead.
ParseTurnUnchecked(buf, p) ==
    LET stop == Stop(buf, p.at)
        read == [p EXCEPT !.name = @ \o Labelled(buf, p.at),
                          !.end = IF @ = 0 THEN stop + 1 ELSE @]
    IN  CASE IsCell(buf, stop, "end") -> [read EXCEPT !.st = "done"]
          [] IsCell(buf, stop, "pointer") -> [read EXCEPT !.at = buf[stop].to]
          [] OTHER -> [p EXCEPT !.st = "error"]

\* Mutant of ParseTurn: what follows a name follows its last pointer.
ParseTurnLastEnd(buf, p) ==
    LET stop == Stop(buf, p.at)
        read == [p EXCEPT !.name = @ \o Labelled(buf, p.at),
                          !.end = IF @ = 0 \/ IsCell(buf, stop, "pointer")
                                  THEN stop + 1 ELSE @]
    IN  CASE IsCell(buf, stop, "end") -> [read EXCEPT !.st = "done"]
          [] IsCell(buf, stop, "pointer") /\ buf[stop].to \notin p.visited ->
                [read EXCEPT !.at = buf[stop].to, !.visited = @ \cup {buf[stop].to}]
          [] OTHER -> [p EXCEPT !.st = "error"]

\* The turns of the loop of parseName up to the next pointer or the end.  A
\* name ends, for what follows it, after its first pointer.  A pointer that was
\* followed before, a reserved label type, a truncated label or pointer and the
\* end of the buffer are errors.
ParseTurn(buf, p) ==
    LET stop == Stop(buf, p.at)
        read == [p EXCEPT !.name = @ \o Labelled(buf, p.at),
                          !.end = IF @ = 0 THEN stop + 1 ELSE @]
    IN  CASE IsCell(buf, stop, "end") -> [read EXCEPT !.st = "done"]
          [] IsCell(buf, stop, "pointer") /\ buf[stop].to \notin p.visited ->
                [read EXCEPT !.at = buf[stop].to, !.visited = @ \cup {buf[stop].to}]
          [] OTHER -> [p EXCEPT !.st = "error"]

\* Pointers lead to at most Len(buf) places inside the packet.
Turns(buf) == Len(buf) + 2

\* What parseName has found after each turn from `offset' on.
ParseTurns(buf, offset) ==
    LET Turn[n \in 0 .. Turns(buf)] ==
            IF n = 0
            THEN [st |-> "reading", at |-> offset, name |-> <<>>, visited |-> {},
                  end |-> 0]
            ELSE LET p == Turn[n - 1]
                 IN  IF p.st = "reading" THEN ParseTurn(buf, p) ELSE p
    IN  Turn

parseName(buf, offset) == ParseTurns(buf, offset)[Turns(buf)]

\* What has been parsed of a packet: whether it could be, and where it ends.
Upto(ok, items, at) == [ok |-> ok, items |-> items, at |-> at]

parseQuestion(buf, before) ==
    LET n == parseName(buf, before.at) IN
    IF before.ok /\ n.st = "done" /\ IsCell(buf, n.end, "question")
    THEN Upto(TRUE, Append(before.items, [name |-> n.name, type |-> buf[n.end].type]),
              n.end + 1)
    ELSE Upto(FALSE, before.items, before.at)

QuestionsUpto(buf, count) ==
    LET Parsed[i \in 0 .. count] ==
            IF i = 0 THEN Upto(TRUE, <<>>, 2) ELSE parseQuestion(buf, Parsed[i - 1])
    IN  Parsed

parseQuestions(buf, count) == QuestionsUpto(buf, count)[count]

parseRR(buf, before) ==
    LET n == parseName(buf, before.at) IN
    IF /\ before.ok /\ n.st = "done" /\ IsCell(buf, n.end, "fixed")
       /\ n.end + buf[n.end].rdlen <= Len(buf)
    THEN LET last == n.end + buf[n.end].rdlen
             rr == [name |-> n.name, type |-> buf[n.end].type,
                    data |-> SubSeq(buf, n.end + 1, last), offset |-> n.end + 1]
         IN  Upto(TRUE, Append(before.items, rr), last + 1)
    ELSE Upto(FALSE, before.items, before.at)

RRsUpto(buf, before, count) ==
    LET Parsed[i \in 0 .. count] ==
            IF i = 0 THEN Upto(before.ok, <<>>, before.at) ELSE parseRR(buf, Parsed[i - 1])
    IN  Parsed

parseRRs(buf, before, count) == RRsUpto(buf, before, count)[count]

\* The sections are the answers, the authority and the additional records.
ParseMessage(buf) ==
    LET counts == buf[1].counts
        qd == parseQuestions(buf, counts[1])
        an == parseRRs(buf, qd, counts[2])
        ns == parseRRs(buf, an, counts[3])
        ar == parseRRs(buf, ns, counts[4])
    IN  [ok |-> ar.ok, questions |-> qd.items,
         sections |-> <<an.items, ns.items, ar.items>>, raw |-> buf]

\* A parsed packet is a message.
ASSUME NoMessageIsNone == \A p \in Packets : ParseMessage(p) # NoMessage

-----------------------------------------------------------------------------
(* Pack *)

\* Types whose data is a name, and those in front of it in data of type MX.
NameTypes == {"NS", "CNAME", "PTR"}

NameAfter(type) == IF type = "MX" THEN 1 ELSE 0

packName(name) == [i \in DOMAIN name |-> Label(name[i])] \o <<End>>

\* The name in data that is not compressed, if that is what the data is.
parseUncompressedName(data) ==
    LET ends == {i \in DOMAIN data :
                    /\ data[i].k = "end"
                    /\ \A j \in 1 .. i - 1 : data[j].k = "label"}
    IN  IF ends = {} THEN [ok |-> FALSE, name |-> <<>>]
        ELSE [ok |-> TRUE,
              name |-> [j \in 1 .. (CHOOSE i \in ends : TRUE) - 1 |-> data[j].label]]

\* What has been written of a reply, and the table of the names in it.
Built(buf, names) == [buf |-> buf, names |-> names]

\* Mutant of packCompressedName: where a name is is remembered without a limit.
packCompressedNameUnlimited(acc, name) ==
    LET n == Len(name)
        Suffix(i) == Folded(SubSeq(name, i, n))
        known == {i \in 1 .. n : Suffix(i) \in DOMAIN acc.names}
        cut == IF known = {} THEN n + 1 ELSE Min(known)
        At(i) == Len(acc.buf) + i
        new == {i \in 1 .. cut - 1 : TRUE}
    IN  Built(acc.buf \o [i \in 1 .. cut - 1 |-> Label(name[i])]
                  \o <<IF known = {} THEN End ELSE Pointer(acc.names[Suffix(cut)])>>,
              [s \in {Suffix(i) : i \in new} \cup DOMAIN acc.names |->
                  IF \E i \in new : Suffix(i) = s
                  THEN At(CHOOSE i \in new : Suffix(i) = s)
                  ELSE acc.names[s]])

\* Writes a name up to the first suffix that was written before, in any case,
\* and remembers where its own suffixes are, as far as a pointer can reach.
packCompressedName(acc, name) ==
    LET n == Len(name)
        Suffix(i) == Folded(SubSeq(name, i, n))
        known == {i \in 1 .. n : /\ Suffix(i) \in DOMAIN acc.names
                                 /\ acc.names[Suffix(i)] <= MaxPointer}
        cut == IF known = {} THEN n + 1 ELSE Min(known)
        At(i) == Len(acc.buf) + i
        new == {i \in 1 .. cut - 1 : At(i) <= MaxPointer}
    IN  Built(acc.buf \o [i \in 1 .. cut - 1 |-> Label(name[i])]
                  \o <<IF known = {} THEN End ELSE Pointer(acc.names[Suffix(cut)])>>,
              [s \in {Suffix(i) : i \in new} \cup DOMAIN acc.names |->
                  IF \E i \in new : Suffix(i) = s
                  THEN At(CHOOSE i \in new : Suffix(i) = s)
                  ELSE acc.names[s]])

\* The name in a record's data: read in the packet the record came in, if it is
\* still known, or else from the data alone.
rdataName(rr, raw) ==
    LET off == rr.offset + NameAfter(rr.type)
        inPlace == parseName(raw, off)
    IN  IF off > 1 /\ off <= Len(raw) /\ inPlace.st = "done"
        THEN [ok |-> TRUE, name |-> inPlace.name]
        ELSE IF Len(rr.data) < NameAfter(rr.type) THEN [ok |-> FALSE, name |-> <<>>]
        ELSE parseUncompressedName(SubSeq(rr.data, 1 + NameAfter(rr.type), Len(rr.data)))

\* Data of other types is copied as it is.
appendRdata(acc, rr, raw) ==
    LET name == rdataName(rr, raw)
        pref == IF rr.type # "MX" THEN <<>>
                ELSE IF rr.data # <<>> THEN <<rr.data[1]>> ELSE <<Opaque(0)>>
        front == Built(acc.buf \o pref, acc.names)
    IN  IF rr.type \in NameTypes \cup {"MX"} /\ name.ok
        THEN packCompressedName(front, name.name)
        ELSE Built(front.buf \o rr.data, front.names)

\* The length of the data is filled in when the data has been written.
packRR(acc, rr, raw) ==
    LET owner == packCompressedName(acc, rr.name)
        fixed == Len(owner.buf) + 1
        head == Built(Append(owner.buf, Fixed(rr.type, 0)), owner.names)
        whole == appendRdata(head, rr, raw)
    IN  Built([whole.buf EXCEPT ![fixed] = Fixed(rr.type, Len(whole.buf) - fixed)],
              whole.names)

packQuestion(acc, q) ==
    LET name == packCompressedName(acc, q.name)
    IN  Built(Append(name.buf, FixedQuestion(q.type)), name.names)

Unwritten(m) ==
    Built(<<Header(<<Len(m.questions), Len(m.sections[1]), Len(m.sections[2]),
                     Len(m.sections[3])>>)>>, <<>>)

AskedUpto(m) ==
    LET Packed[i \in 0 .. Len(m.questions)] ==
            IF i = 0 THEN Unwritten(m) ELSE packQuestion(Packed[i - 1], m.questions[i])
    IN  Packed

\* The records of all sections, one after the other.
AllRRs(m) == m.sections[1] \o m.sections[2] \o m.sections[3]

PackedUpto(m) ==
    LET Packed[i \in 0 .. Len(AllRRs(m))] ==
            IF i = 0 THEN AskedUpto(m)[Len(m.questions)]
            ELSE packRR(Packed[i - 1], AllRRs(m)[i], m.raw)
    IN  Packed

Pack(m) == PackedUpto(m)[Len(AllRRs(m))].buf

-----------------------------------------------------------------------------
(* From upstream to the client *)

\* A record is taken out of its packet: the name in its data is written out.
materializeRR(rr, raw) ==
    LET inPlace == parseName(raw, rr.offset + NameAfter(rr.type))
        written == IF /\ rr.type \in NameTypes \cup {"MX"}
                      /\ raw # <<>> /\ rr.offset > 1
                      /\ Len(rr.data) >= NameAfter(rr.type)
                      /\ inPlace.st = "done"
                   THEN [rr EXCEPT !.data = SubSeq(@, 1, NameAfter(rr.type))
                                            \o packName(inPlace.name)]
                   ELSE rr
    IN  [written EXCEPT !.offset = 0]

\* The alias and the answers to its target; nothing else of either is kept.
prependCNAME(alias, inner) ==
    [ok |-> inner.ok, questions |-> <<>>,
     sections |-> <<  <<materializeRR(alias.rr, alias.raw)>>
                      \o [i \in DOMAIN inner.sections[1] |->
                             materializeRR(inner.sections[1][i], inner.raw)],
                      <<>>, <<>> >>,
     raw |-> <<>>]

hasTerminalRecords(answers, name, type) ==
    \E i \in DOMAIN answers : /\ answers[i].type = type
                              /\ Folded(answers[i].name) = Folded(name)

Aliases(m) == {i \in DOMAIN m.sections[1] : m.sections[1][i].type = "CNAME"}

FirstAlias(m) == m.sections[1][Min(Aliases(m))]

\* parseCNAME
Target(m) == parseName(m.raw, FirstAlias(m).offset)

Following(m) == ~ forwarded /\ question.type # "CNAME" /\ Aliases(m) # {}

\* A lookup begins.
Ask(q) ==
    /\ question' = q
    /\ forwarded' \in BOOLEAN
    /\ accepted' = <<>>
    /\ held' = NoMessage
    /\ aliases' = <<>>
    /\ returning' = FALSE
    /\ sent' = <<>>

\* A packet that cannot be parsed is dropped, and another server is asked.
Receive(p) ==
    /\ held = NoMessage /\ ~ returning
    /\ packet' = p
    /\ LET m == ParseMessage(p) IN
       IF m.ok
       THEN held' = m /\ accepted' = Append(accepted, p)
       ELSE UNCHANGED <<held, accepted>>
    /\ UNCHANGED <<question, forwarded, aliases, returning, sent>>

\* The first alias is followed, unless the packet has its answer as well.
FollowAlias ==
    /\ held # NoMessage /\ ~ returning
    /\ Following(held)
    /\ Target(held).st = "done"
    /\ ~ hasTerminalRecords(held.sections[1], Target(held).name, question.type)
    /\ Len(aliases) < MaxDepth
    /\ aliases' = Append(aliases, [rr |-> FirstAlias(held), raw |-> held.raw])
    /\ held' = NoMessage
    /\ UNCHANGED <<question, forwarded, packet, accepted, returning, sent>>

\* The lookup ends with an error, and another one begins.  (Referrals count
\* towards the limit as well, so that it may be reached with fewer aliases.)
GiveUp(q) ==
    /\ held # NoMessage /\ ~ returning
    /\ Following(held)
    /\ \/ Target(held).st # "done"
       \/ /\ ~ hasTerminalRecords(held.sections[1], Target(held).name, question.type)
          /\ Len(aliases) = MaxDepth
    /\ Ask(q)
    /\ UNCHANGED packet

\* What is held answers the last question that was asked upstream.
Return ==
    /\ held # NoMessage /\ ~ returning
    /\ Following(held) =>
           /\ Target(held).st = "done"
           /\ hasTerminalRecords(held.sections[1], Target(held).name, question.type)
    /\ returning' = TRUE
    /\ UNCHANGED <<question, forwarded, packet, accepted, held, aliases, sent>>

Prepend ==
    /\ returning /\ aliases # <<>>
    /\ held' = prependCNAME(Last(aliases), held)
    /\ aliases' = Front(aliases)
    /\ UNCHANGED <<question, forwarded, packet, accepted, returning, sent>>

\* handleQuery puts the client's question into the message and packs it.
Reply ==
    /\ returning /\ aliases = <<>> /\ sent = <<>>
    /\ held' = [held EXCEPT !.questions = <<question>>]
    /\ sent' = Pack(held')
    /\ UNCHANGED <<question, forwarded, packet, accepted, aliases, returning>>

NextQuery(q) ==
    /\ sent # <<>>
    /\ Ask(q)
    /\ UNCHANGED packet

MessagesInit ==
    /\ question \in Questions
    /\ forwarded \in BOOLEAN
    /\ packet = <<>>
    /\ accepted = <<>>
    /\ held = NoMessage
    /\ aliases = <<>>
    /\ returning = FALSE
    /\ sent = <<>>

MessagesNext ==
    \/ \E p \in Packets : Receive(p)
    \/ FollowAlias
    \/ \E q \in Questions : GiveUp(q) \/ NextQuery(q)
    \/ Return
    \/ Prepend
    \/ Reply

MessagesSpec == MessagesInit /\ [][MessagesNext]_messagesVars

-----------------------------------------------------------------------------
(* Properties *)

NoName == [ok |-> FALSE, name |-> <<>>]

\* The reading of a packet that RFC 1035 gives, written without a parser's
\* state: the name at a position is the label there and the name behind it, or
\* the name a pointer leads to, which is what `led' says it is.
NameLed(buf, led, at) ==
    IF at \notin DOMAIN buf \/ Stop(buf, at) > Len(buf) THEN NoName
    ELSE LET c == buf[Stop(buf, at)]
             rest == IF c.k = "end" THEN [NoName EXCEPT !.ok = TRUE]
                     ELSE IF c.k = "pointer" THEN led[c.to] ELSE NoName
         IN  [rest EXCEPT !.name = Labelled(buf, at) \o @]

\* The names read by following fewer than n pointers.  A name that does not end
\* is no name.
Readings(buf) ==
    LET Read[n \in Nat] ==
            [at \in Nat |-> IF n = 0 THEN NoName ELSE NameLed(buf, Read[n - 1], at)]
    IN  Read

NameAt(buf, offset) == Readings(buf)[Turns(buf)][offset]

\* Where what follows the name at `offset' begins.
Behind(buf, offset) ==
    1 + Min({i \in DOMAIN buf : i >= offset /\ buf[i].k \in {"end", "pointer"}}
            \cup {Len(buf)})

\* Where what follows record i begins, which begins at `start' itself, the
\* questions being the first records; 0 if that cannot be told.
After(buf, i, start) ==
    LET fixed == Behind(buf, start) IN
    IF start = 0 \/ ~ NameAt(buf, start).ok THEN 0
    ELSE IF i <= buf[1].counts[1]
    THEN IF IsCell(buf, fixed, "question") THEN fixed + 1 ELSE 0
    ELSE IF IsCell(buf, fixed, "fixed") /\ fixed + buf[fixed].rdlen <= Len(buf)
    THEN fixed + buf[fixed].rdlen + 1 ELSE 0

\* The records of all sections, and the questions.
Records(buf) ==
    LET c == buf[1].counts IN c[1] + c[2] + c[3] + c[4]

\* Where they begin, in order, and where the last one ends.
Starts(buf) ==
    LET Start[i \in 1 .. Records(buf) + 1] ==
            IF i = 1 THEN 2 ELSE After(buf, i - 1, Start[i - 1])
    IN  Start

Readable(buf) ==
    LET s == Starts(buf) IN \A i \in DOMAIN s : s[i] # 0

\* What the record at `at' says: owner and names up to case.
RecordAt(buf, at) ==
    LET fixed == Behind(buf, at)
        type == buf[fixed].type
        data == SubSeq(buf, fixed + 1, fixed + buf[fixed].rdlen)
    IN  [owner |-> Folded(NameAt(buf, at).name), type |-> type,
         data |-> IF type \in NameTypes \cup {"MX"}
                  THEN <<SubSeq(data, 1, NameAfter(type)),
                         Folded(NameAt(buf, fixed + 1 + NameAfter(type)).name)>>
                  ELSE data]

\* The sections of a readable packet.
Said(buf) ==
    LET s == Starts(buf)
        c == buf[1].counts
        before == <<c[1], c[1] + c[2], c[1] + c[2] + c[3]>>
    IN  [j \in 1 .. 3 |->
            [i \in 1 .. c[j + 1] |-> RecordAt(buf, s[before[j] + i])]]

\* A readable packet whose data is what its types say: a name ends where the
\* data ends, and data of the other types has no pointers, which Pack copies.
Sound(buf) ==
    /\ Readable(buf)
    /\ LET s == Starts(buf) IN
       \A i \in buf[1].counts[1] + 1 .. Len(s) - 1 :
          LET fixed == Behind(buf, s[i])
              type == buf[fixed].type
              name == fixed + 1 + NameAfter(type)
          IN  IF type \in NameTypes \cup {"MX"}
              THEN NameAt(buf, name).ok /\ Behind(buf, name) = s[i + 1]
              ELSE \A j \in fixed + 1 .. s[i + 1] - 1 : buf[j].k = "opaque"

\* The loop of parseName ends on every packet, wherever it starts and whatever
\* loops its pointers make (message.go:174-224).
ParserEnds ==
    \A at \in DOMAIN packet : parseName(packet, at).st # "reading"

\* The record rr, parsed from `buf', is the one that `said' reads there.
IsAsSaid(buf, rr, said) ==
    /\ Folded(rr.name) = said.owner /\ rr.type = said.type
    /\ rr.data = SubSeq(buf, rr.offset, rr.offset + Len(rr.data) - 1)
    /\ rr.type \notin NameTypes \cup {"MX"} => rr.data = said.data

AreAsSaid(buf, sections, said) ==
    \A j \in 1 .. 3 :
        /\ Len(sections[j]) = Len(said[j])
        /\ \A i \in DOMAIN said[j] : IsAsSaid(buf, sections[j][i], said[j][i])

\* ParseMessage takes exactly the packets that can be read, finds in them what
\* they say, and the data where it is (message.go:97-172).
ParsesWhatIsSaid ==
    packet # <<>> =>
        \A m \in {ParseMessage(packet)} :
            /\ m.ok <=> Readable(packet)
            /\ m.ok => AreAsSaid(packet, m.sections, Said(packet))

\* The first alias among the answers that are said.
FirstSaid(said) == said[Min({i \in DOMAIN said : said[i].type = "CNAME"})]

\* The client reads in the reply its own question, and the records that the
\* packets upstream said: the first alias of each packet that was left, then
\* all of the last one, whatever compression either side used and wherever in
\* the packet the records end up (message.go:226-370, resolver.go:875-904).
ReadsBack ==
    (sent # <<>> /\ \A i \in DOMAIN accepted : Sound(accepted[i])) =>
        LET left == Front(accepted)
            last == Said(Last(accepted))
            Alias(p) == FirstSaid(Said(p)[1])
        IN  /\ Readable(sent)
            /\ sent[1].counts[1] = 1
            /\ NameAt(sent, 2).name = question.name
            /\ Said(sent) = IF left = <<>> THEN last
                            ELSE << [i \in DOMAIN left |-> Alias(left[i])] \o last[1],
                                    <<>>, <<>> >>
=============================================================================
