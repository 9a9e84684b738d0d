----------------------------- MODULE MCMessages -----------------------------
(***************************************************************************)
(* Packets for Messages: one question, an answer whose owner and data are  *)
(* written out or compressed in several ways, broken ones among them, and  *)
(* perhaps a second record.                                                *)
(***************************************************************************)
EXTENDS Messages

CONSTANTS a, b, A

MCLower == [l \in {a, b, A} |-> IF l = A THEN a ELSE l]

MCQuestions == {[name |-> <<a, b>>, type |-> "A"], [name |-> <<b>>, type |-> "CNAME"]}

\* A pointer as upstream writes it.
To(at) == [k |-> "pointer", to |-> at]

\* Reserved label types, and labels cut by the end of the packet.
Bad == [k |-> "bad"]

\* Cells 2 to 5.
Front4 == <<Label(a), Label(b), End, FixedQuestion("A")>>

\* Cell 6 and on: one's own name, a part of it, another name in capitals; a
\* pointer to itself and a reserved label.
Owners == {<<To(2)>>, <<Label(A), To(3)>>, <<Label(b), Label(b), End>>, <<To(6)>>, <<Bad>>}

\* The data of the first answer, which may begin at cell 8, 9 or 10.
NamesIn == {<<To(3)>>, <<Label(b), To(2)>>, <<Label(b), Label(A), End>>, <<Label(b), To(6)>>}

Data == {<<"A", <<Opaque(1)>>>>}
        \cup {<<"CNAME", n>> : n \in NamesIn \cup {<<Label(a), To(8)>>}}
        \cup {<<"MX", <<Opaque(2)>> \o n>> : n \in NamesIn}

Record(owner, d) == owner \o <<Fixed(d[1], Len(d[2]))>> \o d[2]

OneRecord ==
    {<<Header(<<1, 1, 0, 0>>)>> \o Front4 \o Record(o, d) : o \in Owners, d \in Data}

\* A second record in the answers or the authority, which may point into the
\* data of the first.
TwoRecords ==
    {<<Header(c)>> \o Front4 \o Record(<<To(2)>>, <<"CNAME", n>>) \o r :
        c \in {<<1, 2, 0, 0>>, <<1, 1, 1, 0>>},
        n \in NamesIn,
        r \in {Record(<<To(8)>>, <<"A", <<Opaque(1)>>>>),
               Record(<<To(9)>>, <<"NS", <<Label(a), To(8)>>>>)}}

\* Packets that end too early.
Cut == {SubSeq(p, 1, n) : p \in {q \in TwoRecords : Len(q) = 14}, n \in 1 .. 13}

MCPackets == OneRecord \cup TwoRecords \cup Cut
=============================================================================
