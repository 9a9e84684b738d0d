---------------------------- MODULE MessagesProofs ----------------------------
(***************************************************************************)
(* What becomes of any packets: parseName ends and finds the name that is  *)
(* there, ParseMessage takes the packets that can be read and finds what   *)
(* they say, and what Pack makes of a message, with or without aliases in  *)
(* front, is read back as what upstream said.  The functions are           *)
(* recursive; induction is over the set of the numbers for which a fact    *)
(* holds.                                                                  *)
(***************************************************************************)
EXTENDS Messages, SequenceTheorems, FiniteSetTheorems, TLAPS

-----------------------------------------------------------------------------
(* Natural numbers *)

\* A set of natural numbers has a smallest element.
LEMMA Smallest ==
  ASSUME NEW S, S \subseteq Nat, S # {}
  PROVE  \E m \in S : \A k \in S : m <= k
<1>1. PICK m \in S : \A k \in S : <<k, m>> \notin OpToRel(<, Nat)
  BY WFMin, NatLessThanWellFounded
<1>2. ASSUME NEW k \in S, k < m PROVE FALSE
  <2>1. <<k, m>> \in OpToRel(<, Nat)
    BY <1>2 DEF OpToRel
  <2> QED
    BY <1>1, <2>1
<1> QED
  BY <1>2

\* Induction over the numbers with a property.
LEMMA Induction ==
  ASSUME NEW T, 0 \in T, \A n \in Nat : n \in T => n + 1 \in T
  PROVE  \A n \in Nat : n \in T
<1>1. SUFFICES ASSUME Nat \ T # {} PROVE FALSE
  OBVIOUS
<1>2. PICK m \in Nat \ T : \A k \in Nat \ T : m <= k
  BY <1>1, Smallest
<1>3. m # 0 /\ m - 1 \in Nat
  BY <1>2
<1>4. m - 1 \in T
  BY <1>2, <1>3
<1>5. m \in T
  BY <1>3, <1>4
<1> QED
  BY <1>2, <1>5

\* The smallest number of a set of numbers.
LEMMA MinOfNaturals ==
  ASSUME NEW S, S \subseteq Nat, S # {}
  PROVE  Min(S) \in S /\ \A k \in S : Min(S) <= k
  BY Smallest DEF Min

\* g is what F makes of `start' step by step.
Steps(S, start, F, g) ==
    g \in [Nat -> S] /\ g[0] = start /\ \A n \in Nat : g[n + 1] = F[n][g[n]]

CanStep(S, start, F) == start \in S /\ F \in [Nat -> [S -> S]]

\* What is computed step by step from a start exists.
LEMMA StepByStep ==
  ASSUME NEW S, NEW start, NEW F, CanStep(S, start, F)
  PROVE  \E g : Steps(S, start, F, g)
<1> USE DEF CanStep
<1> DEFINE Computes(h, k) == /\ h \in [0 .. k -> S]
                             /\ h[0] = start
                             /\ \A n \in 0 .. k - 1 : h[n + 1] = F[n][h[n]]
           T == {k \in Nat : \E h : Computes(h, k)}
<1>1. 0 \in T
  <2>1. Computes([n \in 0 .. 0 |-> start], 0)
    OBVIOUS
  <2> QED
    BY <2>1
<1>2. ASSUME NEW k \in Nat, k \in T PROVE k + 1 \in T
  <2>1. PICK h : Computes(h, k)
    BY <1>2
  <2>2. PICK next \in S : next = F[k][h[k]]
    BY <2>1
  <2>3. PICK j : j = [n \in 0 .. k + 1 |-> IF n = k + 1 THEN next ELSE h[n]]
    OBVIOUS
  <2>4. j \in [0 .. k + 1 -> S] /\ j[0] = start
    BY <2>1, <2>2, <2>3
  <2>5. ASSUME NEW n \in 0 .. k PROVE j[n + 1] = F[n][j[n]]
    BY <2>1, <2>2, <2>3
  <2>6. (k + 1) - 1 = k
    OBVIOUS
  <2>7. Computes(j, k + 1)
    BY <2>4, <2>5, <2>6
  <2> QED
    BY <2>7
<1>3. \A k \in Nat : \E h : Computes(h, k)
  <2> HIDE DEF Computes
  <2>1. \A k \in Nat : k \in T
    <3> HIDE DEF T
    <3> QED
      BY <1>1, <1>2, Induction
  <2> QED
    BY <2>1
<1>4. ASSUME NEW k \in Nat, NEW m \in Nat, k <= m, NEW h, NEW j, Computes(h, k),
             Computes(j, m)
      PROVE  \A n \in 0 .. k : h[n] = j[n]
  <2> DEFINE U == {n \in Nat : n <= k => h[n] = j[n]}
  <2>1. 0 \in U
    BY <1>4
  <2>2. ASSUME NEW n \in Nat, n \in U PROVE n + 1 \in U
    <3>1. SUFFICES ASSUME n + 1 <= k PROVE h[n + 1] = j[n + 1]
      OBVIOUS
    <3>2. n \in 0 .. k - 1 /\ n \in 0 .. m - 1 /\ h[n] = j[n]
      BY <1>4, <2>2, <3>1
    <3> QED
      BY <1>4, <3>2
  <2>3. \A n \in Nat : n \in U
    <3> HIDE DEF U
    <3> QED
      BY <2>1, <2>2, Induction
  <2> QED
    BY <2>3
<1>5. PICK H : H = [k \in Nat |-> CHOOSE h : Computes(h, k)]
  OBVIOUS
<1>6. ASSUME NEW k \in Nat PROVE Computes(H[k], k)
  <2> HIDE DEF Computes
  <2> QED
    BY <1>3, <1>5
<1>7. PICK g : g = [n \in Nat |-> H[n][n]]
  OBVIOUS
<1>8. g \in [Nat -> S]
  BY <1>6, <1>7
<1>9. g[0] = start
  BY <1>6, <1>7
<1>10. ASSUME NEW n \in Nat PROVE g[n + 1] = F[n][g[n]]
  <2>1. Computes(H[n], n) /\ Computes(H[n + 1], n + 1)
    BY <1>6
  <2>2. H[n][n] = H[n + 1][n]
    <3> HIDE DEF Computes
    <3>1. n \in 0 .. n /\ n <= n + 1
      OBVIOUS
    <3> QED
      BY <1>4, <2>1, <3>1
  <2>3. n \in 0 .. (n + 1) - 1
    OBVIOUS
  <2>4. H[n + 1][n + 1] = F[n][H[n + 1][n]]
    BY <2>1, <2>3
  <2> QED
    BY <1>7, <2>2, <2>4
<1> QED
  BY <1>8, <1>9, <1>10 DEF Steps

\* Two names one after the other are a name.
LEMMA Joined ==
  ASSUME NEW S, NEW s \in Seq(S), NEW t \in Seq(S)
  PROVE  s \o t \in Seq(S)
  OBVIOUS

-----------------------------------------------------------------------------
(* Packets *)

\* What is parsed: cells of which the first is the header.
Packet(buf) == buf \in Seq(Cells) /\ buf # <<>> /\ buf[1].k = "header"

\* The fields of a cell have their types.
LEMMA CellFacts ==
  ASSUME NEW c \in Cells
  PROVE  /\ c.k = "header" => c.counts \in [1 .. 4 -> Nat]
         /\ c.k = "label" => c.label \in Labels
         /\ c.k = "pointer" => c.to \in Nat
         /\ c.k = "question" => c.type \in STRING
         /\ c.k = "fixed" => c.type \in STRING /\ c.rdlen \in Nat
  BY DEF Cells

\* The positions in a packet.
LEMMA Positions ==
  ASSUME NEW buf, Packet(buf)
  PROVE  /\ Len(buf) \in Nat /\ Len(buf) >= 1
         /\ DOMAIN buf = 1 .. Len(buf)
         /\ \A i \in 1 .. Len(buf) : buf[i] \in Cells
  BY DEF Packet

\* Stop is the first position from `at' on with no label, or behind the end.
LEMMA StopFacts ==
  ASSUME NEW buf, Packet(buf), NEW at \in Nat
  PROVE  /\ Stop(buf, at) \in 1 .. Len(buf) + 1
         /\ Stop(buf, at) <= Len(buf) =>
               Stop(buf, at) >= at /\ buf[Stop(buf, at)].k # "label"
         /\ \A i \in 1 .. Len(buf) : i >= at /\ i < Stop(buf, at) => buf[i].k = "label"
<1> DEFINE W == {i \in DOMAIN buf : i >= at /\ buf[i].k # "label"} \cup {Len(buf) + 1}
<1>1. Len(buf) \in Nat /\ DOMAIN buf = 1 .. Len(buf)
  BY Positions
<1>2. W \subseteq 1 .. Len(buf) + 1 /\ W \subseteq Nat /\ W # {}
  BY <1>1
<1>3. Min(W) \in W /\ \A k \in W : Min(W) <= k
  <2> HIDE DEF W
  <2> QED
    BY <1>2, MinOfNaturals
<1>4. Stop(buf, at) = Min(W)
  BY DEF Stop
<1> HIDE DEF W
<1>5. PICK s \in 1 .. Len(buf) + 1 : s = Stop(buf, at) /\ s \in W /\ \A k \in W : s <= k
  BY <1>2, <1>3, <1>4
<1>6. s <= Len(buf) => s >= at /\ buf[s].k # "label"
  BY <1>1, <1>5 DEF W
<1>7. ASSUME NEW i \in 1 .. Len(buf), i >= at, i < s PROVE buf[i].k = "label"
  <2>1. i \notin W
    BY <1>1, <1>5, <1>7
  <2> QED
    BY <1>1, <1>7, <2>1 DEF W
<1> QED
  BY <1>5, <1>6, <1>7

\* What Stop passes over are labels.
LEMMA LabelledFacts ==
  ASSUME NEW buf, Packet(buf), NEW at \in 1 .. Len(buf)
  PROVE  Labelled(buf, at) \in Seq(Labels)
<1>1. Len(buf) \in Nat /\ \A i \in 1 .. Len(buf) : buf[i] \in Cells
  BY Positions
<1>2. at \in Nat
  BY <1>1
<1>3. PICK s \in 1 .. Len(buf) + 1 : s = Stop(buf, at)
  BY <1>2, StopFacts
<1>4. at <= s /\ \A i \in 1 .. Len(buf) : i >= at /\ i < s => buf[i].k = "label"
  <2>1. s <= Len(buf) => s >= at
    BY <1>3, <1>2, StopFacts
  <2>2. at <= s
    BY <1>1, <1>3, <2>1
  <2> QED
    BY <1>3, <1>2, <2>2, StopFacts
<1>5. ASSUME NEW i \in 1 .. s - at PROVE buf[at + i - 1].label \in Labels
  <2>1. at + i - 1 \in 1 .. Len(buf) /\ at + i - 1 >= at /\ at + i - 1 < s
    BY <1>1, <1>3, <1>4
  <2>2. buf[at + i - 1].k = "label"
    BY <1>4, <2>1
  <2> QED
    BY <1>1, <2>1, <2>2, CellFacts
<1>6. s - at \in Nat
  BY <1>1, <1>3, <1>4
<1>7. [i \in 1 .. s - at |-> buf[at + i - 1].label] \in Seq(Labels)
  BY <1>5, <1>6
<1> QED
  BY <1>3, <1>7 DEF Labelled

\* There is no name at the header, nor in front of it.
LEMMA NameInside ==
  ASSUME NEW buf, Packet(buf), NEW at \in Nat, Stop(buf, at) <= Len(buf),
         buf[Stop(buf, at)].k # "header"
  PROVE  at \in 1 .. Len(buf)
<1>1. PICK s \in 1 .. Len(buf) : s = Stop(buf, at)
  BY StopFacts, Positions
<1>2. at <= s /\ \A i \in 1 .. Len(buf) : i >= at /\ i < s => buf[i].k = "label"
  BY StopFacts, Positions, <1>1
<1>3. at # 0
  <2>1. SUFFICES ASSUME at = 0 PROVE FALSE
    OBVIOUS
  <2>2. buf[1].k = "header" /\ 1 \in 1 .. Len(buf) /\ 1 >= at
    BY <2>1, Positions DEF Packet
  <2>3. ~ (1 < s)
    BY <1>2, <2>2
  <2>4. s = 1
    BY <1>1, <2>3
  <2> QED
    BY <1>1, <2>2, <2>4
<1> QED
  BY <1>1, <1>2, <1>3, Positions

-----------------------------------------------------------------------------
(* The turns of parseName *)

ParserStates ==
    [st : {"reading", "done", "error"}, at : Nat, name : Seq(Labels),
     visited : SUBSET Nat, end : Nat]

\* The three ways in which a turn ends: at the end of the name, at a pointer
\* that was not followed before, or with an error.
AtEnd(buf, p) == IsCell(buf, Stop(buf, p.at), "end")

AtPointer(buf, p) ==
    /\ IsCell(buf, Stop(buf, p.at), "pointer")
    /\ buf[Stop(buf, p.at)].to \notin p.visited

EndOf(buf, p) == IF p.end = 0 THEN Stop(buf, p.at) + 1 ELSE p.end

Ended(buf, p) ==
    [st |-> "done", at |-> p.at, name |-> p.name \o Labelled(buf, p.at),
     visited |-> p.visited, end |-> EndOf(buf, p)]

Jumped(buf, p) ==
    [st |-> p.st, at |-> buf[Stop(buf, p.at)].to, name |-> p.name \o Labelled(buf, p.at),
     visited |-> p.visited \cup {buf[Stop(buf, p.at)].to}, end |-> EndOf(buf, p)]

Failed(p) ==
    [st |-> "error", at |-> p.at, name |-> p.name, visited |-> p.visited, end |-> p.end]

LEMMA TurnCases ==
  ASSUME NEW buf, NEW p \in ParserStates
  PROVE  /\ AtEnd(buf, p) => ParseTurn(buf, p) = Ended(buf, p) /\ ~ AtPointer(buf, p)
         /\ AtPointer(buf, p) => ParseTurn(buf, p) = Jumped(buf, p)
         /\ ~ AtEnd(buf, p) /\ ~ AtPointer(buf, p) => ParseTurn(buf, p) = Failed(p)
<1>1. p = [st |-> p.st, at |-> p.at, name |-> p.name, visited |-> p.visited, end |-> p.end]
  BY DEF ParserStates
<1>2. PICK stop, name, end : /\ stop = Stop(buf, p.at)
                             /\ name = p.name \o Labelled(buf, p.at)
                             /\ end = IF p.end = 0 THEN stop + 1 ELSE p.end
  OBVIOUS
<1>3. PICK read : /\ read = [p EXCEPT !.name = @ \o Labelled(buf, p.at),
                                      !.end = IF @ = 0 THEN stop + 1 ELSE @]
  OBVIOUS
<1>4. read = [st |-> p.st, at |-> p.at, name |-> name, visited |-> p.visited, end |-> end]
  BY <1>1, <1>2, <1>3
<1>5. ParseTurn(buf, p) =
        CASE IsCell(buf, stop, "end") -> [read EXCEPT !.st = "done"]
          [] IsCell(buf, stop, "pointer") /\ buf[stop].to \notin p.visited ->
                [read EXCEPT !.at = buf[stop].to, !.visited = @ \cup {buf[stop].to}]
          [] OTHER -> [p EXCEPT !.st = "error"]
  BY <1>2, <1>3 DEF ParseTurn
<1>6. ~ (IsCell(buf, stop, "end") /\ IsCell(buf, stop, "pointer"))
  BY DEF IsCell
<1>7. AtEnd(buf, p) <=> IsCell(buf, stop, "end")
  BY <1>2 DEF AtEnd
<1>8. AtPointer(buf, p) <=> IsCell(buf, stop, "pointer") /\ buf[stop].to \notin p.visited
  BY <1>2 DEF AtPointer
<1>9. EndOf(buf, p) = end
  BY <1>2 DEF EndOf
<1>10. AtEnd(buf, p) => ParseTurn(buf, p) = Ended(buf, p)
  BY <1>2, <1>4, <1>5, <1>6, <1>7, <1>9 DEF Ended
<1>11. AtPointer(buf, p) => ParseTurn(buf, p) = Jumped(buf, p)
  BY <1>2, <1>4, <1>5, <1>6, <1>8, <1>9 DEF Jumped
<1>12. ~ AtEnd(buf, p) /\ ~ AtPointer(buf, p) => ParseTurn(buf, p) = Failed(p)
  BY <1>1, <1>5, <1>7, <1>8 DEF Failed
<1> QED
  BY <1>6, <1>7, <1>8, <1>10, <1>11, <1>12

\* A turn keeps the types.
LEMMA TurnTypes ==
  ASSUME NEW buf, Packet(buf), NEW p \in ParserStates
  PROVE  ParseTurn(buf, p) \in ParserStates
<1>1. p.st \in {"reading", "done", "error"} /\ p.at \in Nat /\ p.name \in Seq(Labels)
      /\ p.visited \in SUBSET Nat /\ p.end \in Nat
  BY DEF ParserStates
<1>2. PICK stop : stop = Stop(buf, p.at)
  OBVIOUS
<1>3. stop \in Nat /\ DOMAIN buf = 1 .. Len(buf) /\ Len(buf) \in Nat
  BY <1>1, <1>2, StopFacts, Positions
<1>4. PICK end \in Nat : end = EndOf(buf, p)
  BY <1>1, <1>2, <1>3 DEF EndOf
<1>5. ASSUME stop \in DOMAIN buf, buf[stop].k \in {"end", "pointer"}
      PROVE  p.name \o Labelled(buf, p.at) \in Seq(Labels)
  <2>1. stop <= Len(buf) /\ buf[stop].k # "header"
    BY <1>3, <1>5
  <2>2. Labelled(buf, p.at) \in Seq(Labels)
    BY <1>1, <1>2, <2>1, NameInside, LabelledFacts
  <2> QED
    BY <1>1, <2>2, Joined
<1>6. CASE AtEnd(buf, p)
  <2>1. PICK name : name = p.name \o Labelled(buf, p.at) /\ name \in Seq(Labels)
    BY <1>2, <1>5, <1>6 DEF AtEnd, IsCell
  <2>2. ParseTurn(buf, p) = [st |-> "done", at |-> p.at, name |-> name,
                             visited |-> p.visited, end |-> end]
    BY <1>4, <1>6, <2>1, TurnCases DEF Ended
  <2> QED
    BY <1>1, <1>4, <2>1, <2>2 DEF ParserStates
<1>7. CASE AtPointer(buf, p)
  <2>1. stop \in DOMAIN buf /\ buf[stop].k = "pointer"
    BY <1>2, <1>7 DEF AtPointer, IsCell
  <2>2. PICK name : name = p.name \o Labelled(buf, p.at) /\ name \in Seq(Labels)
    BY <1>5, <2>1
  <2>3. PICK to \in Nat : to = buf[stop].to
    BY <1>3, <2>1, Positions, CellFacts
  <2>4. ParseTurn(buf, p) = [st |-> p.st, at |-> to, name |-> name,
                             visited |-> p.visited \cup {to}, end |-> end]
    BY <1>2, <1>4, <1>7, <2>2, <2>3, TurnCases DEF Jumped
  <2> QED
    BY <1>1, <1>4, <2>2, <2>3, <2>4 DEF ParserStates
<1>8. CASE ~ AtEnd(buf, p) /\ ~ AtPointer(buf, p)
  <2>1. ParseTurn(buf, p) = [st |-> "error", at |-> p.at, name |-> p.name,
                             visited |-> p.visited, end |-> p.end]
    BY <1>8, TurnCases DEF Failed
  <2> QED
    BY <1>1, <2>1 DEF ParserStates
<1> QED
  BY <1>6, <1>7, <1>8

\* The turns of parseName are computed one after the other.
LEMMA TurnByTurn ==
  ASSUME NEW buf, Packet(buf), NEW offset \in Nat
  PROVE  /\ ParseTurns(buf, offset) \in [0 .. Turns(buf) -> ParserStates]
         /\ ParseTurns(buf, offset)[0] =
               [st |-> "reading", at |-> offset, name |-> <<>>, visited |-> {}, end |-> 0]
         /\ \A n \in 0 .. Turns(buf) - 1 :
               ParseTurns(buf, offset)[n + 1] =
                  IF ParseTurns(buf, offset)[n].st = "reading"
                  THEN ParseTurn(buf, ParseTurns(buf, offset)[n])
                  ELSE ParseTurns(buf, offset)[n]
<1>1. PICK start : start = [st |-> "reading", at |-> offset, name |-> <<>>,
                            visited |-> {}, end |-> 0]
  OBVIOUS
<1>2. start \in ParserStates
  <2>1. <<>> \in Seq(Labels)
    OBVIOUS
  <2> QED
    BY <1>1, <2>1 DEF ParserStates
<1>3. PICK F : F = [n \in Nat |-> [p \in ParserStates |->
                       IF p.st = "reading" THEN ParseTurn(buf, p) ELSE p]]
  OBVIOUS
<1>4. F \in [Nat -> [ParserStates -> ParserStates]]
  BY <1>3, TurnTypes
<1>5. PICK g : g \in [Nat -> ParserStates] /\ g[0] = start
                /\ \A n \in Nat : g[n + 1] = F[n][g[n]]
  <2>1. CanStep(ParserStates, start, F)
    BY <1>2, <1>4 DEF CanStep
  <2>2. PICK g : Steps(ParserStates, start, F, g)
    BY <2>1, StepByStep
  <2> QED
    BY <2>2 DEF Steps
<1>6. Turns(buf) \in Nat
  BY Positions DEF Turns
<1>7. PICK h : h = [n \in 0 .. Turns(buf) |-> g[n]]
  OBVIOUS
<1>8. ASSUME NEW n \in 0 .. Turns(buf), n # 0
      PROVE  h[n] = IF h[n - 1].st = "reading" THEN ParseTurn(buf, h[n - 1]) ELSE h[n - 1]
  <2>1. n - 1 \in Nat /\ n - 1 \in 0 .. Turns(buf) /\ (n - 1) + 1 = n
    BY <1>6, <1>8
  <2>2. h[n] = g[n] /\ h[n - 1] = g[n - 1] /\ g[n - 1] \in ParserStates
    BY <1>5, <1>7, <2>1
  <2>3. g[n] = F[n - 1][g[n - 1]]
    BY <1>5, <2>1
  <2> QED
    BY <1>3, <2>1, <2>2, <2>3
<1>9. h[0] = start
  BY <1>5, <1>6, <1>7
<1>10. h = [n \in 0 .. Turns(buf) |->
               IF n = 0
               THEN [st |-> "reading", at |-> offset, name |-> <<>>, visited |-> {},
                     end |-> 0]
               ELSE LET p == h[n - 1]
                    IN  IF p.st = "reading" THEN ParseTurn(buf, p) ELSE p]
  BY <1>1, <1>7, <1>8, <1>9
<1>11. PICK T : T = ParseTurns(buf, offset)
  OBVIOUS
<1>12. T = [n \in 0 .. Turns(buf) |->
               IF n = 0
               THEN [st |-> "reading", at |-> offset, name |-> <<>>, visited |-> {},
                     end |-> 0]
               ELSE LET p == T[n - 1]
                    IN  IF p.st = "reading" THEN ParseTurn(buf, p) ELSE p]
  BY <1>10, <1>11 DEF ParseTurns
<1>13. T[0] = start
  BY <1>1, <1>6, <1>12
<1>14. ASSUME NEW n \in 0 .. Turns(buf) - 1
       PROVE  T[n + 1] = IF T[n].st = "reading" THEN ParseTurn(buf, T[n]) ELSE T[n]
  <2>1. n + 1 \in 0 .. Turns(buf) /\ n + 1 # 0 /\ (n + 1) - 1 = n
    BY <1>6
  <2> QED
    BY <1>12, <2>1
<1>15. \A n \in 0 .. Turns(buf) : T[n] \in ParserStates
  <2> DEFINE U == {n \in Nat : n <= Turns(buf) => T[n] \in ParserStates}
  <2>1. 0 \in U
    BY <1>2, <1>13
  <2>2. ASSUME NEW n \in Nat, n \in U PROVE n + 1 \in U
    <3>1. SUFFICES ASSUME n + 1 <= Turns(buf) PROVE T[n + 1] \in ParserStates
      OBVIOUS
    <3>2. n \in 0 .. Turns(buf) - 1 /\ T[n] \in ParserStates
      BY <1>6, <2>2, <3>1
    <3> QED
      BY <1>14, <3>2, TurnTypes
  <2>3. \A n \in Nat : n \in U
    <3> HIDE DEF U
    <3> QED
      BY <2>1, <2>2, Induction
  <2> QED
    BY <1>6, <2>3
<1>16. T \in [0 .. Turns(buf) -> ParserStates]
  <2>1. DOMAIN T = 0 .. Turns(buf) /\ T = [n \in 0 .. Turns(buf) |-> T[n]]
    BY ONLY <1>12
  <2> QED
    BY <1>15, <2>1
<1> QED
  BY <1>1, <1>11, <1>13, <1>14, <1>16

\* Where the pointers of a packet lead.
Pointed(buf) == {buf[i].to : i \in 1 .. Len(buf)}

\* A packet has no more of those than cells.
LEMMA PointedBounded ==
  ASSUME NEW buf, Packet(buf)
  PROVE  IsFiniteSet(Pointed(buf)) /\ Cardinality(Pointed(buf)) <= Len(buf)
<1>1. Len(buf) \in Nat
  BY Positions
<1>2. IsFiniteSet(1 .. Len(buf)) /\ Cardinality(1 .. Len(buf)) = Len(buf)
  <2>1. PICK len \in Nat : len = Len(buf)
    BY <1>1
  <2>2. IsFiniteSet(1 .. len) /\ Cardinality(1 .. len) = IF 1 > len THEN 0 ELSE len - 1 + 1
    BY FS_Interval
  <2> QED
    BY <2>1, <2>2
<1>3. PICK f : f = [i \in 1 .. Len(buf) |-> buf[i].to]
  OBVIOUS
<1>4. f \in Surjection(1 .. Len(buf), Pointed(buf))
  BY <1>3 DEF Surjection, Pointed
<1> QED
  BY <1>2, <1>4, FS_Surjection

\* When the loop has ended nothing changes any more.
LEMMA TurnStays ==
  ASSUME NEW buf, Packet(buf), NEW offset \in Nat,
         NEW k \in 0 .. Turns(buf), ParseTurns(buf, offset)[k].st # "reading"
  PROVE  \A n \in k .. Turns(buf) : ParseTurns(buf, offset)[n] = ParseTurns(buf, offset)[k]
<1>1. PICK T : T = ParseTurns(buf, offset)
  OBVIOUS
<1> DEFINE U == {n \in Nat : n >= k /\ n <= Turns(buf) => T[n] = T[k]}
<1>2. Turns(buf) \in Nat
  BY Positions DEF Turns
<1>3. 0 \in U
  BY <1>2
<1>4. ASSUME NEW n \in Nat, n \in U PROVE n + 1 \in U
  <2>1. SUFFICES ASSUME n + 1 >= k, n + 1 <= Turns(buf) PROVE T[n + 1] = T[k]
    OBVIOUS
  <2>2. CASE n + 1 = k
    BY <2>2
  <2>3. CASE n >= k
    <3>1. T[n] = T[k] /\ n \in 0 .. Turns(buf) - 1
      BY <1>2, <1>4, <2>1, <2>3
    <3> QED
      BY <1>1, <3>1, TurnByTurn
  <2> QED
    BY <1>2, <2>1, <2>2, <2>3
<1>5. \A n \in Nat : n \in U
  <2> HIDE DEF U
  <2> QED
    BY <1>3, <1>4, Induction
<1> QED
  BY <1>1, <1>2, <1>5

\* While the loop goes on each turn follows a pointer to somewhere new.
LEMMA TurnOn ==
  ASSUME NEW buf, Packet(buf), NEW offset \in Nat, NEW n \in 0 .. Turns(buf) - 1,
         ParseTurns(buf, offset)[n + 1].st = "reading"
  PROVE  LET p == ParseTurns(buf, offset)[n]
         IN  /\ p \in ParserStates /\ p.st = "reading"
             /\ AtPointer(buf, p)
             /\ ParseTurns(buf, offset)[n + 1] = Jumped(buf, p)
<1>1. PICK p, q : p = ParseTurns(buf, offset)[n] /\ q = ParseTurns(buf, offset)[n + 1]
  OBVIOUS
<1>2. n \in 0 .. Turns(buf)
  BY Positions DEF Turns
<1>3. p \in ParserStates /\ q = IF p.st = "reading" THEN ParseTurn(buf, p) ELSE p
  BY <1>1, <1>2, TurnByTurn
<1>4. p.st = "reading" /\ q = ParseTurn(buf, p)
  BY <1>1, <1>3
<1>5. Ended(buf, p).st # "reading" /\ Failed(p).st # "reading"
  BY DEF Ended, Failed
<1>6. AtPointer(buf, p)
  BY <1>1, <1>3, <1>4, <1>5, TurnCases
<1> QED
  BY <1>1, <1>3, <1>4, <1>6, TurnCases

\* After n turns that followed a pointer n places were visited, each of them
\* after one of the turns; and what follows the name is behind the first pointer.
LEMMA WhileReading ==
  ASSUME NEW buf, Packet(buf), NEW offset \in Nat, NEW n \in 0 .. Turns(buf),
         ParseTurns(buf, offset)[n].st = "reading"
  PROVE  LET p == ParseTurns(buf, offset)[n]
         IN  /\ p.visited \subseteq Pointed(buf)
             /\ IsFiniteSet(p.visited) /\ Cardinality(p.visited) = n
             /\ \A v \in p.visited :
                   \E j \in 1 .. n : ParseTurns(buf, offset)[j].at = v
             /\ n = 0 => p.end = 0 /\ p.at = offset /\ p.name = <<>>
             /\ n > 0 => p.end = Stop(buf, offset) + 1
<1>1. PICK T : T = ParseTurns(buf, offset)
  OBVIOUS
<1> DEFINE Good(i) ==
              /\ T[i].visited \subseteq Pointed(buf)
              /\ IsFiniteSet(T[i].visited) /\ Cardinality(T[i].visited) = i
              /\ \A v \in T[i].visited : \E j \in 1 .. i : T[j].at = v
              /\ i = 0 => T[i].end = 0 /\ T[i].at = offset /\ T[i].name = <<>>
              /\ i > 0 => T[i].end = Stop(buf, offset) + 1
           U == {i \in Nat : i <= Turns(buf) /\ T[i].st = "reading" => Good(i)}
<1>2. Turns(buf) \in Nat
  BY Positions DEF Turns
<1>3. 0 \in U
  <2>1. T[0] = [st |-> "reading", at |-> offset, name |-> <<>>, visited |-> {}, end |-> 0]
    BY <1>1, TurnByTurn
  <2>2. T[0].visited = {} /\ T[0].end = 0 /\ T[0].at = offset /\ T[0].name = <<>>
    BY <2>1
  <2>3. IsFiniteSet({}) /\ Cardinality({}) = 0
    BY FS_EmptySet
  <2>4. Good(0)
    BY <2>2, <2>3
  <2> QED
    BY <2>4
<1>4. ASSUME NEW i \in Nat, i \in U PROVE i + 1 \in U
  <2>1. SUFFICES ASSUME i + 1 <= Turns(buf), T[i + 1].st = "reading" PROVE Good(i + 1)
    OBVIOUS
  <2>2. i \in 0 .. Turns(buf) - 1
    BY <1>2, <2>1
  <2>3. PICK p : p = T[i]
    OBVIOUS
  <2>4. PICK stop : stop = Stop(buf, p.at)
    OBVIOUS
  <2>5. /\ p.st = "reading"
        /\ IsCell(buf, stop, "pointer") /\ buf[stop].to \notin p.visited
        /\ T[i + 1].at = buf[stop].to
        /\ T[i + 1].visited = p.visited \cup {buf[stop].to}
        /\ T[i + 1].end = IF p.end = 0 THEN stop + 1 ELSE p.end
    <3>1. p.st = "reading" /\ AtPointer(buf, p) /\ T[i + 1] = Jumped(buf, p)
      BY <1>1, <2>1, <2>2, <2>3, TurnOn
    <3> QED
      BY <2>4, <3>1 DEF AtPointer, Jumped, EndOf
  <2>6. Good(i)
    <3>1. i <= Turns(buf) /\ T[i].st = "reading"
      BY <1>2, <2>2, <2>3, <2>5
    <3> QED
      BY <1>4, <3>1
  <2>7. stop \in 1 .. Len(buf) /\ Len(buf) \in Nat
    BY <2>5, Positions DEF IsCell
  <2>8. T[i + 1].visited \subseteq Pointed(buf)
    BY <2>3, <2>5, <2>6, <2>7 DEF Pointed
  <2>9. IsFiniteSet(T[i + 1].visited) /\ Cardinality(T[i + 1].visited) = i + 1
    <3>1. IsFiniteSet(p.visited) /\ Cardinality(p.visited) = i
      BY <2>3, <2>6
    <3>2. PICK v, to : v = p.visited /\ to = buf[stop].to /\ to \notin v
      BY <2>5
    <3>3. IsFiniteSet(v \cup {to}) /\ Cardinality(v \cup {to}) = i + 1
      BY <3>1, <3>2, FS_AddElement
    <3> QED
      BY <2>5, <3>2, <3>3
  <2>10. ASSUME NEW v \in T[i + 1].visited
         PROVE  \E j \in 1 .. i + 1 : T[j].at = v
    <3>1. CASE v = buf[stop].to
      <4>1. T[i + 1].at = v /\ i + 1 \in 1 .. i + 1
        BY <2>5, <3>1
      <4> QED
        BY <4>1
    <3>2. CASE v \in p.visited
      <4>1. PICK j \in 1 .. i : T[j].at = v
        BY <2>3, <2>6, <3>2
      <4>2. j \in 1 .. i + 1
        OBVIOUS
      <4> QED
        BY <4>1, <4>2
    <3> QED
      BY <2>5, <2>10, <3>1, <3>2
  <2>11. T[i + 1].end = Stop(buf, offset) + 1
    <3>1. CASE i = 0
      <4>1. p.end = 0 /\ p.at = offset
        BY <2>3, <2>6, <3>1
      <4> QED
        BY <2>4, <2>5, <4>1
    <3>2. CASE i # 0
      <4>1. p.end = Stop(buf, offset) + 1
        BY <2>3, <2>6, <3>2
      <4>2. Stop(buf, offset) \in 1 .. Len(buf) + 1
        BY StopFacts
      <4>3. p.end # 0
        BY <2>7, <4>1, <4>2
      <4> QED
        BY <2>5, <4>1, <4>3
    <3> QED
      BY <3>1, <3>2
  <2> QED
    BY <2>8, <2>9, <2>10, <2>11
<1>5. \A i \in Nat : i \in U
  <2> HIDE DEF U
  <2> QED
    BY <1>3, <1>4, Induction
<1>6. n \in U /\ n <= Turns(buf)
  BY <1>2, <1>5
<1>7. Good(n)
  BY <1>1, <1>6
<1> QED
  BY <1>1, <1>7

\* The loop of parseName ends on every packet.
LEMMA ParseNameEnds ==
  ASSUME NEW buf, Packet(buf), NEW offset \in Nat
  PROVE  parseName(buf, offset).st \in {"done", "error"}
<1>1. PICK p : p = ParseTurns(buf, offset)[Turns(buf)]
  OBVIOUS
<1>2. Turns(buf) \in 0 .. Turns(buf) /\ Turns(buf) = Len(buf) + 2 /\ Len(buf) \in Nat
  BY Positions DEF Turns
<1>3. p \in ParserStates
  BY <1>1, <1>2, TurnByTurn
<1>4. p.st # "reading"
  <2>1. SUFFICES ASSUME p.st = "reading" PROVE FALSE
    OBVIOUS
  <2>2. p.visited \subseteq Pointed(buf) /\ Cardinality(p.visited) = Turns(buf)
    BY <1>1, <1>2, <2>1, WhileReading
  <2>3. Cardinality(p.visited) <= Cardinality(Pointed(buf))
    BY <2>2, PointedBounded, FS_Subset
  <2>4. IsFiniteSet(Pointed(buf)) /\ Cardinality(Pointed(buf)) <= Len(buf)
        /\ Cardinality(Pointed(buf)) \in Nat
    BY PointedBounded, FS_CardinalityType
  <2> QED
    BY <1>2, <2>2, <2>3, <2>4
<1> QED
  BY <1>1, <1>3, <1>4 DEF ParserStates, parseName

-----------------------------------------------------------------------------
(* The names in a packet *)

Reading == [ok : BOOLEAN, name : Seq(Labels)]

Together(front, back) == front \o back

\* The name at a position, in each of the cases.
LEMMA NameLedCases ==
  ASSUME NEW buf, Packet(buf), NEW led \in [Nat -> Reading], NEW at \in Nat
  PROVE  LET stop == Stop(buf, at)
             name == NameLed(buf, led, at)
         IN  /\ name \in Reading
             /\ IsCell(buf, stop, "end") =>
                   name.ok /\ name.name = Labelled(buf, at)
             /\ IsCell(buf, stop, "pointer") =>
                   /\ name.ok <=> led[buf[stop].to].ok
                   /\ name.name = Together(Labelled(buf, at), led[buf[stop].to].name)
             /\ ~ IsCell(buf, stop, "end") /\ ~ IsCell(buf, stop, "pointer") =>
                   ~ name.ok
<1>1. Len(buf) \in Nat /\ DOMAIN buf = 1 .. Len(buf)
  BY Positions
<1>2. PICK stop \in 1 .. Len(buf) + 1 : stop = Stop(buf, at)
  BY StopFacts
<1>3. NoName \in Reading /\ NoName = [ok |-> FALSE, name |-> <<>>]
  <2>1. <<>> \in Seq(Labels)
    OBVIOUS
  <2> QED
    BY <2>1 DEF NoName, Reading
<1>4. CASE at \notin DOMAIN buf \/ stop > Len(buf)
  <2>1. NameLed(buf, led, at) = NoName
    BY <1>2, <1>4 DEF NameLed
  <2>2. ~ IsCell(buf, stop, "end") /\ ~ IsCell(buf, stop, "pointer")
    <3>1. CASE stop > Len(buf)
      BY <1>1, <1>2, <3>1 DEF IsCell
    <3>2. CASE at \notin DOMAIN buf /\ stop <= Len(buf)
      <4>1. buf[stop].k = "header"
        BY <1>1, <1>2, <3>2, NameInside
      <4> QED
        BY <4>1 DEF IsCell
    <3> QED
      BY <1>1, <1>2, <1>4, <3>1, <3>2
  <2>3. NameLed(buf, led, at) \in Reading /\ ~ NameLed(buf, led, at).ok
    BY <1>3, <2>1
  <2> QED
    BY <1>2, <2>2, <2>3
<1>5. CASE at \in DOMAIN buf /\ ~ (stop > Len(buf))
  <2>1. stop \in DOMAIN buf /\ buf[stop] \in Cells
    BY <1>1, <1>2, <1>5, Positions
  <2>2. PICK label \in Seq(Labels) : label = Labelled(buf, at)
    BY <1>1, <1>5, LabelledFacts
  <2>3. PICK rest : rest = IF buf[stop].k = "end" THEN [NoName EXCEPT !.ok = TRUE]
                           ELSE IF buf[stop].k = "pointer" THEN led[buf[stop].to]
                           ELSE NoName
    OBVIOUS
  <2>4. NameLed(buf, led, at) = [rest EXCEPT !.name = label \o @]
    BY <1>2, <1>5, <2>2, <2>3 DEF NameLed
  <2>5. buf[stop].k = "end" => rest = [ok |-> TRUE, name |-> <<>>]
    BY <1>3, <2>3
  <2>6. buf[stop].k = "pointer" => rest = led[buf[stop].to] /\ buf[stop].to \in Nat
    BY <2>1, <2>3, CellFacts
  <2>7. buf[stop].k # "end" /\ buf[stop].k # "pointer" => rest = NoName
    BY <2>3
  <2>8. rest \in Reading
    <3>1. [ok |-> TRUE, name |-> <<>>] \in Reading
      <4>1. <<>> \in Seq(Labels)
        OBVIOUS
      <4> QED
        BY <4>1 DEF Reading
    <3> QED
      BY <1>3, <2>5, <2>6, <2>7, <3>1
  <2>9. PICK ok, nm : ok \in BOOLEAN /\ nm \in Seq(Labels) /\ rest = [ok |-> ok, name |-> nm]
    BY <2>8 DEF Reading
  <2>10. label \o nm \in Seq(Labels)
    BY <2>2, <2>9, Joined
  <2>11. NameLed(buf, led, at) = [ok |-> ok, name |-> label \o nm]
    BY <2>4, <2>9
  <2>12. NameLed(buf, led, at) \in Reading
    BY <2>9, <2>10, <2>11 DEF Reading
  <2>13. /\ IsCell(buf, stop, "end") <=> buf[stop].k = "end"
         /\ IsCell(buf, stop, "pointer") <=> buf[stop].k = "pointer"
    BY <2>1 DEF IsCell
  <2>14. label \o <<>> = label
    BY <2>2, ConcatEmptySeq
  <2>15. buf[stop].k = "end" => ok /\ label \o nm = label
    BY <2>5, <2>9, <2>14
  <2>16. buf[stop].k = "pointer" => (ok <=> led[buf[stop].to].ok) /\ nm = led[buf[stop].to].name
    BY <2>6, <2>9
  <2>17. buf[stop].k # "end" /\ buf[stop].k # "pointer" => ~ ok
    BY <1>3, <2>7, <2>9
  <2>18. (NameLed(buf, led, at).ok <=> ok) /\ NameLed(buf, led, at).name = label \o nm
        /\ label \o nm = Together(label, nm)
    BY <2>11 DEF Together
  <2> QED
    BY <1>2, <2>2, <2>12, <2>13, <2>15, <2>16, <2>17, <2>18
<1> QED
  BY <1>4, <1>5

\* The readings are computed one after the other.
LEMMA ReadOn ==
  ASSUME NEW buf, Packet(buf)
  PROVE  /\ \A n \in Nat : Readings(buf)[n] \in [Nat -> Reading]
         /\ \A at \in Nat : Readings(buf)[0][at] = NoName
         /\ \A n \in Nat : \A at \in Nat :
               Readings(buf)[n + 1][at] = NameLed(buf, Readings(buf)[n], at)
<1>1. PICK start : start = [at \in Nat |-> NoName]
  OBVIOUS
<1>2. start \in [Nat -> Reading]
  <2>1. <<>> \in Seq(Labels)
    OBVIOUS
  <2> QED
    BY <1>1, <2>1 DEF NoName, Reading
<1>3. PICK F : F = [n \in Nat |-> [led \in [Nat -> Reading] |->
                       [at \in Nat |-> NameLed(buf, led, at)]]]
  OBVIOUS
<1>4. F \in [Nat -> [[Nat -> Reading] -> [Nat -> Reading]]]
  <2>1. \A led \in [Nat -> Reading], at \in Nat : NameLed(buf, led, at) \in Reading
    BY NameLedCases
  <2> QED
    BY <1>3, <2>1
<1>5. PICK g : g \in [Nat -> [Nat -> Reading]] /\ g[0] = start
                /\ \A n \in Nat : g[n + 1] = F[n][g[n]]
  <2>1. CanStep([Nat -> Reading], start, F)
    BY <1>2, <1>4 DEF CanStep
  <2>2. PICK g : Steps([Nat -> Reading], start, F, g)
    BY <2>1, StepByStep
  <2> QED
    BY <2>2 DEF Steps
<1>6. ASSUME NEW n \in Nat PROVE g[n + 1] = [at \in Nat |-> NameLed(buf, g[n], at)]
  BY <1>3, <1>5, <1>6
<1>7. ASSUME NEW n \in Nat
      PROVE  g[n] = [at \in Nat |-> IF n = 0 THEN NoName ELSE NameLed(buf, g[n - 1], at)]
  <2>1. CASE n = 0
    BY <1>1, <1>5, <2>1
  <2>2. CASE n # 0
    <3>1. n - 1 \in Nat /\ (n - 1) + 1 = n
      BY <2>2
    <3>2. g[(n - 1) + 1] = [at \in Nat |-> NameLed(buf, g[n - 1], at)]
      BY <1>6, <3>1
    <3> QED
      BY <2>2, <3>1, <3>2
  <2> QED
    BY <2>1, <2>2
<1>8. g = [n \in Nat |->
              [at \in Nat |-> IF n = 0 THEN NoName ELSE NameLed(buf, g[n - 1], at)]]
  BY <1>5, <1>7
<1>9. PICK R : R = Readings(buf)
  OBVIOUS
<1>10. R = [n \in Nat |->
               [at \in Nat |-> IF n = 0 THEN NoName ELSE NameLed(buf, R[n - 1], at)]]
  BY <1>8, <1>9 DEF Readings
<1>11. R[0] = start
  BY <1>1, <1>10
<1>12. ASSUME NEW n \in Nat PROVE R[n + 1] = [at \in Nat |-> NameLed(buf, R[n], at)]
  <2>1. n + 1 \in Nat /\ n + 1 # 0 /\ (n + 1) - 1 = n
    OBVIOUS
  <2> QED
    BY <1>10, <2>1
<1>13. \A n \in Nat : R[n] \in [Nat -> Reading]
  <2> DEFINE U == {n \in Nat : R[n] \in [Nat -> Reading]}
  <2>1. 0 \in U
    BY <1>2, <1>11
  <2>2. ASSUME NEW n \in Nat, n \in U PROVE n + 1 \in U
    <3>1. \A at \in Nat : NameLed(buf, R[n], at) \in Reading
      BY <2>2, NameLedCases
    <3>2. R[n + 1] = [at \in Nat |-> NameLed(buf, R[n], at)]
      BY <1>12
    <3>3. R[n + 1] \in [Nat -> Reading]
      BY <3>1, <3>2
    <3> QED
      BY <3>3
  <2>3. \A n \in Nat : n \in U
    <3> HIDE DEF U
    <3> QED
      BY <2>1, <2>2, Induction
  <2> QED
    BY <2>3
<1> QED
  BY <1>1, <1>9, <1>11, <1>12, <1>13

\* More turns read no less.
LEMMA ReadMore ==
  ASSUME NEW buf, Packet(buf)
  PROVE  \A n \in Nat : \A at \in Nat :
             Readings(buf)[n][at].ok => Readings(buf)[n + 1][at].ok
<1>1. PICK R : R = Readings(buf)
  OBVIOUS
<1> DEFINE U == {n \in Nat : \A at \in Nat : R[n][at].ok => R[n + 1][at].ok}
<1>2. 0 \in U
  <2>1. \A at \in Nat : ~ R[0][at].ok
    BY <1>1, ReadOn DEF NoName
  <2> QED
    BY <2>1
<1>3. ASSUME NEW n \in Nat, n \in U PROVE n + 1 \in U
  <2>1. SUFFICES ASSUME NEW at \in Nat, R[n + 1][at].ok PROVE R[(n + 1) + 1][at].ok
    OBVIOUS
  <2>2. PICK stop : stop = Stop(buf, at)
    OBVIOUS
  <2>3. R[n] \in [Nat -> Reading] /\ R[n + 1] \in [Nat -> Reading]
    BY <1>1, ReadOn
  <2>4. R[n + 1][at] = NameLed(buf, R[n], at) /\ R[(n + 1) + 1][at] = NameLed(buf, R[n + 1], at)
    BY <1>1, ReadOn
  <2>5. CASE IsCell(buf, stop, "end")
    BY <2>2, <2>3, <2>4, <2>5, NameLedCases
  <2>6. CASE IsCell(buf, stop, "pointer")
    <3>1. buf[stop].to \in Nat
      BY <2>6, Positions, CellFacts DEF IsCell
    <3>2. R[n + 1][at].ok <=> R[n][buf[stop].to].ok
      BY <2>2, <2>3, <2>4, <2>6, NameLedCases
    <3>3. R[(n + 1) + 1][at].ok <=> R[n + 1][buf[stop].to].ok
      BY <2>2, <2>3, <2>4, <2>6, NameLedCases
    <3> QED
      BY <1>3, <2>1, <3>1, <3>2, <3>3
  <2>7. IsCell(buf, stop, "end") \/ IsCell(buf, stop, "pointer")
    BY <2>1, <2>2, <2>3, <2>4, NameLedCases
  <2> QED
    BY <2>5, <2>6, <2>7
<1>4. \A n \in Nat : n \in U
  <2> HIDE DEF U
  <2> QED
    BY <1>2, <1>3, Induction
<1> QED
  BY <1>1, <1>4

\* Following d pointers takes d turns of reading: whether there is a name ...
LEMMA Onward ==
  ASSUME NEW buf, Packet(buf), NEW offset \in Nat, NEW j \in Nat
  PROVE  \A d \in Nat :
            j + d <= Turns(buf) /\ ParseTurns(buf, offset)[j + d].st = "reading" =>
               \A m \in Nat :
                  Readings(buf)[m + d][ParseTurns(buf, offset)[j].at].ok <=>
                  Readings(buf)[m][ParseTurns(buf, offset)[j + d].at].ok
<1>1. PICK T, R : T = ParseTurns(buf, offset) /\ R = Readings(buf)
  OBVIOUS
<1> DEFINE Same(d) == \A m \in Nat : R[m + d][T[j].at].ok <=> R[m][T[j + d].at].ok
           U == {d \in Nat : j + d <= Turns(buf) /\ T[j + d].st = "reading" => Same(d)}
<1>2. Turns(buf) \in Nat
  BY Positions DEF Turns
<1>3. 0 \in U
  <2>1. j + 0 = j /\ \A m \in Nat : m + 0 = m
    OBVIOUS
  <2>2. Same(0)
    BY <2>1
  <2> QED
    BY <2>2
<1>4. ASSUME NEW d \in Nat, d \in U PROVE d + 1 \in U
  <2>1. SUFFICES ASSUME j + (d + 1) <= Turns(buf), T[j + (d + 1)].st = "reading"
                 PROVE  Same(d + 1)
    OBVIOUS
  <2>2. PICK n \in 0 .. Turns(buf) - 1 : n = j + d /\ n + 1 = j + (d + 1)
    BY <1>2, <2>1
  <2>3. PICK p : p = T[n]
    OBVIOUS
  <2>4. p \in ParserStates /\ p.st = "reading" /\ AtPointer(buf, p)
        /\ T[n + 1] = Jumped(buf, p)
    BY <1>1, <2>1, <2>2, <2>3, TurnOn
  <2>5. PICK to \in Nat : to = buf[Stop(buf, p.at)].to
    BY <2>4, Positions, CellFacts DEF AtPointer, IsCell
  <2>6. p.at \in Nat /\ T[n + 1].at = to
    BY <2>4, <2>5 DEF ParserStates, Jumped
  <2>7. Same(d)
    BY <1>2, <1>4, <2>2, <2>3, <2>4
  <2>8. ASSUME NEW m \in Nat PROVE R[m + (d + 1)][T[j].at].ok <=> R[m][to].ok
    <3>1. R[m + 1][p.at] = NameLed(buf, R[m], p.at) /\ R[m] \in [Nat -> Reading]
      BY <1>1, <2>6, ReadOn
    <3>2. R[m + 1][p.at].ok <=> R[m][to].ok
      BY <2>4, <2>5, <2>6, <3>1, NameLedCases DEF AtPointer
    <3>3. R[(m + 1) + d][T[j].at].ok <=> R[m + 1][p.at].ok
      BY <2>2, <2>3, <2>7
    <3>4. (m + 1) + d = m + (d + 1)
      OBVIOUS
    <3> QED
      BY <3>2, <3>3, <3>4
  <2> QED
    BY <2>2, <2>6, <2>8
<1>5. \A d \in Nat : d \in U
  <2> HIDE DEF U
  <2> QED
    BY <1>3, <1>4, Induction
<1> QED
  BY <1>1, <1>5

\* ... and what it is.
AddsToName(buf, offset, n) ==
    \A m \in Nat : Readings(buf)[m + n][offset].name =
                    ParseTurns(buf, offset)[n].name
                       \o Readings(buf)[m][ParseTurns(buf, offset)[n].at].name

LEMMA OnwardNames ==
  ASSUME NEW buf, Packet(buf), NEW offset \in Nat
  PROVE  \A n \in Nat :
            n <= Turns(buf) /\ ParseTurns(buf, offset)[n].st = "reading" =>
               AddsToName(buf, offset, n)
<1>1. PICK T, R : T = ParseTurns(buf, offset) /\ R = Readings(buf)
  OBVIOUS
<1> DEFINE Same(n) == \A m \in Nat : R[m + n][offset].name = T[n].name \o R[m][T[n].at].name
           U == {n \in Nat : n <= Turns(buf) /\ T[n].st = "reading" => Same(n)}
<1>2. Turns(buf) \in Nat
  BY Positions DEF Turns
<1>3. Same(0)
  <2>1. T[0].name = <<>> /\ T[0].at = offset
    <3>1. T[0] = [st |-> "reading", at |-> offset, name |-> <<>>, visited |-> {}, end |-> 0]
      BY <1>1, TurnByTurn
    <3> QED
      BY <3>1
  <2>2. ASSUME NEW m \in Nat PROVE R[m + 0][offset].name = <<>> \o R[m][offset].name
    <3>1. R[m] \in [Nat -> Reading] /\ m + 0 = m
      BY <1>1, ReadOn
    <3>2. PICK nm : nm = R[m][offset].name /\ nm \in Seq(Labels)
      BY <3>1 DEF Reading
    <3>3. <<>> \o nm = nm
      BY <3>2, ConcatEmptySeq
    <3> QED
      BY <3>1, <3>2, <3>3
  <2>3. PICK start : start = <<>>
    OBVIOUS
  <2>4. ASSUME NEW m \in Nat PROVE R[m + 0][offset].name = T[0].name \o R[m][T[0].at].name
    <3>1. R[m + 0][offset].name = start \o R[m][offset].name
      BY ONLY <2>2, <2>3, <2>4
    <3> QED
      BY ONLY <2>1, <2>3, <3>1
  <2> QED
    BY ONLY <2>4
<1>4. ASSUME NEW n \in Nat, n + 1 <= Turns(buf), T[n + 1].st = "reading",
             T[n].st = "reading" => Same(n)
      PROVE  T[n].st = "reading" /\ Same(n + 1)
  <2> HIDE DEF Same
  <2>2. n \in 0 .. Turns(buf) - 1
    BY <1>2, <1>4
  <2>3. PICK p : p = T[n]
    OBVIOUS
  <2>4. p \in ParserStates /\ p.st = "reading" /\ AtPointer(buf, p)
        /\ T[n + 1] = Jumped(buf, p)
    BY <1>1, <1>4, <2>2, <2>3, TurnOn
  <2>5. PICK to \in Nat : to = buf[Stop(buf, p.at)].to
    BY <2>4, Positions, CellFacts DEF AtPointer, IsCell
  <2>6. PICK label : label = Labelled(buf, p.at)
    OBVIOUS
  <2>7. p.at \in Nat /\ p.name \in Seq(Labels)
        /\ T[n + 1].at = to /\ T[n + 1].name = p.name \o label
    BY <2>4, <2>5, <2>6 DEF ParserStates, Jumped
  <2>8. label \in Seq(Labels)
    <3>1. Stop(buf, p.at) \in 1 .. Len(buf) /\ buf[Stop(buf, p.at)].k # "header"
      BY <2>4, Positions DEF AtPointer, IsCell
    <3>2. p.at \in 1 .. Len(buf)
      BY <2>7, <3>1, NameInside, Positions
    <3> QED
      BY <2>6, <3>2, LabelledFacts
  <2>9. Same(n)
    BY <1>4, <2>3, <2>4
  <2>10. PICK before : before = p.name /\ before \in Seq(Labels)
    BY <2>7
  <2>11. ASSUME NEW m \in Nat
         PROVE  R[m + (n + 1)][offset].name = (before \o label) \o R[m][to].name
    <3>1. R[m + 1][p.at] = NameLed(buf, R[m], p.at) /\ R[m] \in [Nat -> Reading]
      <4>1. p.at \in Nat
        BY <2>7
      <4>2. /\ Readings(buf)[m] \in [Nat -> Reading]
            /\ Readings(buf)[m + 1][p.at] = NameLed(buf, Readings(buf)[m], p.at)
        BY ONLY Packet(buf), m \in Nat, <4>1, ReadOn
      <4> QED
        BY <1>1, <4>2
    <3>2. PICK rest : rest = R[m][to].name /\ rest \in Seq(Labels)
      BY <3>1, <2>5 DEF Reading
    <3>3. NameLed(buf, R[m], p.at).name =
                Together(Labelled(buf, p.at), R[m][buf[Stop(buf, p.at)].to].name)
      <4>1. IsCell(buf, Stop(buf, p.at), "pointer")
        BY <2>4 DEF AtPointer
      <4>2. p.at \in Nat /\ R[m] \in [Nat -> Reading]
        BY ONLY <2>7, <3>1
      <4> QED
        BY ONLY Packet(buf), <4>1, <4>2, NameLedCases, Zenon
    <3>4. R[m + 1][p.at].name = label \o rest
      BY ONLY <2>5, <2>6, <3>1, <3>2, <3>3 DEF Together
    <3>5. R[(m + 1) + n][offset].name = before \o R[m + 1][p.at].name
      <4>1. m + 1 \in Nat
        OBVIOUS
      <4>2. R[(m + 1) + n][offset].name = T[n].name \o R[m + 1][T[n].at].name
        BY ONLY <2>9, <4>1 DEF Same
      <4> QED
        BY ONLY <2>3, <2>10, <4>2
    <3>6. (m + 1) + n = m + (n + 1)
      OBVIOUS
    <3>7. (before \o label) \o rest = before \o (label \o rest)
      <4>1. before \in Seq(Labels) /\ label \in Seq(Labels) /\ rest \in Seq(Labels)
        BY <2>8, <2>10, <3>2
      <4> QED
        BY ONLY <4>1, ConcatAssociative
    <3> QED
      BY ONLY <3>2, <3>4, <3>5, <3>6, <3>7
  <2>12. ASSUME NEW m \in Nat
         PROVE  R[m + (n + 1)][offset].name = T[n + 1].name \o R[m][T[n + 1].at].name
    BY ONLY <2>7, <2>10, <2>11, <2>12
  <2>13. Same(n + 1)
    BY ONLY <2>12 DEF Same
  <2> QED
    BY <2>3, <2>4, <2>13
<1> HIDE DEF Same
<1>5. 0 \in U
  BY <1>3
<1>6. ASSUME NEW n \in Nat, n \in U PROVE n + 1 \in U
  BY <1>2, <1>4, <1>6
<1>7. \A n \in Nat : n \in U
  <2> HIDE DEF U
  <2> QED
    BY <1>5, <1>6, Induction
<1>8. ASSUME NEW n \in Nat, n <= Turns(buf), T[n].st = "reading" PROVE Same(n)
  BY <1>7, <1>8
<1>9. ASSUME NEW n \in Nat, Same(n) PROVE AddsToName(buf, offset, n)
  BY ONLY <1>1, <1>9 DEF Same, AddsToName
<1> QED
  BY <1>1, <1>8, <1>9

\* Where reading comes back to after following pointers there is no name.
LEMMA NoNameInALoop ==
  ASSUME NEW buf, Packet(buf), NEW at \in Nat, NEW d \in Nat,
         \A m \in Nat : Readings(buf)[m + (d + 1)][at].ok <=> Readings(buf)[m][at].ok
  PROVE  \A n \in Nat : ~ Readings(buf)[n][at].ok
<1>1. PICK R : R = Readings(buf)
  OBVIOUS
<1>2. ASSUME NEW n \in Nat, ~ R[n + 1][at].ok PROVE ~ R[n][at].ok
  BY <1>1, <1>2, ReadMore
<1>3. ASSUME NEW n \in Nat
      PROVE  \A e \in Nat : ~ R[n + e][at].ok => ~ R[n][at].ok
  <2> DEFINE V == {e \in Nat : ~ R[n + e][at].ok => ~ R[n][at].ok}
  <2>1. 0 \in V
    <3>1. n + 0 = n
      OBVIOUS
    <3> QED
      BY <3>1
  <2>2. ASSUME NEW e \in Nat, e \in V PROVE e + 1 \in V
    <3>1. n + (e + 1) = (n + e) + 1 /\ n + e \in Nat
      OBVIOUS
    <3>2. ~ R[(n + e) + 1][at].ok => ~ R[n + e][at].ok
      BY <1>2, <3>1
    <3> QED
      BY <2>2, <3>1, <3>2
  <2>3. \A e \in Nat : e \in V
    <3> HIDE DEF V
    <3> QED
      BY <2>1, <2>2, Induction
  <2> QED
    BY <2>3
<1> DEFINE U == {n \in Nat : ~ R[n][at].ok}
<1>4. 0 \in U
  <2>1. R[0][at] = NoName /\ ~ NoName.ok
    BY <1>1, ReadOn DEF NoName
  <2> QED
    BY <2>1
<1>5. ASSUME NEW n \in Nat, n \in U PROVE n + 1 \in U
  <2>1. ~ R[n + (d + 1)][at].ok
    BY <1>1, <1>5
  <2>2. n + (d + 1) = (n + 1) + d
    OBVIOUS
  <2>3. ~ R[n + 1][at].ok
    <3>1. ~ R[(n + 1) + d][at].ok /\ n + 1 \in Nat
      BY <2>1, <2>2
    <3> QED
      BY <1>3, <3>1
  <2> QED
    BY <2>3
<1>6. \A n \in Nat : n \in U
  <2> HIDE DEF U
  <2> QED
    BY <1>4, <1>5, Induction
<1> QED
  BY <1>1, <1>6

\* What Behind says is where parseName stops at first.
LEMMA BehindStop ==
  ASSUME NEW buf, Packet(buf), NEW at \in Nat, Stop(buf, at) <= Len(buf),
         buf[Stop(buf, at)].k \in {"end", "pointer"}
  PROVE  Behind(buf, at) = Stop(buf, at) + 1
<1> DEFINE W == {i \in DOMAIN buf : i >= at /\ buf[i].k \in {"end", "pointer"}} \cup {Len(buf)}
<1>1. Len(buf) \in Nat /\ DOMAIN buf = 1 .. Len(buf)
  BY Positions
<1>2. PICK s \in 1 .. Len(buf) : s = Stop(buf, at)
  BY <1>1, StopFacts
<1>3. s >= at /\ \A i \in 1 .. Len(buf) : i >= at /\ i < s => buf[i].k = "label"
  BY <1>2, StopFacts
<1>4. s \in W
  BY <1>1, <1>2, <1>3
<1>5. ASSUME NEW i \in W PROVE s <= i
  <2>1. CASE i = Len(buf)
    BY <1>1, <1>2, <2>1
  <2>2. CASE i \in 1 .. Len(buf) /\ i >= at /\ buf[i].k \in {"end", "pointer"}
    <3>1. ~ (i < s)
      BY <1>3, <2>2
    <3> QED
      BY <1>2, <2>2, <3>1
  <2> QED
    BY <1>1, <2>1, <2>2
<1>6. W \subseteq Nat /\ W # {}
  <2>1. \A i \in W : i \in Nat
    BY <1>1
  <2> QED
    BY <1>4, <2>1
<1>7. PICK m : m = Min(W)
  OBVIOUS
<1>8. m \in W /\ m <= s
  <2> HIDE DEF W
  <2> QED
    BY <1>4, <1>6, <1>7, MinOfNaturals
<1>9. s <= m /\ m \in Nat
  <2> HIDE DEF W
  <2> QED
    BY <1>5, <1>6, <1>8
<1>10. m = s
  BY <1>2, <1>8, <1>9
<1>11. Behind(buf, at) = 1 + m
  BY <1>7 DEF Behind
<1> QED
  BY <1>2, <1>10, <1>11

\* parseName finds the name at a position, and where what follows it begins.
LEMMA ParseNameReads ==
  ASSUME NEW buf, Packet(buf), NEW offset \in Nat
  PROVE  /\ parseName(buf, offset) \in ParserStates
         /\ parseName(buf, offset).st = "done" <=> NameAt(buf, offset).ok
         /\ parseName(buf, offset).st = "done" =>
               /\ parseName(buf, offset).name = NameAt(buf, offset).name
               /\ parseName(buf, offset).end = Behind(buf, offset)
<1>1. PICK T, R : T = ParseTurns(buf, offset) /\ R = Readings(buf)
  OBVIOUS
<1>2. PICK N \in Nat : N = Turns(buf)
  BY Positions DEF Turns
<1>3. parseName(buf, offset) = T[N] /\ NameAt(buf, offset) = R[N][offset]
  BY <1>1, <1>2 DEF parseName, NameAt
<1>4. T[N].st # "reading"
  BY <1>3, ParseNameEnds
<1>5. T[0].st = "reading" /\ T[0].at = offset
  <2>1. T[0] = [st |-> "reading", at |-> offset, name |-> <<>>, visited |-> {}, end |-> 0]
    BY <1>1, TurnByTurn
  <2> QED
    BY <2>1
<1>6. PICK v \in 0 .. N : /\ T[v].st # "reading"
                          /\ \A i \in 0 .. N : T[i].st # "reading" => v <= i
  <2>1. PICK V : V = {i \in 0 .. N : T[i].st # "reading"}
    OBVIOUS
  <2>2. V \subseteq Nat /\ N \in V
    BY <1>4, <2>1
  <2>3. PICK v \in V : \A i \in V : v <= i
    BY <2>2, Smallest
  <2> QED
    BY <2>1, <2>3
<1>7. v # 0
  BY <1>5, <1>6
<1>8. PICK n \in 0 .. N - 1 : n + 1 = v
  <2>1. v - 1 \in 0 .. N - 1 /\ (v - 1) + 1 = v
    BY <1>6, <1>7
  <2> QED
    BY <2>1
<1>9. \A i \in 0 .. n : T[i].st = "reading"
  <2>1. SUFFICES ASSUME NEW i \in 0 .. n, T[i].st # "reading" PROVE FALSE
    OBVIOUS
  <2>2. i \in 0 .. N /\ ~ (v <= i)
    BY <1>8
  <2> QED
    BY <1>6, <2>1, <2>2
<1>10. PICK p : p = T[n]
  OBVIOUS
<1>11. p \in ParserStates /\ p.st = "reading" /\ T[v] = ParseTurn(buf, p)
  <2>1. n \in 0 .. N /\ n \in 0 .. n
    BY <1>8
  <2>2. p.st = "reading"
    BY <1>9, <1>10, <2>1
  <2> QED
    BY <1>1, <1>2, <1>8, <1>10, <2>1, <2>2, TurnByTurn
<1>12. T[N] = T[v]
  BY <1>1, <1>2, <1>6, TurnStays
<1>13. T[N] \in ParserStates
  <2>1. N \in 0 .. Turns(buf)
    BY <1>2
  <2> QED
    BY <1>1, <2>1, TurnByTurn
<1>14. p.at \in Nat /\ p.name \in Seq(Labels) /\ p.end \in Nat
  BY <1>11 DEF ParserStates
<1>15. ~ AtPointer(buf, p)
  <2>1. SUFFICES ASSUME AtPointer(buf, p) PROVE FALSE
    OBVIOUS
  <2>2. T[v] = Jumped(buf, p)
    BY <1>11, <2>1, TurnCases
  <2> QED
    BY <1>6, <1>11, <2>2 DEF Jumped
<1>16. \A i \in Nat : R[i] \in [Nat -> Reading]
  BY <1>1, ReadOn
<1>17. ASSUME NEW i \in Nat PROVE R[i + 1][p.at] = NameLed(buf, R[i], p.at)
  BY <1>1, <1>14, ReadOn
<1>18. PICK m \in Nat : (m + 1) + n = N /\ m + 1 \in Nat
  <2>1. (N - 1) - n \in Nat /\ (((N - 1) - n) + 1) + n = N
    BY <1>2, <1>8
  <2> QED
    BY <2>1
<1>19. n \in Nat /\ n <= Turns(buf) /\ n \in 0 .. Turns(buf)
  BY <1>2, <1>8
<1>20. R[N][offset].ok <=> R[m + 1][p.at].ok
  <2>1. 0 + n = n
    BY <1>19
  <2>2. R[(m + 1) + n][T[0].at].ok <=> R[m + 1][T[0 + n].at].ok
    BY <1>1, <1>10, <1>11, <1>18, <1>19, <2>1, Onward
  <2> QED
    BY <1>5, <1>10, <1>18, <2>1, <2>2
<1>21. R[N][offset].name = p.name \o R[m + 1][p.at].name
  <2>1. R[(m + 1) + n][offset].name = T[n].name \o R[m + 1][T[n].at].name
    <3>1. ParseTurns(buf, offset)[n].st = "reading" /\ n \in Nat /\ n <= Turns(buf)
          /\ m + 1 \in Nat /\ offset \in Nat
      BY <1>1, <1>10, <1>11, <1>18, <1>19
    <3>3. AddsToName(buf, offset, n)
      BY <3>1, OnwardNames
    <3>2. Readings(buf)[(m + 1) + n][offset].name =
          ParseTurns(buf, offset)[n].name
             \o Readings(buf)[m + 1][ParseTurns(buf, offset)[n].at].name
      BY ONLY <3>1, <3>3 DEF AddsToName
    <3> QED
      BY ONLY <1>1, <3>2
  <2> QED
    BY ONLY <1>10, <1>18, <2>1
<1>22. CASE AtEnd(buf, p)
  <2>1. T[v] = Ended(buf, p)
    BY <1>11, <1>22, TurnCases
  <2>2. R[m + 1][p.at].ok /\ R[m + 1][p.at].name = Labelled(buf, p.at)
    <3>1. IsCell(buf, Stop(buf, p.at), "end")
      BY <1>22 DEF AtEnd
    <3>2. NameLed(buf, R[m], p.at).ok /\ NameLed(buf, R[m], p.at).name = Labelled(buf, p.at)
      BY <1>14, <1>16, <3>1, NameLedCases
    <3> QED
      BY <1>17, <3>2
  <2>3. T[v].st = "done" /\ T[v].name = p.name \o Labelled(buf, p.at)
        /\ T[v].end = EndOf(buf, p)
    <3>1. PICK nm : nm = p.name \o Labelled(buf, p.at)
      OBVIOUS
    <3>2. T[v] = [st |-> "done", at |-> p.at, name |-> nm, visited |-> p.visited,
                  end |-> EndOf(buf, p)]
      BY <2>1, <3>1 DEF Ended
    <3>3. T[v].st = "done" /\ T[v].name = nm /\ T[v].end = EndOf(buf, p)
      BY ONLY <3>2
    <3> QED
      BY ONLY <3>1, <3>3, Zenon
  <2>4. /\ Stop(buf, offset) <= Len(buf)
        /\ buf[Stop(buf, offset)].k \in {"end", "pointer"}
        /\ EndOf(buf, p) = Stop(buf, offset) + 1
    <3>1. CASE n = 0
      <4>1. p.at = offset /\ p.end = 0
        BY <1>1, <1>10, <1>11, <1>19, <3>1, WhileReading
      <4> QED
        BY <1>22, <4>1, Positions DEF AtEnd, IsCell, EndOf
    <3>2. CASE n # 0
      <4>1. p.end = Stop(buf, offset) + 1 /\ p.end # 0
        <5>1. n > 0
          BY <1>19, <3>2
        <5>2. p.end = Stop(buf, offset) + 1
          BY <1>1, <1>10, <1>11, <1>19, <5>1, WhileReading
        <5>3. Stop(buf, offset) \in 1 .. Len(buf) + 1 /\ Len(buf) \in Nat
          BY StopFacts, Positions
        <5> QED
          BY <5>2, <5>3
      <4>2. T[0 + 1].st = "reading" /\ 0 \in 0 .. Turns(buf) - 1
        BY <1>2, <1>8, <1>9, <3>2
      <4>3. AtPointer(buf, T[0])
        BY <1>1, <4>2, TurnOn
      <4> QED
        BY <1>5, <4>1, <4>3, Positions DEF AtPointer, IsCell, EndOf
    <3> QED
      BY <3>1, <3>2
  <2>5. T[v].end = Behind(buf, offset)
    BY <2>3, <2>4, BehindStop
  <2>6. R[N][offset].name = T[v].name
    BY ONLY <1>21, <2>2, <2>3
  <2>7. R[N][offset].ok
    BY <1>20, <2>2
  <2> QED
    BY <1>3, <1>12, <1>13, <2>3, <2>5, <2>6, <2>7
<1>23. CASE ~ AtEnd(buf, p)
  <2>1. T[v] = Failed(p)
    BY <1>11, <1>15, <1>23, TurnCases
  <2>2. T[v].st = "error"
    BY <2>1 DEF Failed
  <2>3. ~ R[m + 1][p.at].ok
    <3>1. PICK stop : stop = Stop(buf, p.at)
      OBVIOUS
    <3>2. CASE IsCell(buf, stop, "pointer")
      <4>1. PICK to \in Nat : to = buf[stop].to
        BY <3>2, Positions, CellFacts DEF IsCell
      <4>2. ASSUME NEW i \in Nat PROVE R[i + 1][p.at].ok <=> R[i][to].ok
        <5>1. NameLed(buf, R[i], p.at).ok <=> R[i][to].ok
          BY <1>14, <1>16, <3>1, <3>2, <4>1, NameLedCases
        <5> QED
          BY <1>17, <5>1
      <4>3. to \in p.visited
        BY <1>15, <3>1, <3>2, <4>1 DEF AtPointer
      <4>4. PICK j \in 1 .. n : T[j].at = to
        BY <1>1, <1>10, <1>11, <1>19, <4>3, WhileReading
      <4>5. PICK d \in Nat : j + d = n /\ j \in Nat
        <5>1. n - j \in Nat /\ j + (n - j) = n /\ j \in Nat
          BY <1>19
        <5> QED
          BY <5>1
      <4>6. ASSUME NEW i \in Nat PROVE R[i + d][to].ok <=> R[i][p.at].ok
        BY <1>1, <1>10, <1>11, <1>19, <4>4, <4>5, Onward
      <4>7. ASSUME NEW i \in Nat PROVE R[i + (d + 1)][to].ok <=> R[i][to].ok
        <5>1. (i + 1) + d = i + (d + 1) /\ i + 1 \in Nat
          OBVIOUS
        <5>2. R[(i + 1) + d][to].ok <=> R[i + 1][p.at].ok
          BY <4>6, <5>1
        <5> QED
          BY <4>2, <5>1, <5>2
      <4>8. ~ R[m][to].ok
        BY <1>1, <4>7, NoNameInALoop
      <4> QED
        BY <4>2, <4>8
    <3>3. CASE ~ IsCell(buf, stop, "pointer")
      <4>1. ~ IsCell(buf, stop, "end")
        BY <1>23, <3>1 DEF AtEnd
      <4>2. ~ NameLed(buf, R[m], p.at).ok
        BY <1>14, <1>16, <3>1, <3>3, <4>1, NameLedCases
      <4> QED
        BY <1>17, <4>2
    <3> QED
      BY <3>2, <3>3
  <2>4. ~ R[N][offset].ok
    BY <1>20, <2>3
  <2>5. T[N].st # "done"
    BY <1>12, <2>2
  <2> QED
    BY <1>3, <1>13, <2>4, <2>5
<1> QED
  BY <1>22, <1>23

-----------------------------------------------------------------------------
(* Records *)

\* What has been parsed: nothing ends at position 0.
Parsed(Items) == {p \in [ok : BOOLEAN, items : Seq(Items), at : Nat] : p.ok => p.at # 0}

QuestionItems == [name : Seq(Labels), type : STRING]

RRItems == [name : Seq(Labels), type : STRING, data : Seq(Cells), offset : Nat]

\* The counts in the header.
LEMMA Counts ==
  ASSUME NEW buf, Packet(buf)
  PROVE  /\ buf[1].counts \in [1 .. 4 -> Nat]
         /\ Records(buf) \in Nat
         /\ buf[1].counts[1] <= Records(buf)
<1>1. PICK c \in [1 .. 4 -> Nat] : c = buf[1].counts
  BY Positions, CellFacts DEF Packet
<1>2. c[1] \in Nat /\ c[2] \in Nat /\ c[3] \in Nat /\ c[4] \in Nat
  BY <1>1
<1>3. Records(buf) = c[1] + c[2] + c[3] + c[4]
  BY <1>1 DEF Records
<1> QED
  BY <1>1, <1>2, <1>3

\* Behind is a position or the one behind the last.
LEMMA BehindType ==
  ASSUME NEW buf, Packet(buf), NEW at \in Nat
  PROVE  Behind(buf, at) \in Nat
<1> DEFINE W == {i \in DOMAIN buf : i >= at /\ buf[i].k \in {"end", "pointer"}} \cup {Len(buf)}
<1>1. Len(buf) \in Nat /\ DOMAIN buf = 1 .. Len(buf)
  BY Positions
<1>2. W \subseteq Nat /\ W # {}
  <2>1. \A i \in W : i \in Nat
    BY <1>1
  <2> QED
    BY <2>1
<1>3. PICK m : m = Min(W) /\ m \in Nat
  <2> HIDE DEF W
  <2> QED
    BY <1>2, MinOfNaturals
<1>4. Behind(buf, at) = 1 + m
  BY <1>3 DEF Behind
<1> QED
  BY <1>3, <1>4

LEMMA AfterType ==
  ASSUME NEW buf, Packet(buf), NEW i \in Nat, NEW start \in Nat
  PROVE  After(buf, i, start) \in Nat
<1>1. PICK fixed \in Nat : fixed = Behind(buf, start)
  BY BehindType
<1>2. IsCell(buf, fixed, "fixed") => buf[fixed].rdlen \in Nat
  BY Positions, CellFacts DEF IsCell
<1> QED
  BY <1>1, <1>2 DEF After

\* The positions of the records are found one after the other.
LEMMA StartByStart ==
  ASSUME NEW buf, Packet(buf)
  PROVE  /\ Starts(buf) \in [1 .. Records(buf) + 1 -> Nat]
         /\ Starts(buf)[1] = 2
         /\ \A i \in 1 .. Records(buf) :
               Starts(buf)[i + 1] = After(buf, i, Starts(buf)[i])
<1>1. PICK N \in Nat : N = Records(buf)
  BY Counts
<1>2. PICK F : F = [n \in Nat |-> [start \in Nat |-> After(buf, n + 1, start)]]
  OBVIOUS
<1>3. F \in [Nat -> [Nat -> Nat]]
  <2>1. \A n \in Nat, start \in Nat : After(buf, n + 1, start) \in Nat
    BY AfterType
  <2> QED
    BY <1>2, <2>1
<1>4. PICK g : g \in [Nat -> Nat] /\ g[0] = 2 /\ \A n \in Nat : g[n + 1] = F[n][g[n]]
  <2>1. CanStep(Nat, 2, F)
    BY <1>3 DEF CanStep
  <2>2. PICK g : Steps(Nat, 2, F, g)
    BY <2>1, StepByStep
  <2> QED
    BY <2>2 DEF Steps
<1>5. PICK h : h = [i \in 1 .. N + 1 |-> g[i - 1]]
  OBVIOUS
<1>6. ASSUME NEW i \in 1 .. N + 1
      PROVE  h[i] = IF i = 1 THEN 2 ELSE After(buf, i - 1, h[i - 1])
  <2>1. CASE i = 1
    <3>1. h[1] = g[0]
      BY <1>1, <1>5
    <3> QED
      BY <1>4, <2>1, <3>1
  <2>2. CASE i # 1
    <3>1. i - 2 \in Nat /\ (i - 2) + 1 = i - 1 /\ i - 1 \in 1 .. N + 1 /\ (i - 1) - 1 = i - 2
      BY <1>1, <2>2
    <3>2. h[i] = g[i - 1] /\ h[i - 1] = g[i - 2] /\ g[i - 2] \in Nat
      BY <1>4, <1>5, <3>1
    <3>3. g[(i - 2) + 1] = F[i - 2][g[i - 2]]
      BY <1>4, <3>1
    <3>4. F[i - 2][g[i - 2]] = After(buf, (i - 2) + 1, g[i - 2])
      BY <1>2, <3>1, <3>2
    <3> QED
      BY <2>2, <3>1, <3>2, <3>3, <3>4
  <2> QED
    BY <2>1, <2>2
<1>7. h = [i \in 1 .. N + 1 |-> IF i = 1 THEN 2 ELSE After(buf, i - 1, h[i - 1])]
  BY <1>5, <1>6
<1>8. PICK s : s = Starts(buf)
  OBVIOUS
<1>9. s = [i \in 1 .. N + 1 |-> IF i = 1 THEN 2 ELSE After(buf, i - 1, s[i - 1])]
  BY <1>1, <1>7, <1>8 DEF Starts
<1>10. s[1] = 2
  BY <1>1, <1>9
<1>11. ASSUME NEW i \in 1 .. N PROVE s[i + 1] = After(buf, i, s[i])
  <2>1. i + 1 \in 1 .. N + 1 /\ i + 1 # 1 /\ (i + 1) - 1 = i
    BY <1>1
  <2> QED
    BY <1>9, <2>1
<1>12. \A i \in 1 .. N + 1 : s[i] \in Nat
  <2> DEFINE U == {n \in Nat : n <= N => s[n + 1] \in Nat}
  <2>1. 0 \in U
    BY <1>10
  <2>2. ASSUME NEW n \in Nat, n \in U PROVE n + 1 \in U
    <3>1. SUFFICES ASSUME n + 1 <= N PROVE s[(n + 1) + 1] \in Nat
      OBVIOUS
    <3>2. n + 1 \in 1 .. N /\ n + 1 \in Nat /\ s[n + 1] \in Nat
      BY <1>1, <2>2, <3>1
    <3> QED
      BY <1>11, <3>2, AfterType
  <2>3. \A n \in Nat : n \in U
    <3> HIDE DEF U
    <3> QED
      BY <2>1, <2>2, Induction
  <2>4. ASSUME NEW i \in 1 .. N + 1 PROVE s[i] \in Nat
    <3>1. i - 1 \in Nat /\ i - 1 <= N /\ (i - 1) + 1 = i
      BY <1>1
    <3> QED
      BY <2>3, <3>1
  <2> QED
    BY <2>4
<1>13. s \in [1 .. N + 1 -> Nat]
  <2>1. DOMAIN s = 1 .. N + 1 /\ s = [i \in 1 .. N + 1 |-> s[i]]
    BY ONLY <1>9
  <2> QED
    BY <1>12, <2>1
<1> QED
  BY <1>1, <1>8, <1>10, <1>11, <1>13

\* A packet can be read when the end of its last record can be told.
LEMMA ReadableToTheEnd ==
  ASSUME NEW buf, Packet(buf)
  PROVE  /\ Readable(buf) <=> Starts(buf)[Records(buf) + 1] # 0
         /\ Readable(buf) => \A i \in 1 .. Records(buf) + 1 : Starts(buf)[i] # 0
<1>1. PICK N \in Nat : N = Records(buf)
  BY Counts
<1>2. PICK s : s = Starts(buf)
  OBVIOUS
<1>3. DOMAIN s = 1 .. N + 1 /\ \A i \in 1 .. N : s[i] = 0 => s[i + 1] = 0
  <2>1. \A i \in 1 .. N : s[i + 1] = After(buf, i, s[i])
    BY <1>1, <1>2, StartByStart
  <2>2. DOMAIN s = 1 .. N + 1
    BY <1>1, <1>2, StartByStart
  <2> QED
    BY <2>1, <2>2 DEF After
<1>4. ASSUME s[N + 1] # 0, NEW i \in 1 .. N + 1 PROVE s[i] # 0
  <2>1. SUFFICES ASSUME s[i] = 0 PROVE FALSE
    OBVIOUS
  <2> DEFINE U == {n \in Nat : i + n <= N + 1 => s[i + n] = 0}
  <2>2. 0 \in U
    <3>1. i + 0 = i
      BY <1>1
    <3> QED
      BY <2>1, <3>1
  <2>3. ASSUME NEW n \in Nat, n \in U PROVE n + 1 \in U
    <3>1. SUFFICES ASSUME i + (n + 1) <= N + 1 PROVE s[i + (n + 1)] = 0
      OBVIOUS
    <3>2. i + n \in 1 .. N /\ (i + n) + 1 = i + (n + 1) /\ s[i + n] = 0
      BY <1>1, <2>3, <3>1
    <3>3. s[(i + n) + 1] = 0
      BY <1>3, <3>2
    <3> QED
      BY <3>2, <3>3
  <2>4. \A n \in Nat : n \in U
    <3> HIDE DEF U
    <3> QED
      BY <2>2, <2>3, Induction
  <2>5. (N + 1) - i \in Nat /\ i + ((N + 1) - i) = N + 1
    BY <1>1
  <2>6. s[N + 1] = 0
    <3>1. (N + 1) - i \in U
      BY <2>4, <2>5
    <3> QED
      BY <1>1, <2>5, <3>1
  <2> QED
    BY <1>4, <2>6
<1>5. N + 1 \in 1 .. N + 1
  BY <1>1
<1>6. Readable(buf) <=> \A i \in 1 .. N + 1 : s[i] # 0
  BY <1>2, <1>3 DEF Readable
<1> QED
  BY <1>1, <1>2, <1>4, <1>5, <1>6

\* What was parsed so far ends where the next record starts, if that is known.
UpTo(before, start) ==
    (before.ok <=> start # 0) /\ (before.ok => before.at = start)

\* The data of a record.
LEMMA DataFacts ==
  ASSUME NEW buf, Packet(buf), NEW fixed \in 1 .. Len(buf), NEW n \in Nat,
         fixed + n <= Len(buf)
  PROVE  /\ SubSeq(buf, fixed + 1, fixed + n) \in Seq(Cells)
         /\ Len(SubSeq(buf, fixed + 1, fixed + n)) = n
<1>1. buf \in Seq(Cells) /\ Len(buf) \in Nat
  BY Positions DEF Packet
<1>2. fixed + 1 \in 1 .. Len(buf) + 1 /\ fixed + n \in fixed + 1 - 1 .. Len(buf)
  BY <1>1
<1>3. PICK m, last : m = fixed + 1 /\ last = fixed + n
  OBVIOUS
<1>4. m \in 1 .. Len(buf) + 1 /\ last \in m - 1 .. Len(buf) /\ last - m + 1 = n
  BY <1>1, <1>2, <1>3
<1>5. SubSeq(buf, m, last) \in Seq(Cells) /\ Len(SubSeq(buf, m, last)) = last - m + 1
  BY <1>1, <1>4, SubSeqProperties
<1> QED
  BY <1>3, <1>4, <1>5

\* A question is parsed where one can be read, up to its end.
LEMMA QuestionFollows ==
  ASSUME NEW buf, Packet(buf), NEW before \in Parsed(QuestionItems),
         NEW i \in Nat, i <= buf[1].counts[1],
         NEW start \in Nat, UpTo(before, start)
  PROVE  /\ parseQuestion(buf, before) \in Parsed(QuestionItems)
         /\ UpTo(parseQuestion(buf, before), After(buf, i, start))
<1>1. before.ok \in BOOLEAN /\ before.items \in Seq(QuestionItems) /\ before.at \in Nat
  BY DEF Parsed
<1>2. PICK n : n = parseName(buf, before.at)
  OBVIOUS
<1>3. n \in ParserStates
  BY <1>1, <1>2, ParseNameReads
<1>4. n.name \in Seq(Labels) /\ n.end \in Nat
  BY <1>3 DEF ParserStates
<1>5. CASE before.ok /\ n.st = "done" /\ IsCell(buf, n.end, "question")
  <2>1. before.at = start /\ start # 0
    BY <1>5 DEF UpTo
  <2>2. NameAt(buf, start).ok /\ n.end = Behind(buf, start)
    BY <1>1, <1>2, <1>5, <2>1, ParseNameReads
  <2>3. After(buf, i, start) = n.end + 1
    BY <1>5, <2>1, <2>2 DEF After
  <2>4. buf[n.end].type \in STRING
    BY <1>5, Positions, CellFacts DEF IsCell
  <2>5. PICK q \in QuestionItems : q = [name |-> n.name, type |-> buf[n.end].type]
    BY <1>4, <2>4 DEF QuestionItems
  <2>6. parseQuestion(buf, before) = [ok |-> TRUE, items |-> Append(before.items, q),
                                      at |-> n.end + 1]
    BY <1>2, <1>5, <2>5 DEF parseQuestion, Upto
  <2>7. Append(before.items, q) \in Seq(QuestionItems)
    BY <1>1, <2>5
  <2>8. n.end + 1 \in Nat /\ n.end + 1 # 0
    BY <1>4
  <2>9. parseQuestion(buf, before) \in Parsed(QuestionItems)
    BY <2>6, <2>7, <2>8 DEF Parsed
  <2> QED
    BY <2>3, <2>6, <2>8, <2>9 DEF UpTo
<1>6. CASE ~ (before.ok /\ n.st = "done" /\ IsCell(buf, n.end, "question"))
  <2>1. parseQuestion(buf, before) = [ok |-> FALSE, items |-> before.items, at |-> before.at]
    BY <1>2, <1>6 DEF parseQuestion, Upto
  <2>2. parseQuestion(buf, before) \in Parsed(QuestionItems)
    BY <1>1, <2>1 DEF Parsed
  <2>3. After(buf, i, start) = 0
    <3>1. CASE ~ before.ok
      BY <3>1 DEF UpTo, After
    <3>2. CASE before.ok
      <4>1. before.at = start /\ start # 0
        BY <3>2 DEF UpTo
      <4>2. n.st = "done" <=> NameAt(buf, start).ok
        BY <1>1, <1>2, <4>1, ParseNameReads
      <4>3. n.st = "done" => n.end = Behind(buf, start)
        BY <1>1, <1>2, <4>1, ParseNameReads
      <4> QED
        BY <1>6, <3>2, <4>1, <4>2, <4>3 DEF After
    <3> QED
      BY <3>1, <3>2
  <2> QED
    BY <2>1, <2>2, <2>3 DEF UpTo
<1> QED
  BY <1>5, <1>6

\* The record that is read at `at', and where its data is.
IsThere(buf, rr, at) ==
    /\ IsAsSaid(buf, rr, RecordAt(buf, at))
    /\ rr.offset = Behind(buf, at) + 1
    /\ Len(rr.data) = buf[Behind(buf, at)].rdlen

\* The record at `start' is added to what was parsed before.
AddsRR(buf, before, parsed, start) ==
    \E rr \in RRItems : /\ parsed.items = Append(before.items, rr)
                        /\ IsThere(buf, rr, start)

\* A record is parsed where one can be read, up to its end, and is the one there.
LEMMA RRFollows ==
  ASSUME NEW buf, Packet(buf), NEW before \in Parsed(RRItems),
         NEW i \in Nat, ~ (i <= buf[1].counts[1]),
         NEW start \in Nat, UpTo(before, start)
  PROVE  LET parsed == parseRR(buf, before)
         IN  /\ parsed \in Parsed(RRItems)
             /\ UpTo(parsed, After(buf, i, start))
             /\ parsed.ok => AddsRR(buf, before, parsed, start)
<1>1. before.ok \in BOOLEAN /\ before.items \in Seq(RRItems) /\ before.at \in Nat
  BY DEF Parsed
<1>2. PICK n : n = parseName(buf, before.at)
  OBVIOUS
<1>3. n \in ParserStates
  BY <1>1, <1>2, ParseNameReads
<1>4. n.name \in Seq(Labels) /\ n.end \in Nat
  BY <1>3 DEF ParserStates
<1>5. CASE /\ before.ok /\ n.st = "done" /\ IsCell(buf, n.end, "fixed")
           /\ n.end + buf[n.end].rdlen <= Len(buf)
  <2>1. before.at = start /\ start # 0
    BY <1>5 DEF UpTo
  <2>2. NameAt(buf, start).ok /\ n.end = Behind(buf, start) /\ n.name = NameAt(buf, start).name
    BY <1>1, <1>2, <1>5, <2>1, ParseNameReads
  <2>3. PICK type \in STRING, rdlen \in Nat :
            type = buf[n.end].type /\ rdlen = buf[n.end].rdlen
    BY <1>5, Positions, CellFacts DEF IsCell
  <2>4. n.end \in 1 .. Len(buf) /\ n.end + rdlen <= Len(buf) /\ Len(buf) \in Nat
    BY <1>5, <2>3, Positions DEF IsCell
  <2>5. After(buf, i, start) = n.end + rdlen + 1
    BY <1>5, <2>1, <2>2, <2>3 DEF After
  <2>6. PICK data : data = SubSeq(buf, n.end + 1, n.end + rdlen)
    OBVIOUS
  <2>7. data \in Seq(Cells) /\ Len(data) = rdlen
    BY <2>4, <2>6, DataFacts
  <2>8. PICK rr : rr = [name |-> n.name, type |-> type, data |-> data, offset |-> n.end + 1]
    OBVIOUS
  <2>9. rr \in RRItems
    BY <1>4, <2>3, <2>7, <2>8 DEF RRItems
  <2>10. parseRR(buf, before) = [ok |-> TRUE, items |-> Append(before.items, rr),
                                 at |-> n.end + rdlen + 1]
    BY <1>2, <1>5, <2>3, <2>6, <2>8 DEF parseRR, Upto
  <2>11. Append(before.items, rr) \in Seq(RRItems)
    BY <1>1, <2>9
  <2>12. n.end + rdlen + 1 \in Nat /\ n.end + rdlen + 1 # 0
    BY <1>4, <2>3
  <2>13. parseRR(buf, before) \in Parsed(RRItems)
    BY <2>10, <2>11, <2>12 DEF Parsed
  <2>14. IsThere(buf, rr, start)
    <3>1. PICK said : said = RecordAt(buf, start)
      OBVIOUS
    <3>2. said.owner = Folded(n.name) /\ said.type = type
          /\ (type \notin NameTypes \cup {"MX"} => said.data = data)
      BY <2>2, <2>3, <2>6, <3>1 DEF RecordAt
    <3>3. rr.name = n.name /\ rr.type = type /\ rr.data = data /\ rr.offset = n.end + 1
      BY <2>8
    <3>4. (n.end + 1) + Len(data) - 1 = n.end + rdlen
      <4>1. n.end \in Nat /\ rdlen \in Nat /\ Len(data) = rdlen
        BY <1>4, <2>7
      <4> QED
        BY ONLY <4>1
    <3>5. rr.data = SubSeq(buf, rr.offset, rr.offset + Len(rr.data) - 1)
      BY ONLY <2>6, <3>3, <3>4
    <3>6. IsAsSaid(buf, rr, said)
      BY ONLY <3>2, <3>3, <3>5 DEF IsAsSaid
    <3>7. rr.offset = Behind(buf, start) + 1 /\ Len(rr.data) = buf[Behind(buf, start)].rdlen
      BY ONLY <2>2, <2>3, <2>7, <3>3
    <3> QED
      BY ONLY <3>1, <3>6, <3>7 DEF IsThere
  <2>15. parseRR(buf, before).items = Append(before.items, rr)
    BY ONLY <2>10
  <2>16. UpTo(parseRR(buf, before), After(buf, i, start))
    BY ONLY <2>5, <2>10, <2>12 DEF UpTo
  <2> QED
    BY ONLY <2>9, <2>13, <2>14, <2>15, <2>16 DEF AddsRR
<1>6. CASE ~ (/\ before.ok /\ n.st = "done" /\ IsCell(buf, n.end, "fixed")
              /\ n.end + buf[n.end].rdlen <= Len(buf))
  <2>1. parseRR(buf, before) = [ok |-> FALSE, items |-> before.items, at |-> before.at]
    BY <1>2, <1>6 DEF parseRR, Upto
  <2>2. parseRR(buf, before) \in Parsed(RRItems)
    BY <1>1, <2>1 DEF Parsed
  <2>3. After(buf, i, start) = 0
    <3>1. CASE ~ before.ok
      BY <3>1 DEF UpTo, After
    <3>2. CASE before.ok
      <4>1. before.at = start /\ start # 0
        BY <3>2 DEF UpTo
      <4>2. n.st = "done" <=> NameAt(buf, start).ok
        BY <1>1, <1>2, <4>1, ParseNameReads
      <4>3. n.st = "done" => n.end = Behind(buf, start)
        BY <1>1, <1>2, <4>1, ParseNameReads
      <4> QED
        BY <1>6, <3>2, <4>1, <4>2, <4>3 DEF After
    <3> QED
      BY <3>1, <3>2
  <2>4. ~ parseRR(buf, before).ok
    BY <2>1
  <2> QED
    BY <2>2, <2>3, <2>4 DEF UpTo
<1> QED
  BY <1>5, <1>6

\* What one function makes of a start again and again exists.
Repeated(count, start, F, g) ==
    g = [i \in 0 .. count |-> IF i = 0 THEN start ELSE F[g[i - 1]]]

LEMMA Repeats ==
  ASSUME NEW S, NEW start \in S, NEW F \in [S -> S], NEW count \in Nat
  PROVE  \E g \in [0 .. count -> S] : Repeated(count, start, F, g)
<1>1. PICK H : H = [n \in Nat |-> F]
  OBVIOUS
<1>2. CanStep(S, start, H)
  BY <1>1 DEF CanStep
<1>3. PICK j : Steps(S, start, H, j)
  BY <1>2, StepByStep
<1>4. j \in [Nat -> S] /\ j[0] = start /\ \A n \in Nat : j[n + 1] = F[j[n]]
  BY <1>1, <1>3 DEF Steps
<1>5. PICK g : g = [i \in 0 .. count |-> j[i]]
  OBVIOUS
<1>6. g \in [0 .. count -> S]
  BY <1>4, <1>5
<1>7. ASSUME NEW i \in 0 .. count PROVE g[i] = IF i = 0 THEN start ELSE F[g[i - 1]]
  <2>1. CASE i = 0
    BY <1>4, <1>5, <2>1
  <2>2. CASE i # 0
    <3>1. i - 1 \in Nat /\ i - 1 \in 0 .. count /\ (i - 1) + 1 = i
      BY <2>2
    <3>2. g[i] = j[i] /\ g[i - 1] = j[i - 1] /\ j[(i - 1) + 1] = F[j[i - 1]]
      BY <1>4, <1>5, <3>1
    <3> QED
      BY <2>2, <3>1, <3>2
  <2> QED
    BY <2>1, <2>2
<1>8. Repeated(count, start, F, g)
  BY <1>5, <1>7 DEF Repeated
<1> QED
  BY <1>6, <1>8

\* The questions are parsed one after the other.
LEMMA QuestionByQuestion ==
  ASSUME NEW buf, Packet(buf), NEW count \in Nat
  PROVE  /\ QuestionsUpto(buf, count)[0] = Upto(TRUE, <<>>, 2)
         /\ \A i \in 0 .. count - 1 :
               QuestionsUpto(buf, count)[i + 1] = parseQuestion(buf, QuestionsUpto(buf, count)[i])
<1>1. PICK S, start : S = Parsed(QuestionItems) /\ start = Upto(TRUE, <<>>, 2)
  OBVIOUS
<1>2. start \in S
  <2>1. <<>> \in Seq(QuestionItems)
    OBVIOUS
  <2> QED
    BY <1>1, <2>1 DEF Upto, Parsed
<1>3. PICK F : F = [before \in S |-> parseQuestion(buf, before)]
  OBVIOUS
<1>4. F \in [S -> S]
  <2>1. ASSUME NEW before \in S PROVE parseQuestion(buf, before) \in S
    <3>1. before.ok \in BOOLEAN /\ before.at \in Nat /\ (before.ok => before.at # 0)
      BY <1>1 DEF Parsed
    <3>2. PICK at \in Nat : at = IF before.ok THEN before.at ELSE 0
      BY <3>1
    <3>3. UpTo(before, at)
      BY <3>1, <3>2 DEF UpTo
    <3>4. 0 <= buf[1].counts[1]
      BY Counts
    <3> QED
      BY <1>1, <3>3, <3>4, QuestionFollows
  <2> QED
    BY <1>3, <2>1
<1>5. PICK g \in [0 .. count -> S] : Repeated(count, start, F, g)
  BY <1>2, <1>4, Repeats
<1>6. g = [i \in 0 .. count |-> IF i = 0 THEN start ELSE parseQuestion(buf, g[i - 1])]
  <2>1. ASSUME NEW i \in 0 .. count, i # 0 PROVE F[g[i - 1]] = parseQuestion(buf, g[i - 1])
    <3>1. i - 1 \in 0 .. count
      BY <2>1
    <3> QED
      BY <1>3, <1>5, <3>1
  <2> QED
    BY <1>5, <2>1 DEF Repeated
<1>7. PICK T : T = QuestionsUpto(buf, count)
  OBVIOUS
<1>8. T = [i \in 0 .. count |-> IF i = 0 THEN start ELSE parseQuestion(buf, T[i - 1])]
  BY <1>1, <1>6, <1>7 DEF QuestionsUpto
<1>9. T[0] = start
  BY <1>8
<1>10. ASSUME NEW i \in 0 .. count - 1 PROVE T[i + 1] = parseQuestion(buf, T[i])
  <2>1. i + 1 \in 0 .. count /\ i + 1 # 0 /\ (i + 1) - 1 = i
    OBVIOUS
  <2> QED
    BY <1>8, <2>1
<1> QED
  BY <1>1, <1>7, <1>9, <1>10

\* The records are parsed one after the other.
LEMMA RRByRR ==
  ASSUME NEW buf, Packet(buf), NEW count \in Nat, NEW before,
         before.ok \in BOOLEAN, before.at \in Nat, before.ok => before.at # 0
  PROVE  /\ RRsUpto(buf, before, count)[0] = Upto(before.ok, <<>>, before.at)
         /\ \A i \in 0 .. count - 1 :
               RRsUpto(buf, before, count)[i + 1] = parseRR(buf, RRsUpto(buf, before, count)[i])
<1>1. PICK S, start : S = Parsed(RRItems) /\ start = Upto(before.ok, <<>>, before.at)
  OBVIOUS
<1>2. start \in S
  <2>1. <<>> \in Seq(RRItems)
    OBVIOUS
  <2> QED
    BY <1>1, <2>1 DEF Upto, Parsed
<1>3. PICK F : F = [p \in S |-> parseRR(buf, p)]
  OBVIOUS
<1>4. F \in [S -> S]
  <2>1. ASSUME NEW p \in S PROVE parseRR(buf, p) \in S
    <3>1. p.ok \in BOOLEAN /\ p.at \in Nat /\ (p.ok => p.at # 0)
      BY <1>1 DEF Parsed
    <3>2. PICK e \in Nat : e = IF p.ok THEN p.at ELSE 0
      BY <3>1
    <3>3. UpTo(p, e)
      BY <3>1, <3>2 DEF UpTo
    <3>4. PICK i \in Nat : ~ (i <= buf[1].counts[1])
      <4>1. buf[1].counts[1] \in Nat
        BY Counts
      <4>2. buf[1].counts[1] + 1 \in Nat /\ ~ (buf[1].counts[1] + 1 <= buf[1].counts[1])
        BY <4>1
      <4> QED
        BY <4>2
    <3> QED
      BY <1>1, <3>3, <3>4, RRFollows
  <2> QED
    BY <1>3, <2>1
<1>5. PICK g \in [0 .. count -> S] : Repeated(count, start, F, g)
  BY <1>2, <1>4, Repeats
<1>6. g = [i \in 0 .. count |-> IF i = 0 THEN start ELSE parseRR(buf, g[i - 1])]
  <2>1. ASSUME NEW i \in 0 .. count, i # 0 PROVE F[g[i - 1]] = parseRR(buf, g[i - 1])
    <3>1. i - 1 \in 0 .. count
      BY <2>1
    <3> QED
      BY <1>3, <1>5, <3>1
  <2> QED
    BY <1>5, <2>1 DEF Repeated
<1>7. PICK T : T = RRsUpto(buf, before, count)
  OBVIOUS
<1>8. T = [i \in 0 .. count |-> IF i = 0 THEN start ELSE parseRR(buf, T[i - 1])]
  BY <1>1, <1>6, <1>7 DEF RRsUpto
<1>9. T[0] = start
  BY <1>8
<1>10. ASSUME NEW i \in 0 .. count - 1 PROVE T[i + 1] = parseRR(buf, T[i])
  <2>1. i + 1 \in 0 .. count /\ i + 1 # 0 /\ (i + 1) - 1 = i
    OBVIOUS
  <2> QED
    BY <1>8, <2>1
<1> QED
  BY <1>1, <1>7, <1>9, <1>10

\* The questions are parsed when they can be read, up to the first record.
LEMMA QuestionsParsed ==
  ASSUME NEW buf, Packet(buf)
  PROVE  LET parsed == parseQuestions(buf, buf[1].counts[1])
         IN  /\ parsed \in Parsed(QuestionItems)
             /\ UpTo(parsed, Starts(buf)[buf[1].counts[1] + 1])
<1>1. PICK N \in Nat, c \in Nat : N = Records(buf) /\ c = buf[1].counts[1] /\ c <= N
  BY Counts
<1>2. PICK s, Q : s = Starts(buf) /\ Q = QuestionsUpto(buf, c)
  OBVIOUS
<1>3. s \in [1 .. N + 1 -> Nat] /\ s[1] = 2
      /\ \A i \in 1 .. N : s[i + 1] = After(buf, i, s[i])
  BY <1>1, <1>2, StartByStart
<1>4. Q[0] = [ok |-> TRUE, items |-> <<>>, at |-> 2]
      /\ \A i \in 0 .. c - 1 : Q[i + 1] = parseQuestion(buf, Q[i])
  BY <1>1, <1>2, QuestionByQuestion DEF Upto
<1> DEFINE Good(i) == Q[i] \in Parsed(QuestionItems) /\ UpTo(Q[i], s[i + 1])
           U == {i \in Nat : i <= c => Good(i)}
<1>5. Good(0)
  <2>1. <<>> \in Seq(QuestionItems) /\ s[0 + 1] = 2
    BY <1>3
  <2>2. Q[0] \in Parsed(QuestionItems)
    BY <1>4, <2>1 DEF Parsed
  <2>3. UpTo(Q[0], s[0 + 1])
    BY <1>4, <2>1 DEF UpTo
  <2> QED
    BY <2>2, <2>3
<1>6. ASSUME NEW i \in Nat, i + 1 <= c, Good(i) PROVE Good(i + 1)
  <2>1. i \in 0 .. c - 1 /\ i + 1 \in 1 .. N /\ i + 1 \in Nat
    BY <1>1, <1>6
  <2>2. PICK start \in Nat : start = s[i + 1]
    BY <1>1, <1>3, <2>1
  <2>3. Q[i + 1] = parseQuestion(buf, Q[i]) /\ s[(i + 1) + 1] = After(buf, i + 1, start)
    BY <1>3, <1>4, <2>1, <2>2
  <2>4. Q[i] \in Parsed(QuestionItems) /\ UpTo(Q[i], start) /\ i + 1 <= buf[1].counts[1]
    BY <1>1, <1>6, <2>2
  <2>5. parseQuestion(buf, Q[i]) \in Parsed(QuestionItems)
        /\ UpTo(parseQuestion(buf, Q[i]), After(buf, i + 1, start))
    BY <2>1, <2>4, QuestionFollows
  <2> QED
    BY <2>3, <2>5
<1> HIDE DEF Good
<1>7. 0 \in U
  BY <1>5
<1>8. ASSUME NEW i \in Nat, i \in U PROVE i + 1 \in U
  BY <1>1, <1>6, <1>8
<1>9. \A i \in Nat : i \in U
  <2> HIDE DEF U
  <2> QED
    BY <1>7, <1>8, Induction
<1>10. Good(c)
  BY <1>1, <1>9
<1> QED
  BY <1>1, <1>2, <1>10 DEF Good, parseQuestions

\* The items of a section are what the records from `base' on say.
SaidFrom(buf, items, base) ==
    \A k \in 1 .. Len(items) : IsThere(buf, items[k], Starts(buf)[base + k])

\* The section of `count' records behind the first `base' ones was parsed.
SectionParsed(buf, parsed, base, count) ==
    /\ parsed \in Parsed(RRItems)
    /\ UpTo(parsed, Starts(buf)[base + count + 1])
    /\ parsed.ok => Len(parsed.items) = count /\ SaidFrom(buf, parsed.items, base)

\* A section is parsed when its records can be read.
LEMMA RRsParsed ==
  ASSUME NEW buf, Packet(buf), NEW base \in Nat, NEW count \in Nat,
         buf[1].counts[1] <= base, base + count <= Records(buf),
         NEW before, before.ok \in BOOLEAN, before.at \in Nat,
         UpTo(before, Starts(buf)[base + 1])
  PROVE  SectionParsed(buf, parseRRs(buf, before, count), base, count)
<1>1. PICK N \in Nat : N = Records(buf) /\ base + count <= N
  BY Counts
<1>2. PICK s, P : s = Starts(buf) /\ P = RRsUpto(buf, before, count)
  OBVIOUS
<1>3. s \in [1 .. N + 1 -> Nat] /\ \A i \in 1 .. N : s[i + 1] = After(buf, i, s[i])
  BY <1>1, <1>2, StartByStart
<1>4. PICK start \in Nat : start = s[base + 1]
  BY <1>1, <1>3
<1>5. PICK ok \in BOOLEAN, at \in Nat : /\ ok = before.ok /\ at = before.at
                                        /\ ok <=> start # 0
                                        /\ ok => at = start
  BY <1>2, <1>4 DEF UpTo
<1>6. P[0] = [ok |-> ok, items |-> <<>>, at |-> at]
      /\ \A i \in 0 .. count - 1 : P[i + 1] = parseRR(buf, P[i])
  <2>1. before.ok \in BOOLEAN /\ before.at \in Nat /\ (before.ok => before.at # 0)
    BY <1>5
  <2>2. /\ P[0] = Upto(before.ok, <<>>, before.at)
        /\ \A i \in 0 .. count - 1 : P[i + 1] = parseRR(buf, P[i])
    BY <1>2, <2>1, RRByRR
  <2> QED
    BY <1>5, <2>2 DEF Upto
<1> DEFINE Good(i) == /\ P[i] \in Parsed(RRItems)
                      /\ UpTo(P[i], s[base + i + 1])
                      /\ P[i].ok => Len(P[i].items) = i /\ SaidFrom(buf, P[i].items, base)
           U == {i \in Nat : i <= count => Good(i)}
<1>7. Good(0)
  <2>1. <<>> \in Seq(RRItems) /\ base + 0 + 1 = base + 1
    OBVIOUS
  <2>2. P[0] \in Parsed(RRItems)
    BY <1>5, <1>6, <2>1 DEF Parsed
  <2>3. UpTo(P[0], s[base + 0 + 1])
    BY <1>4, <1>5, <1>6, <2>1 DEF UpTo
  <2>4. P[0].items = <<>>
    BY <1>6
  <2>5. Len(<<>>) = 0 /\ SaidFrom(buf, <<>>, base)
    BY DEF SaidFrom
  <2> QED
    BY <2>2, <2>3, <2>4, <2>5
<1>8. ASSUME NEW i \in Nat, i + 1 <= count, Good(i) PROVE Good(i + 1)
  <2>1. i \in 0 .. count - 1 /\ base + i + 1 \in 1 .. N /\ base + i + 1 \in Nat
        /\ base + (i + 1) + 1 = (base + i + 1) + 1
    BY <1>1, <1>8
  <2>2. PICK at1 \in Nat : at1 = s[base + i + 1]
    BY <1>1, <1>3, <2>1
  <2>3. P[i + 1] = parseRR(buf, P[i]) /\ s[base + (i + 1) + 1] = After(buf, base + i + 1, at1)
    BY <1>3, <1>6, <2>1, <2>2
  <2>4. ~ (base + i + 1 <= buf[1].counts[1])
    <3>1. buf[1].counts[1] \in Nat
      BY Counts
    <3> QED
      BY <3>1
  <2>5. P[i] \in Parsed(RRItems) /\ UpTo(P[i], at1)
    BY <1>8, <2>2
  <2>6. /\ P[i + 1] \in Parsed(RRItems)
        /\ UpTo(P[i + 1], s[base + (i + 1) + 1])
        /\ P[i + 1].ok => AddsRR(buf, P[i], P[i + 1], at1)
    BY <2>1, <2>3, <2>4, <2>5, RRFollows
  <2>7. ASSUME P[i + 1].ok
        PROVE  Len(P[i + 1].items) = i + 1 /\ SaidFrom(buf, P[i + 1].items, base)
    <3>1. PICK rr \in RRItems : /\ P[i + 1].items = Append(P[i].items, rr)
                                /\ IsThere(buf, rr, at1)
      BY <2>6, <2>7 DEF AddsRR
    <3>2. P[i].ok
      <4>1. CASE P[i].ok
        BY <4>1
      <4>2. CASE ~ P[i].ok
        <5>1. at1 = 0
          BY <2>5, <4>2 DEF UpTo
        <5>2. s[base + (i + 1) + 1] = 0
          BY <2>3, <5>1 DEF After
        <5> QED
          BY <2>6, <2>7, <5>2 DEF UpTo
      <4> QED
        BY <4>1, <4>2
    <3>3. Len(P[i].items) = i /\ SaidFrom(buf, P[i].items, base)
      BY <1>8, <3>2
    <3>4. PICK items \in Seq(RRItems) : items = P[i].items
      BY <2>5 DEF Parsed
    <3>5. PICK more : more = Append(items, rr)
      OBVIOUS
    <3>6. Len(more) = i + 1 /\ more[i + 1] = rr /\ \A k \in 1 .. i : more[k] = items[k]
      <4>1. Len(items) = i
        BY <3>3, <3>4
      <4>2. /\ Len(Append(items, rr)) = Len(items) + 1
            /\ Append(items, rr)[Len(items) + 1] = rr
            /\ \A k \in 1 .. Len(items) : Append(items, rr)[k] = items[k]
        BY AppendProperties
      <4> QED
        BY ONLY <3>5, <4>1, <4>2
    <3>7. ASSUME NEW k \in 1 .. i + 1
          PROVE  IsThere(buf, more[k], s[base + k])
      <4>1. CASE k = i + 1
        <5>1. base + k = base + i + 1 /\ more[k] = rr
          BY <3>6, <4>1
        <5>2. s[base + k] = at1
          BY <2>2, <5>1
        <5> QED
          BY <3>1, <5>1, <5>2
      <4>2. CASE k # i + 1
        <5>1. k \in 1 .. i
          BY <4>2
        <5>2. IsThere(buf, items[k], s[base + k])
          BY <1>2, <3>3, <3>4, <5>1 DEF SaidFrom
        <5> QED
          BY <3>6, <5>1, <5>2
      <4> QED
        BY <4>1, <4>2
    <3>8. SaidFrom(buf, more, base)
      BY <1>2, <3>6, <3>7 DEF SaidFrom
    <3>9. P[i + 1].items = more
      BY <3>1, <3>4, <3>5
    <3> QED
      BY <3>6, <3>8, <3>9
  <2> QED
    BY <2>6, <2>7
<1> HIDE DEF Good
<1>9. 0 \in U
  BY <1>7
<1>10. ASSUME NEW i \in Nat, i \in U PROVE i + 1 \in U
  BY <1>8, <1>10
<1>11. \A i \in Nat : i \in U
  <2> HIDE DEF U
  <2> QED
    BY <1>9, <1>10, Induction
<1>12. Good(count)
  BY <1>11
<1> QED
  BY <1>2, <1>12 DEF Good, parseRRs, SectionParsed

\* How many records are before section j, the questions included.
Base(buf, j) ==
    LET c == buf[1].counts IN <<c[1], c[1] + c[2], c[1] + c[2] + c[3]>>[j]

\* The sections of the message in a packet.
SectionsOf(buf, m) ==
    /\ m.raw = buf
    /\ \A j \in 1 .. 3 :
          /\ m.sections[j] \in Seq(RRItems)
          /\ Len(m.sections[j]) = buf[1].counts[j + 1]
          /\ SaidFrom(buf, m.sections[j], Base(buf, j))

\* A message is parsed when the packet can be read.
LEMMA SectionsParsed ==
  ASSUME NEW buf, Packet(buf)
  PROVE  /\ ParseMessage(buf).ok <=> Readable(buf)
         /\ Readable(buf) => SectionsOf(buf, ParseMessage(buf))
<1>1. PICK c \in [1 .. 4 -> Nat] : c = buf[1].counts
  BY Counts
<1>2. PICK c1 \in Nat, c2 \in Nat, c3 \in Nat, c4 \in Nat :
         c1 = c[1] /\ c2 = c[2] /\ c3 = c[3] /\ c4 = c[4]
  BY <1>1
<1>3. Records(buf) = c1 + c2 + c3 + c4
  BY <1>1, <1>2 DEF Records
<1>4. PICK s : s = Starts(buf)
  OBVIOUS
<1>5. PICK qd, an, ns, ar : /\ qd = parseQuestions(buf, c1)
                            /\ an = parseRRs(buf, qd, c2)
                            /\ ns = parseRRs(buf, an, c3)
                            /\ ar = parseRRs(buf, ns, c4)
  OBVIOUS
<1>6. ParseMessage(buf) = [ok |-> ar.ok, questions |-> qd.items,
                           sections |-> <<an.items, ns.items, ar.items>>, raw |-> buf]
  BY <1>1, <1>2, <1>5 DEF ParseMessage
<1>7. qd.ok \in BOOLEAN /\ qd.at \in Nat /\ UpTo(qd, s[c1 + 1])
  BY <1>1, <1>2, <1>4, <1>5, QuestionsParsed DEF Parsed
<1>8. SectionParsed(buf, an, c1, c2)
  <2>1. qd.ok \in BOOLEAN /\ qd.at \in Nat /\ UpTo(qd, Starts(buf)[c1 + 1])
    BY <1>4, <1>7
  <2>2. /\ buf[1].counts[1] <= c1 /\ c1 + c2 <= Records(buf)
        /\ c1 \in Nat
    BY <1>1, <1>2, <1>3
  <2>3. SectionParsed(buf, parseRRs(buf, qd, c2), c1, c2)
    BY <2>1, <2>2, RRsParsed
  <2> QED
    BY <1>5, <2>3
<1>9. SectionParsed(buf, ns, c1 + c2, c3)
  <2>1. an.ok \in BOOLEAN /\ an.at \in Nat /\ UpTo(an, Starts(buf)[c1 + c2 + 1])
    BY <1>8 DEF SectionParsed, Parsed
  <2>2. /\ buf[1].counts[1] <= c1 + c2 /\ c1 + c2 + c3 <= Records(buf)
        /\ c1 + c2 \in Nat
    BY <1>1, <1>2, <1>3
  <2>3. SectionParsed(buf, parseRRs(buf, an, c3), c1 + c2, c3)
    BY <2>1, <2>2, RRsParsed
  <2> QED
    BY <1>5, <2>3
<1>10. SectionParsed(buf, ar, c1 + c2 + c3, c4)
  <2>1. ns.ok \in BOOLEAN /\ ns.at \in Nat /\ UpTo(ns, Starts(buf)[c1 + c2 + c3 + 1])
    BY <1>9 DEF SectionParsed, Parsed
  <2>2. /\ buf[1].counts[1] <= c1 + c2 + c3 /\ c1 + c2 + c3 + c4 <= Records(buf)
        /\ c1 + c2 + c3 \in Nat
    BY <1>1, <1>2, <1>3
  <2>3. SectionParsed(buf, parseRRs(buf, ns, c4), c1 + c2 + c3, c4)
    BY <2>1, <2>2, RRsParsed
  <2> QED
    BY <1>5, <2>3
<1>11. ParseMessage(buf).ok <=> Readable(buf)
  <2>1. ParseMessage(buf).ok = ar.ok
    BY <1>6
  <2>2. ar.ok <=> s[Records(buf) + 1] # 0
    BY <1>3, <1>4, <1>10 DEF SectionParsed, UpTo
  <2> QED
    BY <1>4, <2>1, <2>2, ReadableToTheEnd
<1>12. ASSUME Readable(buf)
       PROVE  SectionsOf(buf, ParseMessage(buf))
  <2>1. \A i \in 1 .. Records(buf) + 1 : s[i] # 0
    BY <1>4, <1>12, ReadableToTheEnd
  <2>2. c1 + c2 + 1 \in 1 .. Records(buf) + 1 /\ c1 + c2 + c3 + 1 \in 1 .. Records(buf) + 1
        /\ c1 + c2 + c3 + c4 + 1 \in 1 .. Records(buf) + 1
    BY <1>3
  <2>3. an.ok /\ ns.ok /\ ar.ok
    BY <1>4, <1>8, <1>9, <1>10, <2>1, <2>2 DEF SectionParsed, UpTo
  <2>4. Base(buf, 1) = c1 /\ Base(buf, 2) = c1 + c2 /\ Base(buf, 3) = c1 + c2 + c3
    BY <1>1, <1>2 DEF Base
  <2>5. PICK items : items = <<an.items, ns.items, ar.items>>
    OBVIOUS
  <2>6. items[1] = an.items /\ items[2] = ns.items /\ items[3] = ar.items
    BY <2>5
  <2>7. ASSUME NEW j \in 1 .. 3
        PROVE  /\ items[j] \in Seq(RRItems) /\ Len(items[j]) = c[j + 1]
               /\ SaidFrom(buf, items[j], Base(buf, j))
    <3>1. CASE j = 1
      <4>1. an.items \in Seq(RRItems) /\ Len(an.items) = c2 /\ SaidFrom(buf, an.items, c1)
        BY <1>8, <2>3 DEF SectionParsed, Parsed
      <4>2. items[j] = an.items /\ c[j + 1] = c2 /\ Base(buf, j) = c1
        BY <1>2, <2>4, <2>6, <3>1
      <4> QED
        BY ONLY <4>1, <4>2
    <3>2. CASE j = 2
      <4>1. ns.items \in Seq(RRItems) /\ Len(ns.items) = c3 /\ SaidFrom(buf, ns.items, c1 + c2)
        BY <1>9, <2>3 DEF SectionParsed, Parsed
      <4>2. items[j] = ns.items /\ c[j + 1] = c3 /\ Base(buf, j) = c1 + c2
        BY <1>2, <2>4, <2>6, <3>2
      <4> QED
        BY ONLY <4>1, <4>2
    <3>3. CASE j = 3
      <4>1. ar.items \in Seq(RRItems) /\ Len(ar.items) = c4 /\ SaidFrom(buf, ar.items, c1 + c2 + c3)
        BY <1>10, <2>3 DEF SectionParsed, Parsed
      <4>2. items[j] = ar.items /\ c[j + 1] = c4 /\ Base(buf, j) = c1 + c2 + c3
        BY <1>2, <2>4, <2>6, <3>3
      <4> QED
        BY ONLY <4>1, <4>2
    <3> QED
      BY <3>1, <3>2, <3>3
  <2>8. PICK m : m = ParseMessage(buf)
    OBVIOUS
  <2>9. m.sections = items /\ m.raw = buf
    BY <1>6, <2>5, <2>8
  <2>10. SectionsOf(buf, m)
    BY <1>1, <2>7, <2>9 DEF SectionsOf
  <2> QED
    BY <2>8, <2>10
<1> QED
  BY <1>11, <1>12

\* What the sections of a packet say, record by record.
LEMMA SaidInSections ==
  ASSUME NEW buf, Packet(buf), NEW j \in 1 .. 3
  PROVE  Said(buf)[j] = [i \in 1 .. buf[1].counts[j + 1] |->
                            RecordAt(buf, Starts(buf)[Base(buf, j) + i])]
<1>1. PICK c, s : c = buf[1].counts /\ s = Starts(buf)
  OBVIOUS
<1>2. PICK before : before = <<c[1], c[1] + c[2], c[1] + c[2] + c[3]>>
  OBVIOUS
<1>3. Said(buf) = [k \in 1 .. 3 |-> [i \in 1 .. c[k + 1] |-> RecordAt(buf, s[before[k] + i])]]
  BY <1>1, <1>2 DEF Said
<1>4. Base(buf, j) = before[j]
  BY <1>1, <1>2 DEF Base
<1> QED
  BY <1>1, <1>3, <1>4

\* A message holds what its packet says.
LEMMA ParsedAsSaid ==
  ASSUME NEW buf, Packet(buf)
  PROVE  /\ ParseMessage(buf).ok <=> Readable(buf)
         /\ Readable(buf) => AreAsSaid(buf, ParseMessage(buf).sections, Said(buf))
<1>1. PICK m : m = ParseMessage(buf)
  OBVIOUS
<1>2. ASSUME Readable(buf), NEW j \in 1 .. 3
      PROVE  /\ Len(m.sections[j]) = Len(Said(buf)[j])
             /\ \A i \in DOMAIN Said(buf)[j] : IsAsSaid(buf, m.sections[j][i], Said(buf)[j][i])
  <2>1. PICK items : items = m.sections[j]
    OBVIOUS
  <2>2. PICK k \in Nat : k = buf[1].counts[j + 1]
    BY Counts
  <2>3. Len(items) = k /\ SaidFrom(buf, items, Base(buf, j))
    BY <1>1, <1>2, <2>1, <2>2, SectionsParsed DEF SectionsOf
  <2>4. PICK said : said = Said(buf)[j]
    OBVIOUS
  <2>5. said = [i \in 1 .. k |-> RecordAt(buf, Starts(buf)[Base(buf, j) + i])]
    <3>1. Said(buf)[j] = [i \in 1 .. buf[1].counts[j + 1] |->
                             RecordAt(buf, Starts(buf)[Base(buf, j) + i])]
      BY <1>2, SaidInSections
    <3> QED
      BY ONLY <2>2, <2>4, <3>1, Zenon
  <2>6. Len(said) = k /\ DOMAIN said = 1 .. k
    BY <2>5
  <2>7. ASSUME NEW i \in 1 .. k PROVE IsAsSaid(buf, items[i], said[i])
    <3>1. PICK at : at = Starts(buf)[Base(buf, j) + i]
      OBVIOUS
    <3>2. said[i] = RecordAt(buf, at)
      BY <2>5, <3>1
    <3>3. IsThere(buf, items[i], at)
      BY <2>3, <3>1 DEF SaidFrom
    <3> QED
      BY <3>2, <3>3 DEF IsThere
  <2> QED
    BY <2>1, <2>3, <2>4, <2>6, <2>7
<1>3. Readable(buf) => AreAsSaid(buf, m.sections, Said(buf))
  BY <1>2 DEF AreAsSaid
<1> QED
  BY <1>1, <1>3, SectionsParsed

-----------------------------------------------------------------------------
(* Packets that are received *)

\* The last packet is one of those that may come, or there is none.
PacketInv == packet = <<>> \/ packet \in Packets

LEMMA PacketInvariant == MessagesSpec => []PacketInv
<1>1. MessagesInit => PacketInv
  BY DEF MessagesInit, PacketInv
<1>2. PacketInv /\ [MessagesNext]_messagesVars => PacketInv'
  BY DEF PacketInv, MessagesNext, messagesVars, Receive, FollowAlias, GiveUp, NextQuery, Return, Prepend, Reply
<1> QED
  BY <1>1, <1>2, PTL DEF MessagesSpec

\* What may come are packets.
LEMMA PacketsArePackets ==
  ASSUME NEW p \in Packets PROVE Packet(p)
  BY MessageConstants DEF Packet

\* The loop of parseName ends on every packet that comes from upstream, wherever
\* it starts (message.go:174-224).
THEOREM MessagesParserEnds == MessagesSpec => []ParserEnds
<1>1. ASSUME PacketInv PROVE ParserEnds
  <2>1. SUFFICES ASSUME NEW at \in DOMAIN packet PROVE parseName(packet, at).st # "reading"
    BY DEF ParserEnds
  <2>2. CASE packet = <<>>
    BY <2>1, <2>2
  <2>3. CASE packet \in Packets
    <3>1. Packet(packet)
      BY <2>3, PacketsArePackets
    <3>2. at \in Nat
      BY <3>1, Positions
    <3>3. parseName(packet, at).st \in {"done", "error"}
      BY <3>1, <3>2, ParseNameEnds
    <3> QED
      BY <3>3
  <2> QED
    BY <1>1, <2>2, <2>3 DEF PacketInv
<1> QED
  BY <1>1, PacketInvariant, PTL

\* ParseMessage takes exactly the packets that can be read, and finds in them
\* what they say (message.go:97-172).
THEOREM MessagesParsesWhatIsSaid == MessagesSpec => []ParsesWhatIsSaid
<1>1. ASSUME PacketInv PROVE ParsesWhatIsSaid
  <2>1. SUFFICES ASSUME packet # <<>>
                 PROVE  /\ ParseMessage(packet).ok <=> Readable(packet)
                        /\ ParseMessage(packet).ok =>
                              AreAsSaid(packet, ParseMessage(packet).sections, Said(packet))
    BY DEF ParsesWhatIsSaid
  <2>2. Packet(packet)
    BY <1>1, <2>1, PacketsArePackets DEF PacketInv
  <2> QED
    BY <2>2, ParsedAsSaid
<1> QED
  BY <1>1, PacketInvariant, PTL

-----------------------------------------------------------------------------
(* A packet that grows *)

\* c is b and more; only lengths that are filled in later may differ.
Grows(b, c) ==
    /\ Len(b) <= Len(c)
    /\ \A i \in 1 .. Len(b) :
          /\ c[i].k = b[i].k
          /\ b[i].k \in {"label", "pointer", "end"} => c[i] = b[i]

\* Labels end where they ended.
LEMMA StopStays ==
  ASSUME NEW b, NEW c, Packet(b), Packet(c), Grows(b, c), NEW at \in Nat,
         Stop(b, at) <= Len(b)
  PROVE  Stop(c, at) = Stop(b, at)
<1>1. PICK s \in 1 .. Len(b) : s = Stop(b, at)
  BY Positions, StopFacts
<1>2. PICK t \in 1 .. Len(c) + 1 : t = Stop(c, at)
  BY StopFacts
<1>3. Len(b) \in Nat /\ Len(c) \in Nat /\ Len(b) <= Len(c)
  BY Positions DEF Grows
<1>4. \A i \in 1 .. Len(b) : c[i].k = b[i].k
  BY DEF Grows
<1>5. s >= at /\ c[s].k # "label"
  BY <1>1, <1>4, StopFacts
<1>6. ~ (s < t)
  <2>1. s \in 1 .. Len(c)
    BY <1>3
  <2>2. s < t => c[s].k = "label"
    BY <1>2, <1>5, <2>1, StopFacts
  <2> QED
    BY <1>5, <2>2
<1>7. ~ (t < s)
  <2>1. SUFFICES ASSUME t < s PROVE FALSE
    OBVIOUS
  <2>2. t \in 1 .. Len(b) /\ t <= Len(c)
    BY <1>1, <1>2, <1>3, <2>1
  <2>3. t >= at /\ c[t].k # "label"
    BY <1>2, <2>2, StopFacts
  <2>4. b[t].k = "label"
    BY <1>1, <2>1, <2>2, <2>3, StopFacts
  <2> QED
    BY <1>4, <2>2, <2>3, <2>4
<1> QED
  BY <1>1, <1>2, <1>6, <1>7

\* What is known of a name that is led to by `led', and ends.
LEMMA LedName ==
  ASSUME NEW buf, Packet(buf), NEW led \in [Nat -> Reading], NEW at \in Nat,
         NameLed(buf, led, at).ok
  PROVE  /\ at \in 1 .. Len(buf)
         /\ Stop(buf, at) \in 1 .. Len(buf)
         /\ Stop(buf, at) >= at
         /\ buf[Stop(buf, at)].k \in {"end", "pointer"}
<1>1. PICK s : s = Stop(buf, at)
  OBVIOUS
<1>2. IsCell(buf, s, "end") \/ IsCell(buf, s, "pointer")
  BY <1>1, NameLedCases
<1>3. s \in 1 .. Len(buf) /\ buf[s].k \in {"end", "pointer"}
  BY <1>2, Positions DEF IsCell
<1>4. s <= Len(buf) /\ s >= at
  BY <1>1, <1>3, Positions, StopFacts
<1>5. at \in 1 .. Len(buf)
  BY <1>1, <1>3, <1>4, NameInside
<1> QED
  BY <1>1, <1>3, <1>4, <1>5

\* The labels from a place on, in a packet that has grown.
LEMMA LabelledStays ==
  ASSUME NEW b, NEW c, Packet(b), Packet(c), Grows(b, c), NEW at \in Nat,
         Stop(b, at) <= Len(b), at \in 1 .. Len(b)
  PROVE  Labelled(c, at) = Labelled(b, at)
<1>1. PICK s \in 1 .. Len(b) : s = Stop(b, at)
  BY Positions, StopFacts
<1>2. Stop(c, at) = s
  BY <1>1, StopStays
<1>3. ASSUME NEW i \in 1 .. s - at PROVE c[at + i - 1].label = b[at + i - 1].label
  <2>1. at + i - 1 \in 1 .. Len(b) /\ at + i - 1 >= at /\ at + i - 1 < s
    BY <1>1
  <2>2. b[at + i - 1].k = "label"
    BY <1>1, <2>1, StopFacts
  <2> QED
    BY <2>1, <2>2 DEF Grows
<1> QED
  BY <1>1, <1>2, <1>3 DEF Labelled

\* A name that is there stays as it is, with any more pointers to follow.
LEMMA ReadingStays ==
  ASSUME NEW b, NEW c, Packet(b), Packet(c), Grows(b, c), NEW k \in Nat
  PROVE  \A n \in Nat : \A at \in Nat :
            Readings(b)[n][at].ok => Readings(c)[n + k][at] = Readings(b)[n][at]
<1>1. PICK R, Q : R = Readings(b) /\ Q = Readings(c)
  OBVIOUS
<1> DEFINE U == {n \in Nat : \A at \in Nat : R[n][at].ok => Q[n + k][at] = R[n][at]}
<1>2. 0 \in U
  <2>1. \A at \in Nat : ~ R[0][at].ok
    BY <1>1, ReadOn DEF NoName
  <2> QED
    BY <2>1
<1>3. ASSUME NEW n \in Nat, n \in U PROVE n + 1 \in U
  <2>1. SUFFICES ASSUME NEW at \in Nat, R[n + 1][at].ok
                 PROVE  Q[(n + 1) + k][at] = R[n + 1][at]
    OBVIOUS
  <2>2. PICK s : s = Stop(b, at)
    OBVIOUS
  <2>3. R[n] \in [Nat -> Reading] /\ Q[n + k] \in [Nat -> Reading]
    BY <1>1, ReadOn
  <2>4. n + k \in Nat /\ (n + 1) + k = (n + k) + 1
    OBVIOUS
  <2>5. R[n + 1][at] = NameLed(b, R[n], at) /\ Q[(n + 1) + k][at] = NameLed(c, Q[n + k], at)
    BY <1>1, <2>4, ReadOn
  <2>6. at \in 1 .. Len(b) /\ s \in 1 .. Len(b) /\ b[s].k \in {"end", "pointer"}
    BY <2>1, <2>2, <2>3, <2>5, LedName
  <2>7. Stop(c, at) = s /\ s <= Len(b) /\ Labelled(c, at) = Labelled(b, at)
    BY <2>2, <2>6, Positions, StopStays, LabelledStays
  <2>8. c[s] = b[s] /\ s \in DOMAIN b /\ s \in DOMAIN c
    BY <2>6, Positions DEF Grows
  <2>9. PICK r, q : r = NameLed(b, R[n], at) /\ q = NameLed(c, Q[n + k], at)
    OBVIOUS
  <2>10. r \in Reading /\ q \in Reading
    BY <2>3, <2>9, NameLedCases
  <2>11. r.ok /\ q.ok /\ r.name = q.name
    <3>1. CASE b[s].k = "end"
      <4>1. IsCell(b, s, "end") /\ IsCell(c, s, "end")
        BY <2>8, <3>1 DEF IsCell
      <4> QED
        BY <2>2, <2>3, <2>7, <2>9, <4>1, NameLedCases
    <3>2. CASE b[s].k = "pointer"
      <4>1. IsCell(b, s, "pointer") /\ IsCell(c, s, "pointer")
        BY <2>8, <3>2 DEF IsCell
      <4>2. b[s].to \in Nat
        BY <2>6, <3>2, Positions, CellFacts
      <4>3. R[n][b[s].to].ok
        BY <2>1, <2>2, <2>3, <2>5, <4>1, NameLedCases
      <4>4. Q[n + k][b[s].to] = R[n][b[s].to]
        BY <1>3, <4>2, <4>3
      <4>5. r.name = Together(Labelled(b, at), R[n][b[s].to].name) /\ r.ok
        BY <2>1, <2>2, <2>3, <2>5, <2>9, <4>1, NameLedCases
      <4>6. /\ q.name = Together(Labelled(c, at), Q[n + k][c[s].to].name)
            /\ q.ok <=> Q[n + k][c[s].to].ok
        BY <2>3, <2>7, <2>9, <4>1, NameLedCases
      <4> QED
        BY <2>7, <2>8, <4>3, <4>4, <4>5, <4>6
    <3> QED
      BY <2>6, <3>1, <3>2
  <2>12. r = q
    BY <2>10, <2>11 DEF Reading
  <2> QED
    BY <2>5, <2>9, <2>12
<1>4. \A n \in Nat : n \in U
  <2> HIDE DEF U
  <2> QED
    BY <1>2, <1>3, Induction
<1> QED
  BY <1>1, <1>4

\* What is known of a name that ends.
LEMMA NameFacts ==
  ASSUME NEW buf, Packet(buf), NEW at \in Nat, NameAt(buf, at).ok
  PROVE  /\ NameAt(buf, at) \in Reading
         /\ at \in 1 .. Len(buf)
         /\ Stop(buf, at) \in 1 .. Len(buf)
         /\ Stop(buf, at) >= at
         /\ Behind(buf, at) = Stop(buf, at) + 1
<1>1. PICK R : R = Readings(buf)
  OBVIOUS
<1>2. PICK n \in Nat : n + 1 = Turns(buf)
  <2>1. Len(buf) + 1 \in Nat /\ (Len(buf) + 1) + 1 = Turns(buf)
    BY Positions DEF Turns
  <2> QED
    BY <2>1
<1>3. NameAt(buf, at) = R[n + 1][at]
  BY <1>1, <1>2 DEF NameAt
<1>4. R[n] \in [Nat -> Reading] /\ R[n + 1] \in [Nat -> Reading]
      /\ R[n + 1][at] = NameLed(buf, R[n], at)
  BY <1>1, ReadOn
<1>5. /\ at \in 1 .. Len(buf) /\ Stop(buf, at) \in 1 .. Len(buf) /\ Stop(buf, at) >= at
      /\ buf[Stop(buf, at)].k \in {"end", "pointer"}
  BY <1>3, <1>4, LedName
<1>6. Behind(buf, at) = Stop(buf, at) + 1
  BY <1>5, Positions, BehindStop
<1> QED
  BY <1>3, <1>4, <1>5, <1>6

\* A name that is there is found with the turns it takes or more.
LEMMA NameFound ==
  ASSUME NEW b, NEW c, Packet(b), Packet(c), Grows(b, c), NEW at \in Nat,
         NameAt(b, at).ok, NEW n \in Nat, Turns(b) <= n
  PROVE  Readings(c)[n][at] = NameAt(b, at)
<1>1. PICK m \in Nat : m = Turns(b)
  BY Positions DEF Turns
<1>2. PICK k \in Nat : m + k = n
  <2>1. n - m \in Nat /\ m + (n - m) = n
    BY <1>1
  <2> QED
    BY <2>1
<1>3. Readings(b)[m][at].ok
  BY <1>1 DEF NameAt
<1>4. Readings(c)[m + k][at] = Readings(b)[m][at]
  BY <1>3, ReadingStays
<1> QED
  BY ONLY <1>1, <1>2, <1>4 DEF NameAt

\* So that a name reads the same however much has been written since.
LEMMA NameStays ==
  ASSUME NEW b, NEW c, Packet(b), Packet(c), Grows(b, c), NEW at \in Nat,
         NameAt(b, at).ok
  PROVE  /\ NameAt(c, at) = NameAt(b, at)
         /\ Behind(c, at) = Behind(b, at)
<1>3. NameAt(c, at) = NameAt(b, at)
  <2>1. Turns(c) \in Nat /\ Turns(b) <= Turns(c)
    BY Positions DEF Turns, Grows
  <2>2. PICK n \in Nat : n = Turns(c)
    BY <2>1
  <2>3. Readings(c)[n][at] = NameAt(b, at)
    BY <2>1, <2>2, NameFound
  <2> QED
    BY ONLY <2>2, <2>3 DEF NameAt
<1>4. Stop(b, at) \in 1 .. Len(b) /\ Behind(b, at) = Stop(b, at) + 1
  BY NameFacts
<1>5. Stop(c, at) = Stop(b, at)
  BY <1>4, Positions, StopStays
<1>6. Behind(c, at) = Stop(c, at) + 1
  BY <1>3, NameFacts
<1> QED
  BY <1>3, <1>4, <1>5, <1>6

\* A name that is written out ends where it ends.
LEMMA NameWrittenOut ==
  ASSUME NEW buf, Packet(buf), NEW at \in 1 .. Len(buf),
         Stop(buf, at) \in 1 .. Len(buf), buf[Stop(buf, at)].k = "end"
  PROVE  NameAt(buf, at) = [ok |-> TRUE, name |-> Labelled(buf, at)]
<1> DEFINE s == Stop(buf, at)
<1>1. PICK R : R = Readings(buf)
  OBVIOUS
<1>2. PICK n \in Nat : n + 1 = Turns(buf)
  <2>1. Len(buf) + 1 \in Nat /\ (Len(buf) + 1) + 1 = Turns(buf)
    BY Positions DEF Turns
  <2> QED
    BY <2>1
<1>3. R[n] \in [Nat -> Reading] /\ R[n + 1][at] = NameLed(buf, R[n], at) /\ at \in Nat
  <2>1. at \in Nat
    BY Positions
  <2> QED
    BY <1>1, <2>1, ReadOn
<1>4. IsCell(buf, s, "end")
  BY Positions DEF IsCell
<1>5. PICK r \in Reading : r = NameLed(buf, R[n], at)
  BY <1>3, NameLedCases
<1>6. r.ok /\ r.name = Labelled(buf, at)
  BY <1>3, <1>4, <1>5, NameLedCases
<1>7. r = [ok |-> TRUE, name |-> Labelled(buf, at)]
  BY <1>5, <1>6 DEF Reading
<1> QED
  BY <1>1, <1>2, <1>3, <1>5, <1>7 DEF NameAt

\* A name that ends with a pointer to a name that was there before.
LEMMA NameContinued ==
  ASSUME NEW b, NEW c, Packet(b), Packet(c), Grows(b, c), Len(b) < Len(c),
         NEW at \in 1 .. Len(c), Stop(c, at) \in 1 .. Len(c),
         c[Stop(c, at)].k = "pointer", NameAt(b, c[Stop(c, at)].to).ok
  PROVE  NameAt(c, at) =
            [ok |-> TRUE,
             name |-> Together(Labelled(c, at), NameAt(b, c[Stop(c, at)].to).name)]
<1> DEFINE s == Stop(c, at)
<1>1. PICK R : R = Readings(c)
  OBVIOUS
<1>2. PICK n \in Nat : n + 1 = Turns(c)
  <2>1. Len(c) + 1 \in Nat /\ (Len(c) + 1) + 1 = Turns(c)
    BY Positions DEF Turns
  <2> QED
    BY <2>1
<1>3. R[n] \in [Nat -> Reading] /\ R[n + 1][at] = NameLed(c, R[n], at) /\ at \in Nat
  <2>1. at \in Nat
    BY Positions
  <2> QED
    BY <1>1, <2>1, ReadOn
<1>4. IsCell(c, s, "pointer")
  BY Positions DEF IsCell
<1>5. PICK to \in Nat : to = c[s].to
  BY Positions, CellFacts
<1>6. Turns(b) <= n
  BY <1>2, Positions DEF Turns
<1>8. R[n][to] = NameAt(b, to)
  BY <1>1, <1>5, <1>6, NameFound
<1>9. PICK r \in Reading : r = NameLed(c, R[n], at)
  BY <1>3, NameLedCases
<1>10. /\ r.ok <=> R[n][to].ok
       /\ r.name = Together(Labelled(c, at), R[n][to].name)
  BY <1>3, <1>4, <1>5, <1>9, NameLedCases
<1>11. r.ok
  BY <1>5, <1>8, <1>10
<1>12. r = [ok |-> TRUE, name |-> Together(Labelled(c, at), NameAt(b, to).name)]
  BY <1>8, <1>9, <1>10, <1>11 DEF Reading
<1> QED
  BY <1>1, <1>2, <1>3, <1>5, <1>9, <1>12 DEF NameAt

-----------------------------------------------------------------------------
(* Names that are written *)

\* u is s and then t.
Joins(s, t, u) ==
    /\ Len(u) = Len(s) + Len(t)
    /\ \A i \in 1 .. Len(s) : u[i] = s[i]
    /\ \A i \in 1 .. Len(t) : u[Len(s) + i] = t[i]

\* Two sequences one after the other.
LEMMA OneAfterTheOther ==
  ASSUME NEW S, NEW s \in Seq(S), NEW t \in Seq(S)
  PROVE  Together(s, t) \in Seq(S) /\ Joins(s, t, Together(s, t))
  BY DEF Together, Joins

\* A sequence and one more.
LEMMA OneMore ==
  ASSUME NEW S, NEW s \in Seq(S), NEW x \in S
  PROVE  /\ Together(s, <<x>>) \in Seq(S) /\ Len(Together(s, <<x>>)) = Len(s) + 1
         /\ \A i \in 1 .. Len(s) : Together(s, <<x>>)[i] = s[i]
         /\ Together(s, <<x>>)[Len(s) + 1] = x
  BY DEF Together

\* A sequence that is listed.
LEMMA Listed ==
  ASSUME NEW S, NEW n \in Nat, NEW f, f \in [1 .. n -> S]
  PROVE  f \in Seq(S) /\ Len(f) = n
  OBVIOUS

LEMMA SameLength ==
  ASSUME NEW m \in Nat, NEW n \in Nat, 1 .. m = 1 .. n
  PROVE  m = n
<1>1. ASSUME m < n PROVE FALSE
  <2>1. n \in 1 .. n /\ n \notin 1 .. m
    BY <1>1
  <2> QED
    BY ONLY <2>1, 1 .. m = 1 .. n
<1>2. ASSUME n < m PROVE FALSE
  <2>1. m \in 1 .. m /\ m \notin 1 .. n
    BY <1>2
  <2> QED
    BY ONLY <2>1, 1 .. m = 1 .. n
<1> QED
  BY <1>1, <1>2

\* c is b and more.
Begins(b, c) ==
    Len(b) <= Len(c) /\ \A i \in 1 .. Len(b) : c[i] = b[i]

LEMMA BeginsGrows ==
  ASSUME NEW b, NEW c, Begins(b, c)
  PROVE  Grows(b, c)
  BY DEF Begins, Grows

LEMMA BeginsOn ==
  ASSUME NEW b, NEW c, NEW d, Packet(b), Packet(c), Packet(d), Begins(b, c), Begins(c, d)
  PROVE  Begins(b, d)
<1>1. Len(b) \in Nat /\ Len(c) \in Nat /\ Len(d) \in Nat
  BY Positions
<1> QED
  BY <1>1 DEF Begins

LEMMA GrowsOn ==
  ASSUME NEW b, NEW c, NEW d, Packet(b), Packet(c), Packet(d), Grows(b, c), Grows(c, d)
  PROVE  Grows(b, d)
<1>1. Len(b) \in Nat /\ Len(c) \in Nat /\ Len(d) \in Nat
  BY Positions
<1> QED
  BY <1>1 DEF Grows

\* The name s is, up to case, what `name' is from its i-th label on.
Alike(s, name, i) ==
    /\ Len(s) = Len(name) + 1 - i
    /\ \A j \in 1 .. Len(s) : Lower[s[j]] = Lower[name[i + j - 1]]

Suffix(name, i) == Folded(SubSeq(name, i, Len(name)))

LEMMA AlikeFolded ==
  ASSUME NEW s \in Seq(Labels), NEW name \in Seq(Labels), NEW i \in 1 .. Len(name) + 1
  PROVE  Folded(s) = Suffix(name, i) <=> Alike(s, name, i)
<1>1. PICK t : t = SubSeq(name, i, Len(name))
  OBVIOUS
<1>2. t \in Seq(Labels) /\ Len(t) = Len(name) + 1 - i
      /\ \A j \in 1 .. Len(t) : t[j] = name[i + j - 1]
  BY <1>1
<1>3. Len(s) \in Nat /\ Len(t) \in Nat /\ DOMAIN s = 1 .. Len(s) /\ DOMAIN t = 1 .. Len(t)
  BY <1>2
<1>4. PICK f : f = Folded(s)
  OBVIOUS
<1>5. PICK g : g = Folded(t)
  OBVIOUS
<1>6. f = [j \in 1 .. Len(s) |-> Lower[s[j]]] /\ g = [j \in 1 .. Len(t) |-> Lower[t[j]]]
  BY <1>3, <1>4, <1>5 DEF Folded
<1>7. ASSUME f = g PROVE Alike(s, name, i)
  <2>1. 1 .. Len(s) = 1 .. Len(t)
    <3>1. DOMAIN f = 1 .. Len(s) /\ DOMAIN g = 1 .. Len(t)
      BY <1>6
    <3> QED
      BY ONLY <1>7, <3>1
  <2>2. Len(s) = Len(t)
    BY <1>3, <2>1, SameLength
  <2>3. \A j \in 1 .. Len(s) : Lower[s[j]] = Lower[t[j]]
    BY ONLY <1>6, <1>7, <2>1
  <2> QED
    BY <1>2, <2>2, <2>3 DEF Alike
<1>8. ASSUME Alike(s, name, i) PROVE f = g
  <2>1. Len(s) = Len(t) /\ \A j \in 1 .. Len(s) : Lower[s[j]] = Lower[t[j]]
    BY <1>2, <1>8 DEF Alike
  <2> QED
    BY ONLY <1>6, <2>1
<1> QED
  BY <1>1, <1>4, <1>5, <1>7, <1>8 DEF Suffix

\* c is b, the first labels of `name' and a cell that ends it or goes on elsewhere.
WritesName(b, c, name, cut, cell) ==
    /\ Len(c) = Len(b) + cut
    /\ \A i \in 1 .. Len(b) : c[i] = b[i]
    /\ \A i \in 1 .. cut - 1 : c[Len(b) + i] = Label(name[i])
    /\ c[Len(b) + cut] = cell

LEMMA WritingName ==
  ASSUME NEW b, Packet(b), NEW name \in Seq(Labels), NEW cut \in 1 .. Len(name) + 1,
         NEW cell \in Cells
  PROVE  LET c == b \o [i \in 1 .. cut - 1 |-> Label(name[i])] \o <<cell>>
         IN  Packet(c) /\ Begins(b, c) /\ WritesName(b, c, name, cut, cell)
<1>1. b \in Seq(Cells) /\ Len(b) \in Nat /\ Len(b) >= 1
  BY Positions DEF Packet
<1>2. PICK l : l = [i \in 1 .. cut - 1 |-> Label(name[i])]
  OBVIOUS
<1>3. l \in Seq(Cells) /\ Len(l) = cut - 1 /\ \A i \in 1 .. cut - 1 : l[i] = Label(name[i])
  <2>1. ASSUME NEW i \in 1 .. cut - 1 PROVE Label(name[i]) \in Cells
    <3>1. name[i] \in Labels
      OBVIOUS
    <3> QED
      BY <3>1 DEF Label, Cells
  <2>2. cut - 1 \in Nat
    OBVIOUS
  <2> QED
    BY <1>2, <2>1, <2>2
<1> DEFINE h == Together(b, l)
<1>4. b \in Seq(Cells) /\ l \in Seq(Cells)
  BY <1>1, <1>3
<1>5. /\ h \in Seq(Cells) /\ Len(h) = Len(b) + (cut - 1)
      /\ \A i \in 1 .. Len(b) : h[i] = b[i]
      /\ \A i \in 1 .. cut - 1 : h[Len(b) + i] = l[i]
  <2>1. h \in Seq(Cells) /\ Joins(b, l, h)
    BY <1>4, OneAfterTheOther
  <2> QED
    BY <1>3, <2>1 DEF Joins
<1> HIDE DEF h
<1> DEFINE c == Together(h, <<cell>>)
<1>6. h \in Seq(Cells)
  BY <1>5
<1>7. /\ c \in Seq(Cells) /\ Len(c) = Len(h) + 1
      /\ \A i \in 1 .. Len(h) : c[i] = h[i]
      /\ c[Len(h) + 1] = cell
  <2>1. c \in Seq(Cells) /\ Len(c) = Len(h) + 1
    BY ONLY <1>6, cell \in Cells, OneMore
  <2>2. \A i \in 1 .. Len(h) : c[i] = h[i]
    BY ONLY <1>6, cell \in Cells, OneMore
  <2>3. c[Len(h) + 1] = cell
    BY ONLY <1>6, cell \in Cells, OneMore
  <2> QED
    BY <2>1, <2>2, <2>3
<1> HIDE DEF c
<1>8. Len(c) = Len(b) + cut /\ Len(h) + 1 = Len(b) + cut
  BY <1>1, <1>5, <1>7
<1>9. \A i \in 1 .. Len(b) : c[i] = b[i]
  BY <1>1, <1>5, <1>7
<1>10. ASSUME NEW i \in 1 .. cut - 1 PROVE c[Len(b) + i] = Label(name[i])
  <2>1. Len(b) + i \in 1 .. Len(h)
    BY <1>1, <1>5
  <2> QED
    BY <1>3, <1>5, <1>7, <2>1
<1>11. Packet(c)
  BY <1>1, <1>7, <1>8, <1>9 DEF Packet
<1>12. Begins(b, c)
  BY <1>1, <1>8, <1>9 DEF Begins
<1>13. WritesName(b, c, name, cut, cell)
  BY <1>7, <1>8, <1>9, <1>10 DEF WritesName
<1> QED
  BY <1>2, <1>11, <1>12, <1>13 DEF h, c, Together

\* What is read from the i-th label on, of the first cut - 1 labels of a name.
ReadsLabels(b, c, name, cut, i) ==
    LET at == Len(b) + i
    IN  /\ Stop(c, at) = Len(b) + cut
        /\ Labelled(c, at) \in Seq(Labels)
        /\ Len(Labelled(c, at)) = cut - i
        /\ \A j \in 1 .. cut - i : Labelled(c, at)[j] = name[i + j - 1]

\* What is read at the labels of a name that was written.
LEMMA WrittenLabels ==
  ASSUME NEW b, NEW c, Packet(b), Packet(c), NEW name \in Seq(Labels),
         NEW cut \in 1 .. Len(name) + 1, NEW cell, cell.k # "label",
         WritesName(b, c, name, cut, cell),
         NEW i \in 1 .. cut
  PROVE  ReadsLabels(b, c, name, cut, i)
<1>1. PICK x \in Nat : x = Len(b)
  BY Positions
<1>2. Len(c) = x + cut /\ c[x + cut] = cell
      /\ \A j \in 1 .. cut - 1 : c[x + j] = Label(name[j])
  BY <1>1 DEF WritesName
<1>4. x + i \in Nat /\ x + cut \in 1 .. Len(c)
  BY <1>2
<1>3. PICK s \in 1 .. Len(c) + 1 : s = Stop(c, x + i)
  BY <1>4, StopFacts
<1>5. ~ (x + cut < s)
  <2>1. x + cut < s => c[x + cut].k = "label"
    <3>1. x + cut >= x + i
      OBVIOUS
    <3> QED
      BY <1>3, <1>4, <3>1, StopFacts
  <2> QED
    BY <1>2, <2>1
<1>6. ~ (s < x + cut)
  <2>1. SUFFICES ASSUME s < x + cut PROVE FALSE
    OBVIOUS
  <2>2. s >= x + i /\ c[s].k # "label"
    <3>1. s <= Len(c)
      BY <1>2, <1>3, <2>1
    <3> QED
      BY <1>3, <1>4, <3>1, StopFacts
  <2>3. s - x \in 1 .. cut - 1 /\ x + (s - x) = s
    BY <1>2, <1>3, <2>1, <2>2
  <2>4. c[s] = Label(name[s - x])
    BY <1>2, <2>3
  <2> QED
    BY <2>2, <2>4 DEF Label
<1>7. s = x + cut
  BY <1>2, <1>3, <1>5, <1>6
<1>8. PICK l : l = Labelled(c, x + i)
  OBVIOUS
<1>9. l = [j \in 1 .. cut - i |-> c[x + i + j - 1].label]
  <2>1. s - (x + i) = cut - i
    BY <1>7
  <2> QED
    BY <1>3, <1>8, <2>1 DEF Labelled
<1>10. ASSUME NEW j \in 1 .. cut - i
       PROVE  c[x + i + j - 1].label = name[i + j - 1] /\ name[i + j - 1] \in Labels
  <2>1. i + j - 1 \in 1 .. cut - 1 /\ x + i + j - 1 = x + (i + j - 1)
    OBVIOUS
  <2>2. c[x + i + j - 1] = Label(name[i + j - 1])
    BY <1>2, <2>1
  <2>3. name[i + j - 1] \in Labels
    BY <2>1
  <2> QED
    BY <2>2, <2>3 DEF Label
<1>11. cut - i \in Nat
  OBVIOUS
<1>12. l \in Seq(Labels) /\ Len(l) = cut - i /\ \A j \in 1 .. cut - i : l[j] = name[i + j - 1]
  <2>1. l \in [1 .. cut - i -> Labels] /\ \A j \in 1 .. cut - i : l[j] = name[i + j - 1]
    BY <1>9, <1>10
  <2> QED
    BY <1>11, <2>1, Listed
<1> QED
  BY <1>1, <1>3, <1>7, <1>8, <1>12 DEF ReadsLabels

\* What follows the labels is the rest of the name.
GoesOn(b, name, cut, cell) ==
    \/ cell.k = "end" /\ cut = Len(name) + 1
    \/ /\ cell.k = "pointer"
       /\ NameAt(b, cell.to).ok
       /\ Alike(NameAt(b, cell.to).name, name, cut)

\* A name that was written is read there, and from each of its labels on.
LEMMA WrittenNameReads ==
  ASSUME NEW b, NEW c, Packet(b), Packet(c), Begins(b, c), NEW name \in Seq(Labels),
         NEW cut \in 1 .. Len(name) + 1, NEW cell,
         WritesName(b, c, name, cut, cell), GoesOn(b, name, cut, cell),
         NEW i \in 1 .. cut
  PROVE  /\ NameAt(c, Len(b) + i).ok
         /\ Alike(NameAt(c, Len(b) + i).name, name, i)
         /\ Behind(c, Len(b) + i) = Len(c) + 1
         /\ cell.k = "end" /\ i = 1 => NameAt(c, Len(b) + i).name = name
<1>1. PICK x \in Nat : x = Len(b)
  BY Positions
<1>2. Len(c) = x + cut /\ c[x + cut] = cell
  BY <1>1 DEF WritesName
<1>3. x + i \in 1 .. Len(c) /\ x + cut \in 1 .. Len(c)
  BY <1>2
<1>8. cell.k # "label"
  BY DEF GoesOn
<1>9. ReadsLabels(b, c, name, cut, i)
  BY <1>8, WrittenLabels
<1>4. PICK l \in Seq(Labels) : l = Labelled(c, x + i)
  BY <1>1, <1>9 DEF ReadsLabels
<1>5. Stop(c, x + i) = x + cut /\ Len(l) = cut - i /\ \A j \in 1 .. cut - i : l[j] = name[i + j - 1]
  BY <1>1, <1>4, <1>9 DEF ReadsLabels
<1>6. CASE cell.k = "end" /\ cut = Len(name) + 1
  <2>1. NameAt(c, x + i) = [ok |-> TRUE, name |-> l]
    BY <1>2, <1>3, <1>4, <1>5, <1>6, NameWrittenOut
  <2>2. NameAt(c, x + i).ok /\ NameAt(c, x + i).name = l
    BY <2>1
  <2>3. Alike(l, name, i)
    BY <1>5, <1>6 DEF Alike
  <2>4. i = 1 => l = name
    BY <1>4, <1>5, <1>6
  <2> QED
    BY <1>1, <1>2, <1>3, <1>5, <2>2, <2>3, <2>4, NameFacts
<1>7. CASE /\ cell.k = "pointer" /\ NameAt(b, cell.to).ok
           /\ Alike(NameAt(b, cell.to).name, name, cut)
  <2>1. Grows(b, c) /\ Len(b) < Len(c)
    BY <1>1, <1>2, BeginsGrows
  <2>2. PICK t : t = NameAt(b, cell.to).name
    OBVIOUS
  <2>13. /\ Stop(c, x + i) \in 1 .. Len(c)
         /\ c[Stop(c, x + i)].k = "pointer" /\ NameAt(b, c[Stop(c, x + i)].to).ok
    BY <1>2, <1>3, <1>5, <1>7
  <2>14. NameAt(c, x + i) =
            [ok |-> TRUE,
             name |-> Together(Labelled(c, x + i), NameAt(b, c[Stop(c, x + i)].to).name)]
    BY <1>3, <2>1, <2>13, NameContinued
  <2>3. NameAt(c, x + i) = [ok |-> TRUE, name |-> Together(l, t)]
    BY ONLY <1>2, <1>4, <1>5, <2>2, <2>14
  <2>4. NameAt(c, x + i).ok /\ NameAt(c, x + i).name = Together(l, t)
    BY <2>3
  <2>5. cell.to \in Nat
    BY <1>2, <1>3, <1>7, Positions, CellFacts
  <2>6. t \in Seq(Labels)
    BY <1>7, <2>2, <2>5, NameFacts DEF Reading
  <2>7. /\ Len(t) = Len(name) + 1 - cut
        /\ \A j \in 1 .. Len(t) : Lower[t[j]] = Lower[name[cut + j - 1]]
    BY <1>7, <2>2 DEF Alike
  <2> DEFINE s == Together(l, t)
  <2>8. /\ Len(s) = Len(l) + Len(t)
        /\ \A j \in 1 .. Len(l) : s[j] = l[j]
        /\ \A j \in 1 .. Len(t) : s[Len(l) + j] = t[j]
    <3>1. Joins(l, t, s)
      BY <2>6, OneAfterTheOther
    <3> QED
      BY <3>1 DEF Joins
  <2>11. Alike(s, name, i)
    <3> HIDE DEF s
    <3>1. Len(s) = Len(name) + 1 - i
      BY <1>5, <2>7, <2>8
    <3>2. ASSUME NEW j \in 1 .. Len(s) PROVE Lower[s[j]] = Lower[name[i + j - 1]]
      <4>1. CASE j <= cut - i
        BY <1>5, <2>8, <4>1
      <4>2. CASE ~ (j <= cut - i)
        <5>1. PICK k : k = j - (cut - i)
          OBVIOUS
        <5>2. k \in 1 .. Len(t) /\ Len(l) + k = j /\ cut + k - 1 = i + j - 1
          BY <1>5, <2>7, <2>8, <4>2, <5>1
        <5>3. s[j] = t[k]
          BY <2>8, <5>2
        <5> QED
          BY <2>7, <5>2, <5>3
      <4> QED
        BY <4>1, <4>2
    <3> QED
      BY <3>1, <3>2 DEF Alike
  <2>12. cell.k # "end"
    BY <1>7
  <2> QED
    BY <1>1, <1>2, <1>3, <1>5, <2>4, <2>11, <2>12, NameFacts
<1> QED
  BY <1>6, <1>7 DEF GoesOn

\* The table of names that packCompressedName keeps: where each can be read.
Table(buf, names) ==
    \A s \in DOMAIN names :
        /\ names[s] \in Nat /\ names[s] <= MaxPointer
        /\ NameAt(buf, names[s]).ok
        /\ Folded(NameAt(buf, names[s]).name) = s

\* A reply that is being written.
Writing(acc) == Packet(acc.buf) /\ Table(acc.buf, acc.names)

LEMMA BuiltParts ==
  ASSUME NEW buf, NEW names
  PROVE  Built(buf, names).buf = buf /\ Built(buf, names).names = names
  BY DEF Built

\* The table stays right while more is written.
LEMMA TableStays ==
  ASSUME NEW b, NEW c, Packet(b), Packet(c), Grows(b, c), NEW names, Table(b, names)
  PROVE  Table(c, names)
  BY NameStays DEF Table

\* An offset that is small enough is the offset that the pointer holds.
LEMMA PointerHolds ==
  ASSUME NEW to \in Nat, to <= MaxPointer
  PROVE  Pointer(to) = [k |-> "pointer", to |-> to] /\ Pointer(to) \in Cells
<1>1. MaxPointer \in Nat
  BY MessageConstants
<1>2. to % (MaxPointer + 1) = to
  BY <1>1
<1> QED
  BY <1>2 DEF Pointer, Cells

\* A name was written behind b: what is read there is `name' up to case, and
\* nothing follows it yet.
NameBehind(b, c, name) ==
    LET at == Len(b) + 1
    IN  /\ Begins(b, c)
        /\ at <= Len(c)
        /\ NameAt(c, at).ok
        /\ Folded(NameAt(c, at).name) = Folded(name)
        /\ Behind(c, at) = Len(c) + 1

\* The suffixes of a name that are in the table, and where the name is cut.
Known(acc, name) ==
    {i \in 1 .. Len(name) : /\ Suffix(name, i) \in DOMAIN acc.names
                            /\ acc.names[Suffix(name, i)] <= MaxPointer}

Cut(acc, name) == IF Known(acc, name) = {} THEN Len(name) + 1 ELSE Min(Known(acc, name))

LastCell(acc, name) ==
    IF Known(acc, name) = {} THEN End ELSE Pointer(acc.names[Suffix(name, Cut(acc, name))])

\* The suffixes that are added to the table.
Added(acc, name) == {i \in 1 .. Cut(acc, name) - 1 : Len(acc.buf) + i <= MaxPointer}

NewNames(acc, name) ==
    [s \in {Suffix(name, i) : i \in Added(acc, name)} \cup DOMAIN acc.names |->
        IF \E i \in Added(acc, name) : Suffix(name, i) = s
        THEN Len(acc.buf) + (CHOOSE i \in Added(acc, name) : Suffix(name, i) = s)
        ELSE acc.names[s]]

LEMMA PackedNameIs ==
  ASSUME NEW acc, NEW name
  PROVE  packCompressedName(acc, name) =
            Built(acc.buf \o [i \in 1 .. Cut(acc, name) - 1 |-> Label(name[i])]
                      \o <<LastCell(acc, name)>>,
                  NewNames(acc, name))
  BY DEF packCompressedName, Known, Cut, LastCell, Added, NewNames, Suffix

\* Where a name is cut, it goes on with what it was cut off.
LEMMA CutGoesOn ==
  ASSUME NEW acc, Writing(acc), NEW name \in Seq(Labels)
  PROVE  /\ Cut(acc, name) \in 1 .. Len(name) + 1
         /\ LastCell(acc, name) \in Cells
         /\ GoesOn(acc.buf, name, Cut(acc, name), LastCell(acc, name))
         /\ Known(acc, name) = {} => LastCell(acc, name).k = "end"
<1>1. PICK K : K = Known(acc, name)
  OBVIOUS
<1>2. K \subseteq 1 .. Len(name) /\ Len(name) \in Nat
  BY <1>1 DEF Known
<1>3. CASE K = {}
  <2>1. Cut(acc, name) = Len(name) + 1 /\ LastCell(acc, name) = End
    BY <1>1, <1>3 DEF Cut, LastCell
  <2>2. End \in Cells /\ End.k = "end"
    BY DEF End, Cells
  <2> QED
    BY <1>2, <2>1, <2>2 DEF GoesOn
<1>4. CASE K # {}
  <2>1. PICK cut : cut = Min(K)
    OBVIOUS
  <2>2. K \subseteq Nat
    BY <1>2
  <2>3. cut \in K
    BY <1>4, <2>1, <2>2, MinOfNaturals
  <2>4. Cut(acc, name) = cut /\ cut \in 1 .. Len(name)
    BY <1>1, <1>2, <1>4, <2>1, <2>3 DEF Cut
  <2>5. PICK s : s = Suffix(name, cut)
    OBVIOUS
  <2>6. s \in DOMAIN acc.names
    BY <1>1, <2>3, <2>5 DEF Known
  <2>7. PICK to \in Nat : to = acc.names[s]
    BY <2>6 DEF Writing, Table
  <2>8. to <= MaxPointer /\ NameAt(acc.buf, to).ok /\ Folded(NameAt(acc.buf, to).name) = s
    BY <2>6, <2>7 DEF Writing, Table
  <2>9. Pointer(to) = [k |-> "pointer", to |-> to] /\ Pointer(to) \in Cells
    BY <2>8, PointerHolds
  <2>10. LastCell(acc, name) = Pointer(to)
    BY <1>1, <1>4, <2>4, <2>5, <2>7 DEF LastCell
  <2>11. PICK t \in Seq(Labels) : t = NameAt(acc.buf, to).name
    BY <2>8, NameFacts DEF Writing, Reading
  <2>12. Alike(t, name, cut)
    <3>1. cut \in 1 .. Len(name) + 1
      BY <1>2, <2>4
    <3>2. Folded(t) = Suffix(name, cut)
      BY <2>5, <2>8, <2>11
    <3> QED
      BY <3>1, <3>2, AlikeFolded
  <2>13. PICK cell : cell = LastCell(acc, name)
    OBVIOUS
  <2>14. cell.k = "pointer" /\ cell.to = to /\ cell \in Cells
    BY <2>9, <2>10, <2>13
  <2>15. GoesOn(acc.buf, name, cut, cell)
    BY <2>8, <2>11, <2>12, <2>14 DEF GoesOn
  <2> QED
    BY <1>1, <1>2, <1>4, <2>4, <2>13, <2>14, <2>15
<1> QED
  BY <1>3, <1>4

\* A name is written so that it reads back, and the table stays right.
LEMMA NamePacked ==
  ASSUME NEW acc, Writing(acc), NEW name \in Seq(Labels)
  PROVE  LET p == packCompressedName(acc, name)
         IN  /\ Writing(p)
             /\ NameBehind(acc.buf, p.buf, name)
             /\ DOMAIN acc.names = {} => NameAt(p.buf, Len(acc.buf) + 1).name = name
<1>1. PICK b : b = acc.buf
  OBVIOUS
<1>2. Packet(b) /\ Table(b, acc.names) /\ Len(b) \in Nat
  BY <1>1, Positions DEF Writing
<1>3. PICK cut \in 1 .. Len(name) + 1 : cut = Cut(acc, name)
  BY CutGoesOn
<1>4. PICK cell \in Cells : cell = LastCell(acc, name)
  BY CutGoesOn
<1>5. GoesOn(b, name, cut, cell)
  BY <1>1, <1>3, <1>4, CutGoesOn
<1> DEFINE c == b \o [i \in 1 .. cut - 1 |-> Label(name[i])] \o <<cell>>
<1>6. Packet(c) /\ Begins(b, c) /\ WritesName(b, c, name, cut, cell)
  BY <1>2, WritingName
<1>7. packCompressedName(acc, name) = Built(c, NewNames(acc, name))
  BY <1>1, <1>3, <1>4, PackedNameIs
<1> HIDE DEF c
<1>8. ASSUME NEW i \in 1 .. cut
      PROVE  /\ NameAt(c, Len(b) + i).ok
             /\ Alike(NameAt(c, Len(b) + i).name, name, i)
             /\ Behind(c, Len(b) + i) = Len(c) + 1
             /\ Folded(NameAt(c, Len(b) + i).name) = Suffix(name, i)
  <2>1. /\ NameAt(c, Len(b) + i).ok
        /\ Alike(NameAt(c, Len(b) + i).name, name, i)
        /\ Behind(c, Len(b) + i) = Len(c) + 1
    BY <1>2, <1>5, <1>6, WrittenNameReads
  <2>2. Len(b) + i \in Nat /\ i \in 1 .. Len(name) + 1
    BY <1>2
  <2>3. PICK t \in Seq(Labels) : t = NameAt(c, Len(b) + i).name
    BY <1>6, <2>1, <2>2, NameFacts DEF Reading
  <2>4. Alike(t, name, i)
    BY <2>1, <2>3
  <2>5. Folded(t) = Suffix(name, i)
    BY <2>2, <2>4, AlikeFolded
  <2> QED
    BY <2>1, <2>3, <2>5
<1>9. Table(c, NewNames(acc, name))
  <2>1. PICK A : A = Added(acc, name)
    OBVIOUS
  <2>2. A \subseteq 1 .. cut /\ \A i \in A : Len(b) + i <= MaxPointer
    BY <1>1, <1>3, <2>1 DEF Added
  <2>3. NewNames(acc, name) =
          [s \in {Suffix(name, i) : i \in A} \cup DOMAIN acc.names |->
             IF \E i \in A : Suffix(name, i) = s
             THEN Len(b) + (CHOOSE i \in A : Suffix(name, i) = s)
             ELSE acc.names[s]]
    BY <1>1, <2>1 DEF NewNames
  <2>4. PICK N : N = NewNames(acc, name)
    OBVIOUS
  <2>5. ASSUME NEW s \in DOMAIN N
        PROVE  /\ N[s] \in Nat /\ N[s] <= MaxPointer /\ NameAt(c, N[s]).ok
               /\ Folded(NameAt(c, N[s]).name) = s
    <3>1. CASE \E i \in A : Suffix(name, i) = s
      <4>1. PICK i \in A : i = (CHOOSE j \in A : Suffix(name, j) = s) /\ Suffix(name, i) = s
        BY <3>1
      <4>2. N[s] = Len(b) + i
        BY <2>3, <2>4, <2>5, <3>1, <4>1
      <4>3. i \in 1 .. cut /\ Len(b) + i <= MaxPointer /\ Len(b) + i \in Nat
        BY <1>2, <2>2
      <4> QED
        BY <1>8, <4>1, <4>2, <4>3
    <3>2. CASE ~ \E i \in A : Suffix(name, i) = s
      <4>1. s \in DOMAIN acc.names /\ N[s] = acc.names[s]
        BY <2>3, <2>4, <2>5, <3>2
      <4>2. Table(c, acc.names)
        BY <1>2, <1>6, BeginsGrows, TableStays
      <4> QED
        BY <4>1, <4>2 DEF Table
    <3> QED
      BY <3>1, <3>2
  <2> QED
    BY <2>4, <2>5 DEF Table
<1>10. PICK p : p = packCompressedName(acc, name)
  OBVIOUS
<1>11. p = Built(c, NewNames(acc, name))
  BY <1>7, <1>10
<1>12. p.buf = c /\ p.names = NewNames(acc, name)
  BY <1>11, BuiltParts
<1>13. Writing(p)
  BY <1>6, <1>9, <1>11, <1>12 DEF Writing
<1>14. NameBehind(b, c, name)
  <2>1. 1 \in 1 .. cut
    OBVIOUS
  <2>2. Len(c) = Len(b) + cut
    BY <1>6 DEF WritesName
  <2>3. Len(b) + 1 <= Len(c)
    BY <1>2, <2>2
  <2>4. Suffix(name, 1) = Folded(name)
    <3>1. SubSeq(name, 1, Len(name)) = name
      OBVIOUS
    <3> QED
      BY ONLY <3>1 DEF Suffix
  <2> QED
    BY <1>6, <1>8, <2>1, <2>3, <2>4 DEF NameBehind
<1>15. ASSUME DOMAIN acc.names = {} PROVE NameAt(c, Len(b) + 1).name = name
  <2>1. Known(acc, name) = {}
    BY <1>15 DEF Known
  <2>2. cell.k = "end"
    BY <1>4, <2>1, CutGoesOn
  <2>3. 1 \in 1 .. cut
    OBVIOUS
  <2>4. Packet(b) /\ Packet(c) /\ Begins(b, c) /\ WritesName(b, c, name, cut, cell)
    BY <1>2, <1>6
  <2>5. cell.k = "end" /\ 1 = 1 => NameAt(c, Len(b) + 1).name = name
    BY ONLY name \in Seq(Labels), cut \in 1 .. Len(name) + 1, <1>5, <2>3, <2>4,
            WrittenNameReads
  <2> QED
    BY <2>2, <2>5
<1> QED
  BY <1>1, <1>10, <1>12, <1>13, <1>14, <1>15

-----------------------------------------------------------------------------
(* Records that are written *)

\* Sequences with the same elements.
Same(s, t) == Len(s) = Len(t) /\ \A i \in 1 .. Len(s) : s[i] = t[i]

LEMMA SameElements ==
  ASSUME NEW S, NEW s \in Seq(S), NEW t \in Seq(S), Same(s, t)
  PROVE  s = t
  BY DEF Same

\* The n elements behind the m-th are the same.
SamePart(u, v, m, n) ==
    m + n <= Len(u) /\ m + n <= Len(v) /\ \A i \in 1 .. n : u[m + i] = v[m + i]

\* The part of a sequence that is t.
LEMMA PartIs ==
  ASSUME NEW S, NEW u \in Seq(S), NEW t \in Seq(S), NEW m \in Nat, m + Len(t) <= Len(u),
         \A i \in 1 .. Len(t) : u[m + i] = t[i]
  PROVE  SubSeq(u, m + 1, m + Len(t)) = t
<1>1. PICK n \in Nat : n = Len(t)
  OBVIOUS
<1>2. PICK v : v = SubSeq(u, m + 1, m + n)
  OBVIOUS
<1>3. v \in Seq(S) /\ Len(v) = n /\ \A i \in 1 .. n : v[i] = u[m + i]
  BY <1>1, <1>2
<1>4. v = t
  BY <1>1, <1>3
<1> QED
  BY <1>1, <1>2, <1>4

\* Parts that are the same cell by cell.
LEMMA PartStays ==
  ASSUME NEW S, NEW u \in Seq(S), NEW v \in Seq(S), NEW m \in Nat, NEW n \in Nat,
         SamePart(u, v, m, n)
  PROVE  SubSeq(u, m + 1, m + n) = SubSeq(v, m + 1, m + n)
<1>1. PICK t : t = SubSeq(v, m + 1, m + n)
  OBVIOUS
<1>2. t \in Seq(S) /\ Len(t) = n /\ \A i \in 1 .. n : t[i] = v[m + i]
  BY <1>1 DEF SamePart
<1>3. PICK w : w = SubSeq(u, m + 1, m + n)
  OBVIOUS
<1>4. w \in Seq(S) /\ Len(w) = n /\ \A i \in 1 .. n : w[i] = u[m + i]
  BY <1>3 DEF SamePart
<1>5. w \in Seq(S) /\ t \in Seq(S) /\ Same(w, t)
  BY <1>2, <1>4 DEF Same, SamePart
<1>6. w = t
  BY ONLY <1>5, SameElements
<1> QED
  BY <1>1, <1>3, <1>6

\* More cells at the end of a packet.
LEMMA WritingMore ==
  ASSUME NEW b, Packet(b), NEW t \in Seq(Cells)
  PROVE  Packet(Together(b, t)) /\ Begins(b, Together(b, t)) /\ Joins(b, t, Together(b, t))
<1>1. b \in Seq(Cells) /\ Len(b) \in Nat /\ Len(b) >= 1 /\ Len(t) \in Nat
  BY Positions DEF Packet
<1>2. PICK c : c = Together(b, t)
  OBVIOUS
<1>3. c \in Seq(Cells) /\ Joins(b, t, c)
  BY <1>1, <1>2, OneAfterTheOther
<1>4. Begins(b, c)
  BY <1>1, <1>3 DEF Joins, Begins
<1>5. Packet(c)
  BY <1>1, <1>3 DEF Joins, Packet
<1> QED
  BY <1>2, <1>3, <1>4, <1>5

\* Types with a name in their data.
Named(type) == type \in NameTypes \cup {"MX"}

\* A record whose data can be written: if it ends in a name, that is known.
Whole(rr, raw) ==
    /\ rr \in RRItems
    /\ Named(rr.type) =>
          /\ rdataName(rr, raw).ok
          /\ rdataName(rr, raw).name \in Seq(Labels)
          /\ Len(rr.data) >= NameAfter(rr.type)

\* What such a record says.
Tells(rr, raw) ==
    [owner |-> Folded(rr.name), type |-> rr.type,
     data |-> IF Named(rr.type)
              THEN <<SubSeq(rr.data, 1, NameAfter(rr.type)), Folded(rdataName(rr, raw).name)>>
              ELSE rr.data]

\* The data of a record was written behind b.
DataBehind(b, c, rr, raw) ==
    LET front == NameAfter(rr.type)
    IN  /\ Begins(b, c)
        /\ Named(rr.type) =>
              /\ Len(b) + 1 + front <= Len(c)
              /\ SubSeq(c, Len(b) + 1, Len(b) + front) = SubSeq(rr.data, 1, front)
              /\ NameAt(c, Len(b) + 1 + front).ok
              /\ Folded(NameAt(c, Len(b) + 1 + front).name) = Folded(rdataName(rr, raw).name)
        /\ ~ Named(rr.type) => SubSeq(c, Len(b) + 1, Len(c)) = rr.data

LEMMA DataPacked ==
  ASSUME NEW acc, Writing(acc), NEW rr, NEW raw, Whole(rr, raw)
  PROVE  /\ Writing(appendRdata(acc, rr, raw))
         /\ DataBehind(acc.buf, appendRdata(acc, rr, raw).buf, rr, raw)
<1>1. PICK b : b = acc.buf
  OBVIOUS
<1>2. Packet(b) /\ Table(b, acc.names) /\ Len(b) \in Nat
  BY <1>1, Positions DEF Writing
<1>3. PICK data \in Seq(Cells) : data = rr.data
  BY DEF Whole, RRItems
<1>4. PICK pref : pref = IF rr.type # "MX" THEN <<>>
                         ELSE IF rr.data # <<>> THEN <<rr.data[1]>> ELSE <<Opaque(0)>>
  OBVIOUS
<1>5. pref \in Seq(Cells)
  <2>1. CASE rr.type # "MX"
    BY <1>4, <2>1
  <2>2. CASE rr.type = "MX" /\ data # <<>>
    <3>1. data[1] \in Cells
      BY <2>2
    <3> QED
      BY <1>3, <1>4, <2>2, <3>1
  <2>3. CASE rr.type = "MX" /\ data = <<>>
    <3>1. Opaque(0) \in Cells
      BY DEF Opaque, Cells
    <3> QED
      BY <1>3, <1>4, <2>3, <3>1
  <2> QED
    BY <2>1, <2>2, <2>3
<1> DEFINE c == Together(b, pref)
<1>6. Packet(c) /\ Begins(b, c) /\ Joins(b, pref, c)
  BY <1>2, <1>5, WritingMore
<1>7. Table(c, acc.names)
  BY <1>2, <1>6, BeginsGrows, TableStays
<1> HIDE DEF c
<1>8. PICK front : front = Built(c, acc.names)
  OBVIOUS
<1>9. front.buf = c /\ front.names = acc.names
  BY <1>8, BuiltParts
<1>10. Writing(front)
  BY <1>6, <1>7, <1>9 DEF Writing
<1>11. Built(acc.buf \o pref, acc.names) = front
  BY ONLY <1>1, <1>8, Zenon DEF c, Together
<1>12. appendRdata(acc, rr, raw) =
         IF Named(rr.type) /\ rdataName(rr, raw).ok
         THEN packCompressedName(front, rdataName(rr, raw).name)
         ELSE Built(front.buf \o rr.data, front.names)
  BY <1>4, <1>11 DEF appendRdata, Named
<1>13. CASE Named(rr.type)
  <2>1. PICK name \in Seq(Labels) : name = rdataName(rr, raw).name
    BY <1>13 DEF Whole
  <2>2. PICK p : p = packCompressedName(front, name)
    OBVIOUS
  <2>3. Writing(p) /\ NameBehind(c, p.buf, name)
    BY <1>9, <1>10, <2>1, <2>2, NamePacked
  <2>4. appendRdata(acc, rr, raw) = p
    BY <1>12, <1>13, <2>1, <2>2 DEF Whole
  <2>5. PICK n \in {0, 1} : n = NameAfter(rr.type)
    BY DEF NameAfter
  <2>6. Len(pref) = n /\ SubSeq(pref, 1, n) = SubSeq(data, 1, n) /\ n <= Len(data)
    <3>1. Len(data) >= n
      BY <1>3, <1>13, <2>5 DEF Whole
    <3>2. CASE rr.type # "MX"
      <4>1. n = 0 /\ pref = <<>>
        BY <1>4, <2>5, <3>2 DEF NameAfter
      <4> QED
        BY <3>1, <4>1
    <3>3. CASE rr.type = "MX"
      <4>1. n = 1
        BY <2>5, <3>3 DEF NameAfter
      <4>2. pref = <<data[1]>>
        BY <1>3, <1>4, <3>1, <3>3, <4>1
      <4> QED
        BY <3>1, <4>1, <4>2
    <3> QED
      BY <3>2, <3>3
  <2>7. Len(c) = Len(b) + n
    BY <1>6, <2>6 DEF Joins
  <2>8. PICK d : d = p.buf
    OBVIOUS
  <2>9. Packet(d) /\ Begins(c, d) /\ Begins(b, d)
    BY <1>2, <1>6, <2>3, <2>8, BeginsOn DEF Writing, NameBehind
  <2>10. SubSeq(d, Len(b) + 1, Len(b) + n) = SubSeq(data, 1, n)
    <3>1. d \in Seq(Cells) /\ SubSeq(data, 1, n) \in Seq(Cells) /\ Len(SubSeq(data, 1, n)) = n
      BY <2>6, <2>9 DEF Packet
    <3>2. Len(b) + n <= Len(d)
      BY <2>7, <2>9 DEF Begins
    <3>3. ASSUME NEW i \in 1 .. n PROVE d[Len(b) + i] = data[i]
      <4>1. n = 1 /\ i = 1
        BY <2>5
      <4>2. pref[1] = data[1]
        BY <1>5, <2>6, <4>1
      <4>3. c[Len(b) + 1] = pref[1]
        BY <1>6, <2>6, <4>1 DEF Joins
      <4>4. d[Len(b) + 1] = c[Len(b) + 1]
        BY <1>2, <2>7, <2>9, <4>1 DEF Begins
      <4> QED
        BY <4>1, <4>2, <4>3, <4>4
    <3>4. PICK t \in Seq(Cells) : t = SubSeq(data, 1, n)
      BY <3>1
    <3>5. Len(t) = n /\ \A i \in 1 .. n : d[Len(b) + i] = t[i]
      BY <2>6, <3>1, <3>3, <3>4
    <3>6. SubSeq(d, Len(b) + 1, Len(b) + Len(t)) = t
      BY <1>2, <3>1, <3>2, <3>5, PartIs
    <3> QED
      BY <3>4, <3>5, <3>6
  <2>11. Len(c) + 1 = Len(b) + 1 + n
    BY <1>2, <2>7
  <2>12. /\ Len(b) + 1 + n <= Len(d) /\ NameAt(d, Len(b) + 1 + n).ok
         /\ Folded(NameAt(d, Len(b) + 1 + n).name) = Folded(name)
    BY <2>3, <2>8, <2>11 DEF NameBehind
  <2>13. DataBehind(b, d, rr, raw)
    BY <1>3, <1>13, <2>1, <2>5, <2>9, <2>10, <2>12 DEF DataBehind
  <2> QED
    BY <1>1, <2>3, <2>4, <2>8, <2>13
<1>14. CASE ~ Named(rr.type)
  <2> DEFINE d == Together(c, data)
  <2>1. Packet(d) /\ Begins(c, d) /\ Joins(c, data, d)
    BY <1>6, WritingMore
  <2> HIDE DEF d
  <2>2. PICK p : p = Built(d, acc.names)
    OBVIOUS
  <2>3. p.buf = d /\ p.names = acc.names
    BY <2>2, BuiltParts
  <2>4. Built(front.buf \o rr.data, front.names) = p
    BY ONLY <1>3, <1>9, <2>2, Zenon DEF d, Together
  <2>5. appendRdata(acc, rr, raw) = p
    BY <1>12, <1>14, <2>4
  <2>6. Writing(p)
    BY <1>6, <1>7, <2>1, <2>3, BeginsGrows, TableStays DEF Writing
  <2>7. pref = <<>>
    BY <1>4, <1>14 DEF Named
  <2>8. Len(c) = Len(b)
    BY <1>2, <1>6, <2>7 DEF Joins
  <2>9. d \in Seq(Cells) /\ Len(d) = Len(b) + Len(data)
        /\ \A i \in 1 .. Len(data) : d[Len(b) + i] = data[i]
    BY <2>1, <2>8 DEF Joins, Packet
  <2>10. SubSeq(d, Len(b) + 1, Len(b) + Len(data)) = data
    <3>1. PICK m \in Nat : m = Len(b)
      BY <1>2
    <3>2. d \in Seq(Cells) /\ m + Len(data) <= Len(d)
          /\ \A i \in 1 .. Len(data) : d[m + i] = data[i]
      BY <2>9, <3>1
    <3>3. SubSeq(d, m + 1, m + Len(data)) = data
      BY ONLY <3>2, m \in Nat, data \in Seq(Cells), PartIs
    <3> QED
      BY ONLY <3>1, <3>3
  <2>11. Begins(b, d)
    BY <1>2, <1>6, <2>1, BeginsOn
  <2>12. DataBehind(b, d, rr, raw)
    BY <1>3, <1>14, <2>9, <2>10, <2>11 DEF DataBehind
  <2> QED
    BY <1>1, <2>3, <2>5, <2>6, <2>12
<1> QED
  BY <1>13, <1>14

\* The n elements behind the m-th.
IsPart(S, u, m, n, v) == v \in Seq(S) /\ Len(v) = n /\ \A i \in 1 .. n : v[i] = u[m + i]

LEMMA PartFacts ==
  ASSUME NEW S, NEW u \in Seq(S), NEW m \in Nat, NEW n \in Nat, m + n <= Len(u)
  PROVE  IsPart(S, u, m, n, SubSeq(u, m + 1, m + n))
<1>1. PICK first \in Int, last \in Int : first = m + 1 /\ last = m + n
  OBVIOUS
<1>2. Len(u) \in Nat
  OBVIOUS
<1>3. first \in 1 .. Len(u) + 1 /\ last \in first - 1 .. Len(u)
  BY <1>1, <1>2
<1>4. PICK v : v = SubSeq(u, first, last)
  OBVIOUS
<1>5. v \in Seq(S) /\ Len(v) = last - first + 1
      /\ \A i \in 1 .. last - first + 1 : v[i] = u[first + i - 1]
  BY ONLY <1>3, <1>4, u \in Seq(S)
<1>6. last - first + 1 = n
  BY <1>1
<1>7. ASSUME NEW i \in 1 .. n PROVE v[i] = u[m + i]
  <2>1. first + i - 1 = m + i
    BY <1>1
  <2>2. v[i] = u[first + i - 1]
    BY <1>5, <1>6
  <2> QED
    BY ONLY <2>1, <2>2
<1>8. IsPart(S, u, m, n, v)
  BY ONLY <1>5, <1>6, <1>7 DEF IsPart
<1> QED
  BY ONLY <1>1, <1>4, <1>8, Zenon

\* The beginning of a part.
LEMMA PartOfPart ==
  ASSUME NEW S, NEW u \in Seq(S), NEW m \in Nat, NEW n \in Nat, NEW k \in Nat, k <= n,
         m + n <= Len(u)
  PROVE  SubSeq(SubSeq(u, m + 1, m + n), 1, k) = SubSeq(u, m + 1, m + k)
<1>1. PICK v : v = SubSeq(u, m + 1, m + n)
  OBVIOUS
<1>2. v \in Seq(S) /\ Len(v) = n /\ \A i \in 1 .. n : v[i] = u[m + i]
  BY <1>1, PartFacts DEF IsPart
<1>3. PICK s : s = SubSeq(v, 1, k)
  OBVIOUS
<1>4. s \in Seq(S) /\ Len(s) = k /\ \A i \in 1 .. k : s[i] = v[i]
  BY <1>2, <1>3
<1>5. PICK t : t = SubSeq(u, m + 1, m + k)
  OBVIOUS
<1>6. t \in Seq(S) /\ Len(t) = k /\ \A i \in 1 .. k : t[i] = u[m + i]
  <2>1. Len(u) \in Nat
    OBVIOUS
  <2>2. m + k <= Len(u)
    BY <2>1
  <2>3. IsPart(S, u, m, k, t)
    BY <1>5, <2>2, PartFacts
  <2> QED
    BY <2>3 DEF IsPart
<1>7. s \in Seq(S) /\ t \in Seq(S) /\ Same(s, t)
  BY <1>2, <1>4, <1>6 DEF Same
<1>8. s = t
  BY ONLY <1>7, SameElements
<1> QED
  BY <1>1, <1>3, <1>5, <1>8

\* From `at' to `end' there is a record, which says `said'.
RecordIn(c, at, end, said) ==
    LET fixed == Behind(c, at)
    IN  /\ NameAt(c, at).ok
        /\ IsCell(c, fixed, "fixed")
        /\ fixed + c[fixed].rdlen = end
        /\ end <= Len(c)
        /\ Named(c[fixed].type) => NameAt(c, fixed + 1 + NameAfter(c[fixed].type)).ok
        /\ RecordAt(c, at) = said

\* A record that was written says the same however much is written behind it.
LEMMA RecordStays ==
  ASSUME NEW b, NEW c, Packet(b), Packet(c), Begins(b, c), NEW at \in Nat, NEW end \in Nat,
         NEW said, RecordIn(b, at, end, said)
  PROVE  RecordIn(c, at, end, said)
<1>1. Len(b) \in Nat /\ Len(c) \in Nat /\ Len(b) <= Len(c) /\ DOMAIN b = 1 .. Len(b)
      /\ DOMAIN c = 1 .. Len(c) /\ \A i \in 1 .. Len(b) : c[i] = b[i]
  BY Positions DEF Begins
<1>2. Grows(b, c)
  BY BeginsGrows
<1>3. NameAt(b, at).ok
  BY DEF RecordIn
<1>4. NameAt(c, at) = NameAt(b, at) /\ Behind(c, at) = Behind(b, at)
  BY <1>2, <1>3, NameStays
<1>5. PICK fixed \in 1 .. Len(b) : fixed = Behind(b, at)
  BY <1>1 DEF RecordIn, IsCell
<1>6. PICK cell \in Cells : cell = b[fixed]
  BY Positions
<1>7. c[fixed] = cell
  BY <1>1, <1>6
<1>8. cell.k = "fixed" /\ fixed + cell.rdlen = end /\ end <= Len(b) /\ RecordAt(b, at) = said
      /\ (Named(cell.type) => NameAt(b, fixed + 1 + NameAfter(cell.type)).ok)
  BY <1>5, <1>6 DEF RecordIn, IsCell
<1>9. PICK n \in Nat : n = cell.rdlen
  BY <1>6, <1>8, CellFacts
<1>10. SubSeq(c, fixed + 1, fixed + n) = SubSeq(b, fixed + 1, fixed + n)
  <2>1. b \in Seq(Cells) /\ c \in Seq(Cells)
    BY DEF Packet
  <2>2. fixed \in Nat /\ fixed + n <= Len(b) /\ fixed + n <= Len(c)
    BY <1>1, <1>8, <1>9
  <2>3. SamePart(c, b, fixed, n)
    BY <1>1, <2>2 DEF SamePart
  <2> QED
    BY ONLY <2>1, <2>2, <2>3, n \in Nat, PartStays
<1>11. ASSUME Named(cell.type)
       PROVE  NameAt(c, fixed + 1 + NameAfter(cell.type)) = NameAt(b, fixed + 1 + NameAfter(cell.type))
  <2>1. fixed + 1 + NameAfter(cell.type) \in Nat
    BY DEF NameAfter
  <2> QED
    BY <1>2, <1>8, <1>11, <2>1, NameStays
<1>12. RecordAt(c, at) = RecordAt(b, at)
  <2>1. PICK d : d = SubSeq(b, fixed + 1, fixed + n)
    OBVIOUS
  <2>2. PICK o : o = NameAt(b, at)
    OBVIOUS
  <2>3. CASE Named(cell.type)
    <3>1. PICK x : x = NameAt(b, fixed + 1 + NameAfter(cell.type))
      OBVIOUS
    <3>2. NameAt(c, fixed + 1 + NameAfter(cell.type)) = x
      BY <1>11, <2>3, <3>1
    <3>3. RecordAt(b, at) =
            [owner |-> Folded(o.name), type |-> cell.type,
             data |-> <<SubSeq(d, 1, NameAfter(cell.type)), Folded(x.name)>>]
      BY <1>5, <1>6, <1>9, <2>1, <2>2, <2>3, <3>1 DEF RecordAt, Named
    <3>4. RecordAt(c, at) =
            [owner |-> Folded(o.name), type |-> cell.type,
             data |-> <<SubSeq(d, 1, NameAfter(cell.type)), Folded(x.name)>>]
      BY <1>4, <1>5, <1>7, <1>9, <1>10, <2>1, <2>2, <2>3, <3>2 DEF RecordAt, Named
    <3> QED
      BY ONLY <3>3, <3>4, Zenon
  <2>4. CASE ~ Named(cell.type)
    <3>1. RecordAt(b, at) = [owner |-> Folded(o.name), type |-> cell.type, data |-> d]
      BY <1>5, <1>6, <1>9, <2>1, <2>2, <2>4 DEF RecordAt, Named
    <3>2. RecordAt(c, at) = [owner |-> Folded(o.name), type |-> cell.type, data |-> d]
      BY <1>4, <1>5, <1>7, <1>9, <1>10, <2>1, <2>2, <2>4 DEF RecordAt, Named
    <3> QED
      BY ONLY <3>1, <3>2, Zenon
  <2> QED
    BY <2>3, <2>4
<1> QED
  <2>1. IsCell(c, fixed, "fixed")
    BY <1>1, <1>7, <1>8 DEF IsCell
  <2>2. end <= Len(c)
    BY <1>1, <1>8
  <2>3. Named(cell.type) => NameAt(c, fixed + 1 + NameAfter(cell.type)).ok
    BY <1>8, <1>11
  <2> QED
    BY <1>3, <1>4, <1>5, <1>7, <1>8, <1>12, <2>1, <2>2, <2>3 DEF RecordIn

\* p is what has been written and one more cell, that is not part of a name.
OneMoreCell(acc, x, p) ==
    /\ Writing(p)
    /\ Begins(acc.buf, p.buf)
    /\ Len(p.buf) = Len(acc.buf) + 1
    /\ p.buf[Len(acc.buf) + 1] = x

LEMMA WritingCell ==
  ASSUME NEW acc, Writing(acc), NEW x \in Cells
  PROVE  OneMoreCell(acc, x, Built(Append(acc.buf, x), acc.names))
<1>1. PICK b : b = acc.buf
  OBVIOUS
<1>2. Packet(b) /\ Table(b, acc.names) /\ Len(b) \in Nat /\ b \in Seq(Cells) /\ Len(b) >= 1
  BY <1>1, Positions DEF Writing, Packet
<1>3. PICK c : c = Append(b, x)
  OBVIOUS
<1>4. c \in Seq(Cells) /\ Len(c) = Len(b) + 1 /\ c[Len(b) + 1] = x
      /\ \A i \in 1 .. Len(b) : c[i] = b[i]
  BY <1>2, <1>3
<1>5. Packet(c) /\ Begins(b, c)
  BY <1>2, <1>4 DEF Packet, Begins
<1>6. Table(c, acc.names)
  BY <1>2, <1>5, BeginsGrows, TableStays
<1>7. PICK p : p = Built(c, acc.names)
  OBVIOUS
<1>8. p.buf = c /\ p.names = acc.names
  BY <1>7, BuiltParts
<1>9. OneMoreCell(acc, x, p)
  BY <1>1, <1>4, <1>5, <1>6, <1>8 DEF OneMoreCell, Writing
<1> QED
  BY <1>1, <1>3, <1>7, <1>9

\* A record is written so that it says what it says.
LEMMA RecordPacked ==
  ASSUME NEW acc, Writing(acc), NEW rr, NEW raw, Whole(rr, raw)
  PROVE  LET p == packRR(acc, rr, raw)
         IN  /\ Writing(p)
             /\ Begins(acc.buf, p.buf)
             /\ RecordIn(p.buf, Len(acc.buf) + 1, Len(p.buf), Tells(rr, raw))
<1>1. PICK b : b = acc.buf
  OBVIOUS
<1>2. Packet(b) /\ Len(b) \in Nat
  BY <1>1, Positions DEF Writing
<1>3. rr.name \in Seq(Labels) /\ rr.type \in STRING /\ rr.data \in Seq(Cells)
  BY DEF Whole, RRItems
<1>4. PICK owner : owner = packCompressedName(acc, rr.name)
  OBVIOUS
<1>5. PICK c : c = owner.buf
  OBVIOUS
<1>6. Writing(owner) /\ NameBehind(b, c, rr.name)
  BY <1>1, <1>3, <1>4, <1>5, NamePacked
<1>7. Packet(c) /\ Len(c) \in Nat
  BY <1>5, <1>6, Positions DEF Writing
<1>8. PICK fixed \in Nat : fixed = Len(c) + 1
  BY <1>7
<1>9. PICK blank \in Cells : blank = Fixed(rr.type, 0)
  BY <1>3 DEF Fixed, Cells
<1>10. PICK head : head = Built(Append(c, blank), owner.names)
  OBVIOUS
<1>11. PICK d : d = head.buf
  OBVIOUS
<1>12. Writing(head) /\ Begins(c, d) /\ Len(d) = fixed /\ d[fixed] = blank
  <2>1. OneMoreCell(owner, blank, Built(Append(owner.buf, blank), owner.names))
    BY <1>6, WritingCell
  <2>2. OneMoreCell(owner, blank, head)
    BY <1>5, <1>10, <2>1
  <2> QED
    BY <1>5, <1>8, <1>11, <2>2 DEF OneMoreCell
<1>13. Packet(d)
  BY <1>11, <1>12 DEF Writing
<1>14. PICK whole : whole = appendRdata(head, rr, raw)
  OBVIOUS
<1>15. PICK e : e = whole.buf
  OBVIOUS
<1>16. Writing(whole) /\ DataBehind(d, e, rr, raw)
  BY <1>11, <1>12, <1>14, <1>15, DataPacked
<1>17. Packet(e) /\ Len(e) \in Nat /\ Begins(d, e) /\ e \in Seq(Cells)
  BY <1>15, <1>16, Positions DEF Writing, DataBehind, Packet
<1>18. fixed <= Len(e) /\ e[fixed] = blank
  BY <1>8, <1>12, <1>17 DEF Begins
<1>19. PICK n \in Nat : n = Len(e) - fixed
  BY <1>17, <1>18
<1>20. PICK cell \in Cells : cell = Fixed(rr.type, n)
  BY <1>3 DEF Fixed, Cells
<1>21. PICK f : f = [e EXCEPT ![fixed] = cell]
  OBVIOUS
<1>22. /\ f \in Seq(Cells) /\ Len(f) = Len(e) /\ f[fixed] = cell
       /\ \A i \in 1 .. Len(e) : i # fixed => f[i] = e[i]
  BY <1>7, <1>8, <1>17, <1>18, <1>21
<1>23. cell.k = "fixed" /\ cell.type = rr.type /\ cell.rdlen = n /\ blank.k = "fixed"
  BY <1>9, <1>20 DEF Fixed
<1>24. Packet(f)
  <2>1. fixed # 1 /\ Len(f) >= 1
    BY <1>7, <1>8, <1>17, <1>22, Positions
  <2> QED
    BY <1>17, <1>22, <2>1 DEF Packet
<1>25. Grows(e, f)
  BY <1>18, <1>22, <1>23 DEF Grows
<1>26. packRR(acc, rr, raw) = Built(f, whole.names)
  BY <1>4, <1>5, <1>8, <1>9, <1>10, <1>14, <1>15, <1>19, <1>20, <1>21 DEF packRR
<1>27. Begins(b, f)
  <2>1. Begins(b, c)
    BY <1>6 DEF NameBehind
  <2> QED
    BY <1>2, <1>7, <1>8, <1>12, <1>17, <1>22, <2>1 DEF Begins
<1>28. Table(f, whole.names)
  BY <1>15, <1>16, <1>17, <1>24, <1>25, TableStays DEF Writing
<1>29. Grows(c, f)
  <2>1. Grows(c, d) /\ Grows(d, e)
    BY <1>12, <1>17, BeginsGrows
  <2> QED
    BY <1>7, <1>13, <1>17, <1>24, <1>25, <2>1, GrowsOn
<1>30. PICK at \in Nat : at = Len(b) + 1
  BY <1>2
<1>31. NameAt(c, at).ok /\ Folded(NameAt(c, at).name) = Folded(rr.name) /\ Behind(c, at) = fixed
  BY <1>6, <1>8, <1>30 DEF NameBehind
<1>32. NameAt(f, at).ok /\ Folded(NameAt(f, at).name) = Folded(rr.name) /\ Behind(f, at) = fixed
  BY <1>7, <1>24, <1>29, <1>31, NameStays
<1>33. IsCell(f, fixed, "fixed") /\ fixed + n = Len(f) /\ f[fixed].rdlen = n
  BY <1>8, <1>7, <1>17, <1>18, <1>19, <1>22, <1>23, <1>24, Positions DEF IsCell
<1>34. PICK front \in {0, 1} : front = NameAfter(rr.type)
  BY DEF NameAfter
<1>35. PICK data : data = SubSeq(f, fixed + 1, fixed + n)
  OBVIOUS
<1>36. data = SubSeq(e, fixed + 1, fixed + n)
  <2>1. fixed + n <= Len(e) /\ fixed + n <= Len(f)
    BY <1>17, <1>19, <1>22
  <2>2. SamePart(f, e, fixed, n)
    BY <1>17, <1>19, <1>22, <2>1 DEF SamePart
  <2> QED
    BY <1>17, <1>22, <1>35, <2>2, PartStays
<1>37. CASE Named(rr.type)
  <2>1. /\ fixed + 1 + front <= Len(e)
        /\ SubSeq(e, fixed + 1, fixed + front) = SubSeq(rr.data, 1, front)
        /\ NameAt(e, fixed + 1 + front).ok
        /\ Folded(NameAt(e, fixed + 1 + front).name) = Folded(rdataName(rr, raw).name)
    BY <1>12, <1>16, <1>34, <1>37 DEF DataBehind
  <2>2. fixed + 1 + front \in Nat
    OBVIOUS
  <2>3. NameAt(f, fixed + 1 + front) = NameAt(e, fixed + 1 + front)
    BY <1>17, <1>24, <1>25, <2>1, <2>2, NameStays
  <2>4. SubSeq(data, 1, front) = SubSeq(e, fixed + 1, fixed + front)
    <3>1. front \in Nat /\ front <= n /\ fixed + n <= Len(e)
      <4>1. front \in Nat
        BY DEF NameAfter
      <4> QED
        BY <1>17, <1>19, <2>1, <4>1
    <3>2. e \in Seq(Cells) /\ fixed \in Nat /\ n \in Nat
      BY <1>17
    <3>3. SubSeq(SubSeq(e, fixed + 1, fixed + n), 1, front) = SubSeq(e, fixed + 1, fixed + front)
      BY ONLY <3>1, <3>2, PartOfPart
    <3> QED
      BY ONLY <1>36, <3>3, Zenon
  <2>5. RecordAt(f, at) =
          [owner |-> Folded(NameAt(f, at).name), type |-> rr.type,
           data |-> <<SubSeq(data, 1, front), Folded(NameAt(f, fixed + 1 + front).name)>>]
    BY <1>22, <1>23, <1>32, <1>34, <1>35, <1>37 DEF RecordAt, Named
  <2>6. RecordAt(f, at) = Tells(rr, raw)
    BY <1>32, <1>34, <1>37, <2>1, <2>3, <2>4, <2>5 DEF Tells
  <2>7. NameAt(f, fixed + 1 + front).ok
    BY <2>1, <2>3
  <2> QED
    BY <1>1, <1>22, <1>23, <1>24, <1>26, <1>27, <1>28, <1>30, <1>32, <1>33, <1>34, <2>6, <2>7,
       BuiltParts DEF Writing, RecordIn
<1>38. CASE ~ Named(rr.type)
  <2>1. SubSeq(e, fixed + 1, Len(e)) = rr.data
    BY <1>12, <1>16, <1>38 DEF DataBehind
  <2>2. data = rr.data
    BY <1>22, <1>33, <1>36, <2>1
  <2>3. RecordAt(f, at) =
          [owner |-> Folded(NameAt(f, at).name), type |-> rr.type, data |-> data]
    BY <1>22, <1>23, <1>32, <1>35, <1>38 DEF RecordAt, Named
  <2>4. RecordAt(f, at) = Tells(rr, raw)
    BY <1>32, <1>38, <2>2, <2>3 DEF Tells
  <2> QED
    BY <1>1, <1>22, <1>23, <1>24, <1>26, <1>27, <1>28, <1>30, <1>32, <1>33, <1>38, <2>4,
       BuiltParts DEF Writing, RecordIn
<1> QED
  BY <1>37, <1>38

\* From `at' to `end' there is a question.
QuestionIn(c, at, end) ==
    /\ NameAt(c, at).ok
    /\ Behind(c, at) = end
    /\ IsCell(c, end, "question")

LEMMA QuestionPacked ==
  ASSUME NEW acc, Writing(acc), NEW q, q.name \in Seq(Labels), q.type \in STRING
  PROVE  LET p == packQuestion(acc, q)
         IN  /\ Writing(p)
             /\ Begins(acc.buf, p.buf)
             /\ QuestionIn(p.buf, Len(acc.buf) + 1, Len(p.buf))
             /\ DOMAIN acc.names = {} => NameAt(p.buf, Len(acc.buf) + 1).name = q.name
<1>1. PICK b : b = acc.buf
  OBVIOUS
<1>2. Packet(b) /\ Len(b) \in Nat
  BY <1>1, Positions DEF Writing
<1>3. PICK name : name = packCompressedName(acc, q.name)
  OBVIOUS
<1>4. PICK c : c = name.buf
  OBVIOUS
<1>5. Writing(name) /\ NameBehind(b, c, q.name)
      /\ (DOMAIN acc.names = {} => NameAt(c, Len(b) + 1).name = q.name)
  BY <1>1, <1>3, <1>4, NamePacked
<1>6. Packet(c) /\ Len(c) \in Nat
  BY <1>4, <1>5, Positions DEF Writing
<1>7. PICK cell \in Cells : cell = FixedQuestion(q.type)
  BY DEF FixedQuestion, Cells
<1>8. cell.k = "question"
  BY <1>7 DEF FixedQuestion
<1>9. PICK p : p = Built(Append(c, cell), name.names)
  OBVIOUS
<1>10. PICK d : d = p.buf
  OBVIOUS
<1>11. Writing(p) /\ Begins(c, d) /\ Len(d) = Len(c) + 1 /\ d[Len(c) + 1] = cell
  <2>1. OneMoreCell(name, cell, Built(Append(name.buf, cell), name.names))
    BY <1>5, WritingCell
  <2>2. OneMoreCell(name, cell, p)
    BY <1>4, <1>9, <2>1
  <2> QED
    BY <1>4, <1>10, <2>2 DEF OneMoreCell
<1>12. Packet(d)
  BY <1>10, <1>11 DEF Writing
<1>13. packQuestion(acc, q) = p
  BY <1>3, <1>4, <1>7, <1>9 DEF packQuestion
<1>14. PICK at \in Nat : at = Len(b) + 1
  BY <1>2
<1>15. NameAt(c, at).ok /\ Behind(c, at) = Len(c) + 1 /\ Begins(b, c)
  BY <1>5, <1>14 DEF NameBehind
<1>16. NameAt(d, at) = NameAt(c, at) /\ Behind(d, at) = Len(d)
  BY <1>6, <1>11, <1>12, <1>15, BeginsGrows, NameStays
<1>17. Begins(b, d)
  BY <1>2, <1>6, <1>11, <1>12, <1>15, BeginsOn
<1>18. IsCell(d, Len(d), "question")
  BY <1>6, <1>8, <1>11, <1>12, Positions DEF IsCell
<1>19. QuestionIn(d, at, Len(d))
  BY <1>15, <1>16, <1>18 DEF QuestionIn
<1> QED
  BY <1>1, <1>5, <1>10, <1>11, <1>13, <1>14, <1>16, <1>17, <1>19

-----------------------------------------------------------------------------
(* Replies that are written *)

\* Record by record.
LEMMA PackedByRR ==
  ASSUME NEW m, NEW N \in Nat, N = Len(AllRRs(m))
  PROVE  /\ PackedUpto(m)[0] = AskedUpto(m)[Len(m.questions)]
         /\ \A i \in 0 .. N - 1 :
               PackedUpto(m)[i + 1] = packRR(PackedUpto(m)[i], AllRRs(m)[i + 1], m.raw)
<1> DEFINE start == AskedUpto(m)[Len(m.questions)]
           Body(h, n) == [i \in 0 .. n |-> IF i = 0 THEN start
                                           ELSE packRR(h[i - 1], AllRRs(m)[i], m.raw)]
           T == {n \in Nat : \E h : h = Body(h, n)}
<1> HIDE DEF start
<1>1. 0 \in T
  <2>1. PICK h : h = [i \in 0 .. 0 |-> start]
    OBVIOUS
  <2>2. \A i \in 0 .. 0 : i = 0
    OBVIOUS
  <2>3. h = Body(h, 0)
    BY <2>1, <2>2
  <2> QED
    BY <2>3
<1>2. ASSUME NEW n \in Nat, n \in T PROVE n + 1 \in T
  <2>1. PICK h : h = Body(h, n)
    BY <1>2
  <2>2. PICK g : g = [i \in 0 .. n + 1 |->
                        IF i = n + 1 THEN packRR(h[n], AllRRs(m)[n + 1], m.raw) ELSE h[i]]
    OBVIOUS
  <2>3. \A i \in 0 .. n : g[i] = h[i]
    BY <2>2
  <2>4. h[0] = start
    BY <2>1
  <2>5. \A i \in 0 .. n : i # 0 => h[i] = packRR(h[i - 1], AllRRs(m)[i], m.raw)
    BY <2>1
  <2>6. ASSUME NEW i \in 0 .. n + 1
        PROVE  g[i] = IF i = 0 THEN start ELSE packRR(g[i - 1], AllRRs(m)[i], m.raw)
    <3>1. CASE i = 0
      BY <2>3, <2>4, <3>1
    <3>2. CASE i = n + 1
      <4>1. g[i] = packRR(h[n], AllRRs(m)[n + 1], m.raw) /\ i - 1 = n /\ i # 0 /\ n \in 0 .. n
        BY <2>2, <3>2
      <4> QED
        BY <2>3, <3>2, <4>1
    <3>3. CASE i # 0 /\ i # n + 1
      <4>1. i \in 0 .. n /\ i - 1 \in 0 .. n
        BY <3>3
      <4>2. h[i] = packRR(h[i - 1], AllRRs(m)[i], m.raw) /\ g[i] = h[i] /\ g[i - 1] = h[i - 1]
        BY <2>3, <2>5, <3>3, <4>1
      <4> QED
        BY <3>3, <4>2
    <3> QED
      BY <3>1, <3>2, <3>3
  <2>7. DOMAIN g = 0 .. n + 1 /\ g = [i \in 0 .. n + 1 |-> g[i]]
    BY <2>2
  <2>8. g = Body(g, n + 1)
    BY <2>6, <2>7
  <2> QED
    BY <2>8
<1>3. \E h : h = Body(h, N)
  <2>1. \A n \in Nat : n \in T
    <3> HIDE DEF T
    <3> QED
      BY <1>1, <1>2, Induction
  <2> QED
    BY <2>1
<1>4. PackedUpto(m) = CHOOSE h : h = Body(h, N)
  BY DEF PackedUpto, start
<1>5. PackedUpto(m) = Body(PackedUpto(m), N)
  <2> HIDE DEF Body
  <2> QED
    BY <1>3, <1>4
<1>6. PICK h : h = PackedUpto(m)
  OBVIOUS
<1>7. h = Body(h, N)
  BY <1>5, <1>6
<1>8. h[0] = start
  BY <1>7
<1>9. ASSUME NEW i \in 0 .. N - 1 PROVE h[i + 1] = packRR(h[i], AllRRs(m)[i + 1], m.raw)
  <2>1. i + 1 \in 0 .. N /\ i + 1 # 0 /\ (i + 1) - 1 = i
    OBVIOUS
  <2> QED
    BY <1>7, <2>1
<1> QED
  BY <1>6, <1>8, <1>9 DEF start

\* The only question.
LEMMA PackedQuestion ==
  ASSUME NEW m, Len(m.questions) = 1
  PROVE  AskedUpto(m)[1] = packQuestion(Unwritten(m), m.questions[1])
<1> DEFINE Body(h) == [i \in 0 .. 1 |-> IF i = 0 THEN Unwritten(m)
                                        ELSE packQuestion(h[i - 1], m.questions[i])]
<1>1. \E h : h = Body(h)
  <2>1. PICK g : g = [i \in 0 .. 1 |-> IF i = 0 THEN Unwritten(m)
                                       ELSE packQuestion(Unwritten(m), m.questions[1])]
    OBVIOUS
  <2>2. g[0] = Unwritten(m)
    BY <2>1
  <2>3. ASSUME NEW i \in 0 .. 1, i # 0 PROVE i = 1 /\ i - 1 = 0
    BY <2>3
  <2>4. g = Body(g)
    BY <2>1, <2>2, <2>3
  <2> QED
    BY <2>4
<1>2. AskedUpto(m) = CHOOSE h : h = Body(h)
  BY DEF AskedUpto
<1>3. AskedUpto(m) = Body(AskedUpto(m))
  <2> HIDE DEF Body
  <2> QED
    BY <1>1, <1>2
<1>4. PICK h : h = AskedUpto(m)
  OBVIOUS
<1>5. h = Body(h)
  BY <1>3, <1>4
<1>6. h[0] = Unwritten(m)
  BY <1>5
<1>7. h[1] = packQuestion(h[0], m.questions[1])
  BY <1>5
<1> QED
  BY <1>4, <1>6, <1>7

\* A message with one question, all of whose records can be written.
Packable(m) ==
    /\ Len(m.questions) = 1
    /\ m.questions[1].name \in Seq(Labels) /\ m.questions[1].type \in STRING
    /\ \A j \in 1 .. 3 :
          /\ m.sections[j] \in Seq(RRItems)
          /\ \A i \in 1 .. Len(m.sections[j]) : Whole(m.sections[j][i], m.raw)

\* How many records come before section j.
Before(m, j) ==
    IF j = 1 THEN 0 ELSE IF j = 2 THEN Len(m.sections[1])
    ELSE Len(m.sections[1]) + Len(m.sections[2])

\* Where the records of the sections are among all of them.
LEMMA AllInOrder ==
  ASSUME NEW m, Packable(m)
  PROVE  /\ Len(AllRRs(m)) = Len(m.sections[1]) + Len(m.sections[2]) + Len(m.sections[3])
         /\ \A j \in 1 .. 3 : \A i \in 1 .. Len(m.sections[j]) :
               AllRRs(m)[Before(m, j) + i] = m.sections[j][i]
<1>1. PICK s1 \in Seq(RRItems) : s1 = m.sections[1]
  BY DEF Packable
<1>2. PICK s2 \in Seq(RRItems) : s2 = m.sections[2]
  BY DEF Packable
<1>3. PICK s3 \in Seq(RRItems) : s3 = m.sections[3]
  BY DEF Packable
<1> DEFINE h == Together(s1, s2)
           all == Together(h, s3)
<1>4. h \in Seq(RRItems) /\ Joins(s1, s2, h)
  BY OneAfterTheOther
<1> HIDE DEF h
<1>5. all \in Seq(RRItems) /\ Joins(h, s3, all)
  BY <1>4, OneAfterTheOther
<1> HIDE DEF all
<1>6. AllRRs(m) = all
  BY ONLY <1>1, <1>2, <1>3, Zenon DEF AllRRs, h, all, Together
<1>7. PICK n1 \in Nat, n2 \in Nat, n3 \in Nat : n1 = Len(s1) /\ n2 = Len(s2) /\ n3 = Len(s3)
  OBVIOUS
<1>8. Len(h) = n1 + n2 /\ Len(all) = n1 + n2 + n3
  BY <1>4, <1>5, <1>7 DEF Joins
<1>9. ASSUME NEW i \in 1 .. n1 PROVE all[0 + i] = s1[i]
  <2>1. i \in 1 .. Len(h) /\ 0 + i = i
    BY <1>8
  <2> QED
    BY <1>4, <1>5, <1>7, <2>1 DEF Joins
<1>10. ASSUME NEW i \in 1 .. n2 PROVE all[n1 + i] = s2[i]
  <2>1. n1 + i \in 1 .. Len(h)
    BY <1>8
  <2> QED
    BY <1>4, <1>5, <1>7, <2>1 DEF Joins
<1>11. ASSUME NEW i \in 1 .. n3 PROVE all[n1 + n2 + i] = s3[i]
  BY <1>5, <1>7, <1>8 DEF Joins
<1>13. Before(m, 1) = 0 /\ Before(m, 2) = n1 /\ Before(m, 3) = n1 + n2
  BY <1>1, <1>2, <1>7 DEF Before
<1>12. ASSUME NEW j \in 1 .. 3, NEW i \in 1 .. Len(m.sections[j])
       PROVE  all[Before(m, j) + i] = m.sections[j][i]
  <2>1. CASE j = 1
    <3>1. m.sections[j] = s1 /\ i \in 1 .. n1 /\ Before(m, j) = 0
      BY <1>1, <1>7, <1>12, <1>13, <2>1
    <3> QED
      BY <1>9, <3>1
  <2>2. CASE j = 2
    <3>1. m.sections[j] = s2 /\ i \in 1 .. n2 /\ Before(m, j) = n1
      BY <1>2, <1>7, <1>12, <1>13, <2>2
    <3> QED
      BY <1>10, <3>1
  <2>3. CASE j = 3
    <3>1. m.sections[j] = s3 /\ i \in 1 .. n3 /\ Before(m, j) = n1 + n2
      BY <1>3, <1>7, <1>12, <1>13, <2>3
    <3> QED
      BY <1>11, <3>1
  <2> QED
    BY <2>1, <2>2, <2>3
<1> QED
  BY <1>1, <1>2, <1>3, <1>6, <1>7, <1>8, <1>12

\* All of them can be written.
LEMMA AllWhole ==
  ASSUME NEW m, Packable(m), NEW k \in 1 .. Len(AllRRs(m))
  PROVE  Whole(AllRRs(m)[k], m.raw)
<1>1. PICK n1 \in Nat, n2 \in Nat, n3 \in Nat :
        n1 = Len(m.sections[1]) /\ n2 = Len(m.sections[2]) /\ n3 = Len(m.sections[3])
  BY DEF Packable
<1>2. k \in 1 .. n1 + n2 + n3
  BY <1>1, AllInOrder
<1>3. Before(m, 1) = 0 /\ Before(m, 2) = n1 /\ Before(m, 3) = n1 + n2
  BY <1>1 DEF Before
<1>4. ASSUME NEW j \in 1 .. 3, NEW i \in 1 .. Len(m.sections[j]), Before(m, j) + i = k
      PROVE  Whole(AllRRs(m)[k], m.raw)
  <2>1. AllRRs(m)[k] = m.sections[j][i]
    BY <1>4, AllInOrder
  <2> QED
    BY <2>1 DEF Packable
<1>5. CASE k <= n1
  <2>1. k \in 1 .. Len(m.sections[1]) /\ Before(m, 1) + k = k /\ 1 \in 1 .. 3
    BY <1>1, <1>2, <1>3, <1>5
  <2> QED
    BY <1>4, <2>1
<1>6. CASE n1 < k /\ k <= n1 + n2
  <2>1. PICK i \in 1 .. n2 : n1 + i = k
    <3>1. k - n1 \in 1 .. n2 /\ n1 + (k - n1) = k
      BY <1>2, <1>6
    <3> QED
      BY <3>1
  <2>2. i \in 1 .. Len(m.sections[2]) /\ Before(m, 2) + i = k /\ 2 \in 1 .. 3
    <3>1. i \in 1 .. Len(m.sections[2])
      BY ONLY <1>1, i \in 1 .. n2, Zenon
    <3>2. Before(m, 2) + i = k
      BY ONLY <1>3, <2>1, Zenon
    <3>3. 2 \in 1 .. 3
      OBVIOUS
    <3> QED
      BY <3>1, <3>2, <3>3
  <2> QED
    BY ONLY <1>4, <2>2, Zenon
<1>7. CASE n1 + n2 < k
  <2>1. PICK i \in 1 .. n3 : (n1 + n2) + i = k
    <3>1. k - (n1 + n2) \in 1 .. n3 /\ (n1 + n2) + (k - (n1 + n2)) = k
      BY <1>2, <1>7
    <3> QED
      BY <3>1
  <2>2. i \in 1 .. Len(m.sections[3]) /\ Before(m, 3) + i = k /\ 3 \in 1 .. 3
    <3>1. i \in 1 .. Len(m.sections[3])
      BY ONLY <1>1, i \in 1 .. n3, Zenon
    <3>2. Before(m, 3) + i = k
      BY ONLY <1>3, <2>1, Zenon
    <3>3. 3 \in 1 .. 3
      OBVIOUS
    <3> QED
      BY <3>1, <3>2, <3>3
  <2> QED
    BY ONLY <1>4, <2>2, Zenon
<1> QED
  BY <1>2, <1>5, <1>6, <1>7

\* The counts in the header of a reply.
LEMMA ReplyStarts ==
  ASSUME NEW m, Packable(m)
  PROVE  LET start == Unwritten(m)
         IN  /\ Writing(start)
             /\ Len(start.buf) = 1
             /\ DOMAIN start.names = {}
             /\ start.buf[1].counts = <<1, Len(m.sections[1]), Len(m.sections[2]),
                                        Len(m.sections[3])>>
<1>1. PICK n1 \in Nat, n2 \in Nat, n3 \in Nat :
        n1 = Len(m.sections[1]) /\ n2 = Len(m.sections[2]) /\ n3 = Len(m.sections[3])
  BY DEF Packable
<1>2. PICK cell : cell = Header(<<1, n1, n2, n3>>)
  OBVIOUS
<1>3. cell.k = "header" /\ cell.counts = <<1, n1, n2, n3>>
  BY <1>2 DEF Header
<1>4. cell \in Cells
  <2>1. <<1, n1, n2, n3>> \in [1 .. 4 -> Nat]
    OBVIOUS
  <2> QED
    BY <1>2, <2>1 DEF Header, Cells
<1>5. Unwritten(m) = Built(<<cell>>, <<>>)
  BY <1>1, <1>2 DEF Unwritten, Packable
<1>6. PICK p : p = Unwritten(m)
  OBVIOUS
<1>7. p.buf = <<cell>> /\ p.names = <<>>
  BY <1>5, <1>6, BuiltParts
<1>8. Packet(p.buf)
  BY <1>3, <1>4, <1>7 DEF Packet
<1>9. DOMAIN p.names = {}
  BY <1>7
<1>10. Writing(p)
  BY <1>8, <1>9 DEF Writing, Table
<1> QED
  BY <1>1, <1>3, <1>6, <1>7, <1>9, <1>10

\* What P holds of a reply was written record by record, as far as record k.
WrittenUpto(P, m, k) ==
    /\ Writing(P[k])
    /\ \A i \in 1 .. k :
          /\ Begins(P[i - 1].buf, P[k].buf)
          /\ RecordIn(P[k].buf, Len(P[i - 1].buf) + 1, Len(P[i].buf),
                      Tells(AllRRs(m)[i], m.raw))
          /\ Len(P[i].buf) \in Nat /\ Len(P[i - 1].buf) \in Nat
    /\ Begins(P[0].buf, P[k].buf)

LEMMA WrittenOneMore ==
  ASSUME NEW m, NEW P, NEW k \in Nat, WrittenUpto(P, m, k),
         Whole(AllRRs(m)[k + 1], m.raw), P[k + 1] = packRR(P[k], AllRRs(m)[k + 1], m.raw)
  PROVE  WrittenUpto(P, m, k + 1)
<1>1. PICK b, c : b = P[k].buf /\ c = P[k + 1].buf
  OBVIOUS
<1>2. Writing(P[k]) /\ Begins(P[0].buf, b)
  BY <1>1 DEF WrittenUpto
<1>3. Writing(P[k + 1]) /\ Begins(b, c)
      /\ RecordIn(c, Len(b) + 1, Len(c), Tells(AllRRs(m)[k + 1], m.raw))
  BY <1>1, <1>2, RecordPacked
<1>4. Packet(b) /\ Packet(c) /\ Len(b) \in Nat /\ Len(c) \in Nat
  BY <1>1, <1>2, <1>3, Positions DEF Writing
<1>5. Begins(P[0].buf, c)
  BY <1>2, <1>3, <1>4 DEF Begins
<1>6. ASSUME NEW i \in 1 .. k + 1
      PROVE  /\ Begins(P[i - 1].buf, c)
             /\ RecordIn(c, Len(P[i - 1].buf) + 1, Len(P[i].buf), Tells(AllRRs(m)[i], m.raw))
             /\ Len(P[i].buf) \in Nat /\ Len(P[i - 1].buf) \in Nat
  <2>1. CASE i = k + 1
    <3>1. P[i - 1].buf = b /\ P[i].buf = c
      BY <1>1, <2>1
    <3> QED
      BY <1>3, <1>4, <2>1, <3>1
  <2>2. CASE i # k + 1
    <3>1. i \in 1 .. k
      BY <2>2
    <3>2. PICK d, e, said : d = P[i - 1].buf /\ e = P[i].buf /\ said = Tells(AllRRs(m)[i], m.raw)
      OBVIOUS
    <3>3. /\ Begins(d, b) /\ RecordIn(b, Len(d) + 1, Len(e), said)
          /\ Len(d) \in Nat /\ Len(e) \in Nat
      BY <1>1, <3>1, <3>2 DEF WrittenUpto
    <3>4. Begins(d, c)
      BY <1>3, <1>4, <3>3 DEF Begins
    <3>5. PICK at \in Nat, end \in Nat : at = Len(d) + 1 /\ end = Len(e)
      BY <3>3
    <3>6. RecordIn(c, at, end, said)
      BY <1>3, <1>4, <3>3, <3>5, RecordStays
    <3> QED
      BY <3>2, <3>3, <3>4, <3>5, <3>6
  <2> QED
    BY <2>1, <2>2
<1> QED
  BY <1>1, <1>3, <1>5, <1>6 DEF WrittenUpto

\* The question and all records of a reply are written.
LEMMA WrittenToTheEnd ==
  ASSUME NEW m, Packable(m), NEW N \in Nat, N = Len(AllRRs(m)), NEW P, P = PackedUpto(m)
  PROVE  /\ WrittenUpto(P, m, N)
         /\ Writing(P[0])
         /\ Begins(Unwritten(m).buf, P[0].buf)
         /\ QuestionIn(P[0].buf, 2, Len(P[0].buf))
         /\ NameAt(P[0].buf, 2).name = m.questions[1].name
<1>1. PICK start : start = Unwritten(m)
  OBVIOUS
<1>2. Writing(start) /\ Len(start.buf) = 1 /\ DOMAIN start.names = {}
  BY <1>1, ReplyStarts
<1>3. PICK q : q = m.questions[1]
  OBVIOUS
<1>4. Len(m.questions) = 1 /\ q.name \in Seq(Labels) /\ q.type \in STRING
  BY <1>3 DEF Packable
<1>5. P[0] = packQuestion(start, q) /\ \A i \in 0 .. N - 1 : P[i + 1] = packRR(P[i], AllRRs(m)[i + 1], m.raw)
  BY <1>1, <1>3, <1>4, PackedByRR, PackedQuestion
<1>6. Writing(P[0]) /\ Begins(start.buf, P[0].buf)
      /\ QuestionIn(P[0].buf, 2, Len(P[0].buf))
      /\ NameAt(P[0].buf, 2).name = q.name
  <2>1. Len(start.buf) + 1 = 2
    BY <1>2
  <2> QED
    BY <1>2, <1>4, <1>5, <2>1, QuestionPacked
<1> DEFINE T == {k \in Nat : k <= N => WrittenUpto(P, m, k)}
<1>7. 0 \in T
  <2>1. Begins(P[0].buf, P[0].buf)
    <3>1. Len(P[0].buf) \in Nat
      BY <1>6, Positions DEF Writing
    <3> QED
      BY <3>1 DEF Begins
  <2> QED
    BY <1>6, <2>1 DEF WrittenUpto
<1>8. ASSUME NEW k \in Nat, k \in T PROVE k + 1 \in T
  <2> SUFFICES ASSUME k + 1 <= N PROVE WrittenUpto(P, m, k + 1)
    OBVIOUS
  <2>1. k \in 0 .. N - 1 /\ k + 1 \in 1 .. N /\ k <= N
    OBVIOUS
  <2>2. Whole(AllRRs(m)[k + 1], m.raw)
    BY <2>1, AllWhole
  <2>3. WrittenUpto(P, m, k) /\ P[k + 1] = packRR(P[k], AllRRs(m)[k + 1], m.raw)
    BY <1>5, <1>8, <2>1
  <2> QED
    BY <2>2, <2>3, WrittenOneMore
<1>9. WrittenUpto(P, m, N)
  <2>1. \A k \in Nat : k \in T
    <3> HIDE DEF T
    <3> QED
      BY <1>7, <1>8, Induction
  <2> QED
    BY <2>1
<1> QED
  BY <1>1, <1>3, <1>6, <1>9

\* What is behind a question and behind a record.
LEMMA AfterQuestion ==
  ASSUME NEW b, NEW c, Packet(b), Packet(c), Begins(b, c), NEW at \in Nat, at # 0,
         QuestionIn(b, at, Len(b)), NEW i \in Nat, i <= c[1].counts[1]
  PROVE  After(c, i, at) = Len(b) + 1 /\ NameAt(c, at) = NameAt(b, at)
<1>1. Len(b) \in Nat /\ Len(c) \in Nat /\ DOMAIN b = 1 .. Len(b) /\ DOMAIN c = 1 .. Len(c)
  BY Positions
<1>2. NameAt(b, at).ok /\ Behind(b, at) = Len(b) /\ IsCell(b, Len(b), "question")
  BY DEF QuestionIn
<1>3. NameAt(c, at) = NameAt(b, at) /\ Behind(c, at) = Len(b)
  BY <1>2, BeginsGrows, NameStays
<1>4. IsCell(c, Len(b), "question")
  BY <1>1, <1>2 DEF IsCell, Begins
<1> QED
  BY <1>2, <1>3, <1>4 DEF After

LEMMA AfterRecord ==
  ASSUME NEW c, NEW at \in Nat, at # 0, NEW end \in Nat, NEW said, RecordIn(c, at, end, said),
         NEW i \in Nat, ~ (i <= c[1].counts[1])
  PROVE  After(c, i, at) = end + 1 /\ RecordAt(c, at) = said
<1>1. PICK fixed : fixed = Behind(c, at)
  OBVIOUS
<1>2. NameAt(c, at).ok /\ IsCell(c, fixed, "fixed") /\ fixed + c[fixed].rdlen = end
      /\ end <= Len(c) /\ RecordAt(c, at) = said
  BY <1>1 DEF RecordIn
<1> QED
  BY <1>1, <1>2 DEF After

\* A packed reply: the question, and where it and the records begin.
PackedAs(c, m, P, N) ==
    /\ Packet(c)
    /\ c[1].counts = <<1, Len(m.sections[1]), Len(m.sections[2]), Len(m.sections[3])>>
    /\ Records(c) = N + 1
    /\ NameAt(c, 2).name = m.questions[1].name
    /\ \A k \in 0 .. N : Starts(c)[k + 2] = Len(P[k].buf) + 1 /\ Len(P[k].buf) \in Nat
    /\ \A k \in 1 .. N :
          RecordAt(c, Starts(c)[k + 1]) = Tells(AllRRs(m)[k], m.raw)

LEMMA PackedReply ==
  ASSUME NEW m, Packable(m), NEW N \in Nat, N = Len(AllRRs(m)), NEW P, P = PackedUpto(m)
  PROVE  PackedAs(P[N].buf, m, P, N)
<1>1. PICK b, c : b = P[0].buf /\ c = P[N].buf
  OBVIOUS
<1>2. WrittenUpto(P, m, N) /\ Writing(P[0]) /\ Begins(Unwritten(m).buf, b)
      /\ QuestionIn(b, 2, Len(b)) /\ NameAt(b, 2).name = m.questions[1].name
  BY <1>1, WrittenToTheEnd
<1>3. Packet(b) /\ Packet(c) /\ Begins(b, c) /\ Len(b) \in Nat /\ Len(c) \in Nat
  BY <1>1, <1>2, Positions DEF WrittenUpto, Writing
<1>4. PICK n1 \in Nat, n2 \in Nat, n3 \in Nat :
        n1 = Len(m.sections[1]) /\ n2 = Len(m.sections[2]) /\ n3 = Len(m.sections[3])
  BY DEF Packable
<1>5. N = n1 + n2 + n3
  BY <1>4, AllInOrder
<1>6. PICK u : u = Unwritten(m).buf
  OBVIOUS
<1>7. Len(u) = 1 /\ u[1].counts = <<1, n1, n2, n3>>
  BY <1>4, <1>6, ReplyStarts
<1>8. c[1] = u[1]
  <2>1. 1 \in 1 .. Len(u) /\ 1 <= Len(b)
    BY <1>2, <1>6, <1>7 DEF Begins
  <2>2. b[1] = u[1]
    BY <1>2, <1>6, <2>1 DEF Begins
  <2>3. c[1] = b[1]
    BY <1>3, <2>1 DEF Begins
  <2> QED
    BY <2>2, <2>3
<1>9. c[1].counts = <<1, n1, n2, n3>>
  BY <1>7, <1>8
<1>10. Records(c) = N + 1
  <2>1. PICK t : t = <<1, n1, n2, n3>>
    OBVIOUS
  <2>2. t[1] = 1 /\ t[2] = n1 /\ t[3] = n2 /\ t[4] = n3
    BY <2>1
  <2>3. Records(c) = t[1] + t[2] + t[3] + t[4]
    BY <1>9, <2>1 DEF Records
  <2> QED
    BY <1>5, <2>2, <2>3
<1>11. c[1].counts[1] = 1
  BY <1>9
<1>12. PICK s : s = Starts(c)
  OBVIOUS
<1>13. s[1] = 2 /\ \A i \in 1 .. N + 1 : s[i + 1] = After(c, i, s[i])
  BY <1>3, <1>10, <1>12, StartByStart
<1>14. NameAt(c, 2) = NameAt(b, 2) /\ After(c, 1, 2) = Len(b) + 1
  BY <1>2, <1>3, <1>11, AfterQuestion
<1> DEFINE T == {k \in Nat : k <= N => s[k + 2] = Len(P[k].buf) + 1 /\ Len(P[k].buf) \in Nat}
<1>15. 0 \in T
  <2>1. s[1 + 1] = After(c, 1, s[1])
    BY <1>13
  <2>2. s[0 + 2] = Len(b) + 1
    BY <1>13, <1>14, <2>1
  <2> QED
    BY <1>1, <1>3, <2>2
<1>16. ASSUME NEW k \in Nat, k + 1 <= N, k \in T
       PROVE  /\ s[(k + 1) + 2] = Len(P[k + 1].buf) + 1 /\ Len(P[k + 1].buf) \in Nat
              /\ RecordAt(c, s[(k + 1) + 1]) = Tells(AllRRs(m)[k + 1], m.raw)
  <2>1. k + 1 \in 1 .. N /\ (k + 1) - 1 = k /\ k <= N /\ k + 2 \in 1 .. N + 1
        /\ (k + 2) + 1 = (k + 1) + 2 /\ (k + 1) + 1 = k + 2
    BY <1>16
  <2>2. PICK at : at = Len(P[k].buf) + 1
    OBVIOUS
  <2>3. s[k + 2] = at /\ Len(P[k].buf) \in Nat
    BY <1>16, <2>1, <2>2
  <2>4. PICK end : end = Len(P[k + 1].buf)
    OBVIOUS
  <2>5. PICK said : said = Tells(AllRRs(m)[k + 1], m.raw)
    OBVIOUS
  <2>6. RecordIn(c, at, end, said) /\ end \in Nat
    BY <1>1, <1>2, <2>1, <2>2, <2>4, <2>5 DEF WrittenUpto
  <2>7. at \in Nat /\ at # 0 /\ k + 2 \in Nat /\ ~ (k + 2 <= c[1].counts[1])
    BY <1>11, <2>2, <2>3
  <2>8. After(c, k + 2, at) = end + 1 /\ RecordAt(c, at) = said
    BY <2>6, <2>7, AfterRecord
  <2>9. s[(k + 2) + 1] = After(c, k + 2, s[k + 2])
    BY <1>13, <2>1
  <2>10. s[(k + 1) + 2] = end + 1
    BY <2>1, <2>3, <2>8, <2>9
  <2>11. RecordAt(c, s[(k + 1) + 1]) = said
    BY <2>1, <2>3, <2>8
  <2> QED
    BY <2>4, <2>5, <2>6, <2>10, <2>11
<1>17. \A k \in Nat : k \in T
  <2>1. ASSUME NEW k \in Nat, k \in T PROVE k + 1 \in T
    BY <1>16, <2>1
  <2> HIDE DEF T
  <2> QED
    BY <1>15, <2>1, Induction
<1>18. \A k \in 0 .. N : s[k + 2] = Len(P[k].buf) + 1 /\ Len(P[k].buf) \in Nat
  BY <1>17
<1>19. ASSUME NEW k \in 1 .. N PROVE RecordAt(c, s[k + 1]) = Tells(AllRRs(m)[k], m.raw)
  <2>1. PICK j \in Nat : j + 1 = k
    <3>1. k - 1 \in Nat /\ (k - 1) + 1 = k
      OBVIOUS
    <3> QED
      BY <3>1
  <2>2. j + 1 <= N
    BY <2>1
  <2>3. RecordAt(c, s[(j + 1) + 1]) = Tells(AllRRs(m)[j + 1], m.raw)
    <3> HIDE DEF T
    <3> QED
      BY <1>16, <1>17, <2>2
  <2> QED
    BY <2>1, <2>3
<1> QED
  BY <1>1, <1>2, <1>3, <1>4, <1>9, <1>10, <1>12, <1>14, <1>18, <1>19 DEF PackedAs

\* What a message tells.
Told(m) ==
    [j \in 1 .. 3 |-> [i \in 1 .. Len(m.sections[j]) |-> Tells(m.sections[j][i], m.raw)]]

\* What is packed is read back.
LEMMA PackSays ==
  ASSUME NEW m, Packable(m)
  PROVE  /\ Packet(Pack(m))
         /\ Readable(Pack(m))
         /\ Pack(m)[1].counts[1] = 1
         /\ NameAt(Pack(m), 2).name = m.questions[1].name
         /\ Said(Pack(m)) = Told(m)
<1>1. PICK n1 \in Nat, n2 \in Nat, n3 \in Nat :
        n1 = Len(m.sections[1]) /\ n2 = Len(m.sections[2]) /\ n3 = Len(m.sections[3])
  BY DEF Packable
<1>2. PICK N \in Nat : N = n1 + n2 + n3 /\ N = Len(AllRRs(m))
  <2>1. Len(AllRRs(m)) = Len(m.sections[1]) + Len(m.sections[2]) + Len(m.sections[3])
    BY AllInOrder
  <2>2. Len(AllRRs(m)) = n1 + n2 + n3
    BY ONLY <1>1, <2>1, Zenon
  <2>3. PICK N \in Nat : N = n1 + n2 + n3
    OBVIOUS
  <2> QED
    BY <2>2, <2>3
<1>3. PICK P : P = PackedUpto(m)
  OBVIOUS
<1>4. PICK c : c = P[N].buf /\ c = Pack(m)
  BY <1>2, <1>3 DEF Pack
<1>5. PackedAs(c, m, P, N)
  BY <1>2, <1>3, <1>4, PackedReply
<1>6. PICK t : t = <<1, n1, n2, n3>>
  OBVIOUS
<1>7. t[1] = 1 /\ t[1 + 1] = n1 /\ t[2 + 1] = n2 /\ t[3 + 1] = n3
      /\ t[2] = n1 /\ t[3] = n2
  BY <1>6
<1>8. Packet(c) /\ c[1].counts = t /\ Records(c) = N + 1
      /\ NameAt(c, 2).name = m.questions[1].name
  BY <1>1, <1>5, <1>6 DEF PackedAs
<1>9. PICK s : s = Starts(c)
  OBVIOUS
<1>10. \A k \in 1 .. N : RecordAt(c, s[k + 1]) = Tells(AllRRs(m)[k], m.raw)
  BY <1>5, <1>9 DEF PackedAs
<1>11. Readable(c)
  <2>1. s[N + 2] # 0
    <3>1. N \in 0 .. N
      OBVIOUS
    <3>2. s[N + 2] = Len(P[N].buf) + 1 /\ Len(P[N].buf) \in Nat
      BY <1>5, <1>9, <3>1 DEF PackedAs
    <3> QED
      BY <3>2
  <2>2. (N + 1) + 1 = N + 2
    OBVIOUS
  <2> QED
    BY <1>8, <1>9, <2>1, <2>2, ReadableToTheEnd
<1>12. PICK before : before = <<1, 1 + n1, 1 + n1 + n2>>
  OBVIOUS
<1>13. Said(c) = [j \in 1 .. 3 |-> [i \in 1 .. t[j + 1] |-> RecordAt(c, s[before[j] + i])]]
  BY <1>7, <1>8, <1>9, <1>12 DEF Said
<1>14. ASSUME NEW j \in 1 .. 3
       PROVE  [i \in 1 .. t[j + 1] |-> RecordAt(c, s[before[j] + i])]
              = [i \in 1 .. Len(m.sections[j]) |-> Tells(m.sections[j][i], m.raw)]
  <2>1. t[j + 1] = Len(m.sections[j])
    <3>1. CASE j = 1
      BY <1>1, <1>7, <3>1
    <3>2. CASE j = 2
      BY <1>1, <1>7, <3>2
    <3>3. CASE j = 3
      BY <1>1, <1>7, <3>3
    <3> QED
      BY <3>1, <3>2, <3>3
  <2>2. Before(m, j) \in Nat /\ before[j] = Before(m, j) + 1
        /\ Before(m, j) + Len(m.sections[j]) <= N
    <3>0. Before(m, 1) = 0 /\ Before(m, 2) = n1 /\ Before(m, 3) = n1 + n2
      BY <1>1 DEF Before
    <3>4. before[1] = 1 /\ before[2] = 1 + n1 /\ before[3] = 1 + n1 + n2
      BY <1>12
    <3>1. CASE j = 1
      <4>1. Before(m, j) = 0 /\ before[j] = 1 + 0 /\ Len(m.sections[j]) = n1
        BY ONLY <1>1, <3>0, <3>4, <3>1
      <4> QED
        BY ONLY <1>2, <4>1, n1 \in Nat, n2 \in Nat, n3 \in Nat
    <3>2. CASE j = 2
      <4>1. Before(m, j) = n1 /\ before[j] = 1 + n1 /\ Len(m.sections[j]) = n2
        BY ONLY <1>1, <3>0, <3>4, <3>2
      <4> QED
        BY ONLY <1>2, <4>1, n1 \in Nat, n2 \in Nat, n3 \in Nat
    <3>3. CASE j = 3
      <4>1. Before(m, j) = n1 + n2 /\ before[j] = 1 + n1 + n2 /\ Len(m.sections[j]) = n3
        BY ONLY <1>1, <3>0, <3>4, <3>3
      <4> QED
        BY ONLY <1>2, <4>1, n1 \in Nat, n2 \in Nat, n3 \in Nat
    <3> QED
      BY <3>1, <3>2, <3>3
  <2>3. PICK n \in Nat : n = Len(m.sections[j])
    BY DEF Packable
  <2>4. ASSUME NEW i \in 1 .. n
        PROVE  RecordAt(c, s[before[j] + i]) = Tells(m.sections[j][i], m.raw)
    <3>1. PICK k : k = Before(m, j) + i
      OBVIOUS
    <3>2. k \in 1 .. N /\ before[j] + i = k + 1
      BY <2>2, <2>3, <3>1
    <3>3. AllRRs(m)[k] = m.sections[j][i]
      BY <2>3, <3>1, AllInOrder
    <3> QED
      BY <1>10, <3>2, <3>3
  <2> QED
    BY <2>1, <2>3, <2>4
<1>15. Said(c) = Told(m)
  BY ONLY <1>13, <1>14 DEF Told
<1> QED
  BY <1>4, <1>7, <1>8, <1>11, <1>15

\* A name in the data of a record, as `Sound' wants it: it ends with the data.
NameInData(buf, fixed, type, rdlen) ==
    LET name == fixed + 1 + NameAfter(type)
    IN  NameAt(buf, name).ok /\ Behind(buf, name) = fixed + rdlen + 1

\* A record that was parsed can be written, and tells what it says.
Faithful(buf, rr, at) == Whole(rr, buf) /\ Tells(rr, buf) = RecordAt(buf, at)

LEMMA ItemIsFaithful ==
  ASSUME NEW buf, Packet(buf), NEW at \in Nat, NEW rr \in RRItems, IsThere(buf, rr, at),
         NEW fixed \in Nat, fixed = Behind(buf, at), IsCell(buf, fixed, "fixed"),
         Named(rr.type) => NameInData(buf, fixed, rr.type, buf[fixed].rdlen)
  PROVE  Faithful(buf, rr, at)
<1>1. PICK said : said = RecordAt(buf, at)
  OBVIOUS
<1>2. /\ Folded(rr.name) = said.owner /\ rr.type = said.type
      /\ rr.data = SubSeq(buf, rr.offset, rr.offset + Len(rr.data) - 1)
      /\ rr.type \notin NameTypes \cup {"MX"} => rr.data = said.data
      /\ rr.offset = fixed + 1 /\ Len(rr.data) = buf[fixed].rdlen
  BY <1>1 DEF IsThere, IsAsSaid
<1>3. PICK type \in STRING, rdlen \in Nat : type = buf[fixed].type /\ rdlen = buf[fixed].rdlen
  BY Positions, CellFacts DEF IsCell
<1>4. PICK data : data = SubSeq(buf, fixed + 1, fixed + rdlen)
  OBVIOUS
<1>5. rr.data = data
  <2>1. rr.offset + Len(rr.data) - 1 = fixed + rdlen
    <3>1. (fixed + 1) + rdlen - 1 = fixed + rdlen
      OBVIOUS
    <3> QED
      BY ONLY <1>2, <1>3, <3>1
  <2> QED
    BY ONLY <1>2, <1>4, <2>1
<1>6. said.owner = Folded(NameAt(buf, at).name) /\ said.type = type
      /\ said = [owner |-> Folded(NameAt(buf, at).name), type |-> type,
                 data |-> IF Named(type)
                          THEN <<SubSeq(data, 1, NameAfter(type)),
                                 Folded(NameAt(buf, fixed + 1 + NameAfter(type)).name)>>
                          ELSE data]
  BY <1>1, <1>3, <1>4 DEF RecordAt, Named
<1>7. rr.type = type /\ Len(rr.data) = rdlen
  BY <1>2, <1>3, <1>6
<1>8. CASE ~ Named(type)
  <2>1. Whole(rr, buf)
    BY <1>7, <1>8 DEF Whole
  <2>2. Tells(rr, buf) = [owner |-> Folded(rr.name), type |-> type, data |-> data]
    BY <1>5, <1>7, <1>8 DEF Tells
  <2>3. said = [owner |-> Folded(rr.name), type |-> type, data |-> data]
    BY <1>2, <1>6, <1>8
  <2> QED
    BY <1>1, <2>1, <2>2, <2>3 DEF Faithful
<1>9. CASE Named(type)
  <2>1. PICK front \in {0, 1} : front = NameAfter(type)
    BY DEF NameAfter
  <2>2. PICK name \in Nat : name = fixed + 1 + front
    OBVIOUS
  <2>3. NameAt(buf, name).ok /\ Behind(buf, name) = fixed + rdlen + 1
    BY <1>3, <1>7, <1>9, <2>1, <2>2 DEF NameInData
  <2>4. name \in 1 .. Len(buf) /\ Behind(buf, name) > name /\ NameAt(buf, name) \in Reading
    <3>1. /\ NameAt(buf, name) \in Reading /\ name \in 1 .. Len(buf)
          /\ Stop(buf, name) \in 1 .. Len(buf) /\ Stop(buf, name) >= name
          /\ Behind(buf, name) = Stop(buf, name) + 1
      BY <2>3, NameFacts
    <3>2. PICK stop \in Nat : stop = Stop(buf, name)
      BY <3>1
    <3>3. stop >= name /\ Behind(buf, name) = stop + 1
      BY <3>1, <3>2
    <3>4. Behind(buf, name) > name
      BY ONLY <3>3, name \in Nat, stop \in Nat
    <3> QED
      BY <3>1, <3>4
  <2>5. front <= rdlen /\ name > 1 /\ name <= Len(buf)
    <3>1. fixed + rdlen + 1 > fixed + 1 + front
      BY ONLY <2>2, <2>3, <2>4
    <3>2. fixed >= 1
      BY Positions DEF IsCell
    <3>3. Len(buf) \in Nat
      BY Positions
    <3> QED
      BY <2>2, <2>4, <3>1, <3>2, <3>3
  <2>6. PICK n : n = NameAt(buf, name).name
    OBVIOUS
  <2>7. n \in Seq(Labels)
    BY <2>4, <2>6 DEF Reading
  <2>8. parseName(buf, name).st = "done" /\ parseName(buf, name).name = n
    BY <2>3, <2>6, ParseNameReads
  <2>9. rr.offset + NameAfter(rr.type) = name
    BY ONLY <1>2, <1>7, <2>1, <2>2
  <2>10. rdataName(rr, buf) = [ok |-> TRUE, name |-> n]
    BY ONLY <2>5, <2>8, <2>9 DEF rdataName
  <2>11. Whole(rr, buf)
    <3>1. Len(rr.data) >= NameAfter(rr.type)
      BY ONLY <1>7, <2>1, <2>5, rdlen \in Nat
    <3> QED
      BY <2>7, <2>10, <3>1 DEF Whole
  <2>12. Tells(rr, buf) = [owner |-> Folded(rr.name), type |-> type,
                           data |-> <<SubSeq(data, 1, front), Folded(n)>>]
    BY ONLY <1>5, <1>7, <1>9, <2>1, <2>10 DEF Tells
  <2>13. said = [owner |-> Folded(rr.name), type |-> type,
                 data |-> <<SubSeq(data, 1, front), Folded(n)>>]
    BY ONLY <1>2, <1>6, <1>9, <2>1, <2>2, <2>6
  <2> QED
    BY <1>1, <2>11, <2>12, <2>13 DEF Faithful
<1> QED
  BY <1>8, <1>9

\* The record at the r-th start.
RecordThere(buf, r) ==
    LET at == Starts(buf)[r]
        fixed == Behind(buf, at)
    IN  /\ at \in Nat /\ fixed \in Nat
        /\ IsCell(buf, fixed, "fixed")
        /\ Sound(buf) /\ Named(buf[fixed].type) =>
              NameInData(buf, fixed, buf[fixed].type, buf[fixed].rdlen)

LEMMA RecordsThere ==
  ASSUME NEW buf, Packet(buf), Readable(buf), NEW r \in Nat,
         buf[1].counts[1] < r, r <= Records(buf)
  PROVE  RecordThere(buf, r)
<1>1. PICK N \in Nat, c1 \in Nat : N = Records(buf) /\ c1 = buf[1].counts[1]
  BY Counts
<1>2. PICK s : s = Starts(buf)
  OBVIOUS
<1>3. s \in [1 .. N + 1 -> Nat] /\ r \in 1 .. N /\ r + 1 \in 1 .. N + 1
      /\ s[r + 1] = After(buf, r, s[r]) /\ s[r] # 0 /\ s[r + 1] # 0
  <2>1. r \in 1 .. N /\ r + 1 \in 1 .. N + 1 /\ r \in 1 .. N + 1
    BY <1>1
  <2>2. s \in [1 .. N + 1 -> Nat] /\ \A i \in 1 .. N : s[i + 1] = After(buf, i, s[i])
    BY <1>1, <1>2, StartByStart
  <2>3. \A i \in 1 .. N + 1 : s[i] # 0
    BY <1>1, <1>2, ReadableToTheEnd
  <2> QED
    BY <2>1, <2>2, <2>3
<1>4. PICK at \in Nat : at = s[r]
  BY <1>1, <1>3
<1>5. PICK fixed \in Nat : fixed = Behind(buf, at)
  BY BehindType
<1>6. ~ (r <= buf[1].counts[1])
  BY <1>1
<1>7. IsCell(buf, fixed, "fixed") /\ s[r + 1] = fixed + buf[fixed].rdlen + 1
  BY <1>3, <1>4, <1>5, <1>6 DEF After
<1>8. ASSUME Sound(buf), Named(buf[fixed].type)
      PROVE  NameInData(buf, fixed, buf[fixed].type, buf[fixed].rdlen)
  <2>1. Len(s) = N + 1
    BY <1>3
  <2>2. r \in buf[1].counts[1] + 1 .. Len(s) - 1
    BY <1>1, <2>1
  <2>3. PICK name : name = fixed + 1 + NameAfter(buf[fixed].type)
    OBVIOUS
  <2>4. NameAt(buf, name).ok /\ Behind(buf, name) = s[r + 1]
    BY <1>2, <1>4, <1>5, <1>8, <2>2, <2>3 DEF Sound, Named
  <2> QED
    BY <1>7, <2>3, <2>4 DEF NameInData
<1> QED
  BY <1>2, <1>4, <1>5, <1>7, <1>8 DEF RecordThere

\* Where the sections are among the records.
LEMMA InSections ==
  ASSUME NEW buf, Packet(buf), NEW j \in 1 .. 3, NEW i \in 1 .. buf[1].counts[j + 1]
  PROVE  /\ buf[1].counts[j + 1] \in Nat
         /\ Base(buf, j) + i \in Nat
         /\ buf[1].counts[1] < Base(buf, j) + i
         /\ Base(buf, j) + i <= Records(buf)
<1>1. PICK c \in [1 .. 4 -> Nat] : c = buf[1].counts
  BY Counts
<1>2. PICK c1 \in Nat, c2 \in Nat, c3 \in Nat, c4 \in Nat :
         c1 = c[1] /\ c2 = c[2] /\ c3 = c[3] /\ c4 = c[4]
  BY <1>1
<1>3. Records(buf) = c1 + c2 + c3 + c4
  BY <1>1, <1>2 DEF Records
<1>4. Base(buf, 1) = c1 /\ Base(buf, 2) = c1 + c2 /\ Base(buf, 3) = c1 + c2 + c3
  BY <1>1, <1>2 DEF Base
<1>5. CASE j = 1
  <2>1. i \in 1 .. c2 /\ buf[1].counts[j + 1] = c2 /\ Base(buf, j) = c1 /\ buf[1].counts[1] = c1
    BY <1>1, <1>2, <1>4, <1>5
  <2> QED
    BY <1>3, <2>1
<1>6. CASE j = 2
  <2>1. i \in 1 .. c3 /\ buf[1].counts[j + 1] = c3 /\ Base(buf, j) = c1 + c2
        /\ buf[1].counts[1] = c1
    BY <1>1, <1>2, <1>4, <1>6
  <2> QED
    BY <1>3, <2>1
<1>7. CASE j = 3
  <2>1. i \in 1 .. c4 /\ buf[1].counts[j + 1] = c4 /\ Base(buf, j) = c1 + c2 + c3
        /\ buf[1].counts[1] = c1
    BY <1>1, <1>2, <1>4, <1>7
  <2> QED
    BY <1>3, <2>1
<1> QED
  BY <1>5, <1>6, <1>7

\* What is known of the sections of a message that was parsed.
ParsedSections(m, buf) ==
    /\ m.raw = buf
    /\ \A j \in 1 .. 3 :
          /\ m.sections[j] \in Seq(RRItems)
          /\ \A i \in 1 .. Len(m.sections[j]) :
                /\ m.sections[j][i].offset > 1
                /\ Sound(buf) => Whole(m.sections[j][i], buf)
    /\ Sound(buf) => Told(m) = Said(buf)

LEMMA SoundParsed ==
  ASSUME NEW buf, Packet(buf), ParseMessage(buf).ok
  PROVE  ParsedSections(ParseMessage(buf), buf)
<1>1. PICK m : m = ParseMessage(buf)
  OBVIOUS
<1>2. Readable(buf) /\ SectionsOf(buf, m)
  BY <1>1, SectionsParsed
<1>3. ASSUME NEW j \in 1 .. 3
      PROVE  /\ m.sections[j] \in Seq(RRItems)
             /\ Len(m.sections[j]) = buf[1].counts[j + 1]
             /\ \A i \in 1 .. Len(m.sections[j]) :
                   /\ m.sections[j][i].offset > 1
                   /\ Sound(buf) => Faithful(buf, m.sections[j][i], Starts(buf)[Base(buf, j) + i])
  <2>1. PICK items \in Seq(RRItems) : items = m.sections[j]
    BY <1>2 DEF SectionsOf
  <2>2. Len(items) = buf[1].counts[j + 1] /\ SaidFrom(buf, items, Base(buf, j))
    BY <1>2, <2>1 DEF SectionsOf
  <2>3. ASSUME NEW i \in 1 .. Len(items)
        PROVE  /\ items[i].offset > 1
               /\ Sound(buf) => Faithful(buf, items[i], Starts(buf)[Base(buf, j) + i])
    <3>1. PICK r : r = Base(buf, j) + i
      OBVIOUS
    <3>2. r \in Nat /\ buf[1].counts[1] < r /\ r <= Records(buf)
      BY <2>2, <3>1, InSections
    <3>3. RecordThere(buf, r)
      BY <1>2, <3>2, RecordsThere
    <3>4. PICK at \in Nat : at = Starts(buf)[r]
      BY <3>3 DEF RecordThere
    <3>5. PICK fixed \in Nat : fixed = Behind(buf, at)
      BY BehindType
    <3>6. PICK rr \in RRItems : rr = items[i]
      OBVIOUS
    <3>7. IsThere(buf, rr, at)
      BY <2>2, <3>1, <3>4, <3>6 DEF SaidFrom
    <3>8. IsCell(buf, fixed, "fixed")
          /\ (Sound(buf) /\ Named(buf[fixed].type) =>
                 NameInData(buf, fixed, buf[fixed].type, buf[fixed].rdlen))
      BY <3>3, <3>4, <3>5 DEF RecordThere
    <3>9. rr.offset > 1
      <4>1. rr.offset = fixed + 1
        BY <3>5, <3>7 DEF IsThere
      <4>2. fixed >= 1
        BY <3>8, Positions DEF IsCell
      <4> QED
        BY <4>1, <4>2
    <3>10. rr.type = buf[fixed].type
      <4>1. rr.type = RecordAt(buf, at).type
        BY <3>7 DEF IsThere, IsAsSaid
      <4>2. RecordAt(buf, at).type = buf[fixed].type
        BY <3>5 DEF RecordAt
      <4> QED
        BY <4>1, <4>2
    <3>11. ASSUME Sound(buf) PROVE Faithful(buf, rr, at)
      BY <3>5, <3>7, <3>8, <3>10, <3>11, ItemIsFaithful
    <3> QED
      BY <3>1, <3>4, <3>6, <3>9, <3>11
  <2> QED
    BY <2>1, <2>2, <2>3
<1>4. ASSUME Sound(buf) PROVE Told(m) = Said(buf)
  <2>1. ASSUME NEW j \in 1 .. 3
        PROVE  [i \in 1 .. Len(m.sections[j]) |-> Tells(m.sections[j][i], m.raw)] = Said(buf)[j]
    <3>1. PICK k : k = Len(m.sections[j])
      OBVIOUS
    <3>2. k = buf[1].counts[j + 1] /\ m.raw = buf
      BY <1>2, <1>3, <3>1 DEF SectionsOf
    <3>3. \A i \in 1 .. k :
             Tells(m.sections[j][i], buf) = RecordAt(buf, Starts(buf)[Base(buf, j) + i])
      BY <1>3, <1>4, <3>1 DEF Faithful
    <3>4. Said(buf)[j] = [i \in 1 .. k |-> RecordAt(buf, Starts(buf)[Base(buf, j) + i])]
      <4>1. Said(buf)[j] = [i \in 1 .. buf[1].counts[j + 1] |->
                               RecordAt(buf, Starts(buf)[Base(buf, j) + i])]
        BY <2>1, SaidInSections
      <4> QED
        BY ONLY <3>2, <4>1, Zenon
    <3> QED
      BY ONLY <3>1, <3>2, <3>3, <3>4
  <2>2. DOMAIN Said(buf) = 1 .. 3 /\ Said(buf) = [j \in 1 .. 3 |-> Said(buf)[j]]
    BY DEF Said
  <2> QED
    BY ONLY <2>1, <2>2 DEF Told
<1> QED
  BY <1>1, <1>2, <1>3, <1>4 DEF ParsedSections, SectionsOf, Faithful

\* A name that is written out is read back.
LEMMA WrittenOutReads ==
  ASSUME NEW name \in Seq(Labels)
  PROVE  /\ packName(name) \in Seq(Cells)
         /\ parseUncompressedName(packName(name)) = [ok |-> TRUE, name |-> name]
<1>1. PICK n \in Nat : n = Len(name)
  OBVIOUS
<1>2. DOMAIN name = 1 .. n /\ \A i \in 1 .. n : name[i] \in Labels
  BY <1>1
<1>3. PICK f : f = [i \in 1 .. n |-> Label(name[i])]
  OBVIOUS
<1>4. f \in [1 .. n -> Cells]
  <2>1. \A i \in 1 .. n : Label(name[i]) \in Cells
    BY <1>2 DEF Label, Cells
  <2> QED
    BY <1>3, <2>1
<1>5. f \in Seq(Cells) /\ Len(f) = n
  BY <1>4, Listed
<1>6. End \in Cells /\ End.k = "end"
  BY DEF End, Cells
<1>7. PICK d : d = Together(f, <<End>>)
  OBVIOUS
<1>8. d \in Seq(Cells) /\ Len(d) = n + 1 /\ d[n + 1] = End /\ \A i \in 1 .. n : d[i] = f[i]
  BY <1>5, <1>6, <1>7, OneMore
<1>9. \A i \in 1 .. n : d[i].k = "label" /\ d[i].label = name[i]
  BY <1>3, <1>8 DEF Label
<1>10. packName(name) = d
  BY <1>2, <1>3, <1>7 DEF packName, Together
<1>11. PICK ends : ends = {i \in DOMAIN d : d[i].k = "end" /\ \A j \in 1 .. i - 1 : d[j].k = "label"}
  OBVIOUS
<1>12. DOMAIN d = 1 .. n + 1
  BY <1>8
<1>13. \A i \in ends : i = n + 1
  BY <1>9, <1>11, <1>12
<1>14. n + 1 \in ends
  <2>1. n + 1 \in DOMAIN d /\ (n + 1) - 1 = n
    BY <1>12
  <2>2. \A j \in 1 .. (n + 1) - 1 : d[j].k = "label"
    BY <1>9, <2>1
  <2> QED
    BY <1>6, <1>8, <1>11, <2>1, <2>2
<1>15. (CHOOSE i \in ends : TRUE) = n + 1
  BY <1>13, <1>14
<1>16. (CHOOSE i \in ends : TRUE) - 1 = n
  <2>1. (n + 1) - 1 = n
    OBVIOUS
  <2> QED
    BY ONLY <1>15, <2>1, Zenon
<1>17. [j \in 1 .. n |-> d[j].label] = name
  <2>1. name = [j \in 1 .. n |-> name[j]]
    BY <1>2
  <2> QED
    BY <1>9, <2>1
<1>18. ends # {}
  BY <1>14
<1>19. parseUncompressedName(d) = [ok |-> TRUE, name |-> name]
  BY ONLY <1>11, <1>16, <1>17, <1>18 DEF parseUncompressedName
<1> QED
  BY <1>8, <1>10, <1>19

\* A record that is taken out of its packet tells what it told in it.
TakenOut(rr, raw, out) ==
    /\ Whole(out, <<>>)
    /\ out.offset = 0
    /\ Tells(out, <<>>) = Tells(rr, raw)

LEMMA WrittenOutRecord ==
  ASSUME NEW rr \in RRItems, NEW front \in {0, 1}, front = NameAfter(rr.type),
         Len(rr.data) >= front, NEW name \in Seq(Labels), Named(rr.type),
         NEW raw, rdataName(rr, raw) = [ok |-> TRUE, name |-> name],
         NEW out, out = [name |-> rr.name, type |-> rr.type, offset |-> 0,
                         data |-> SubSeq(rr.data, 1, front) \o packName(name)]
  PROVE  TakenOut(rr, raw, out)
<1>1. rr.name \in Seq(Labels) /\ rr.type \in STRING /\ rr.data \in Seq(Cells)
  BY DEF RRItems
<1>2. PICK data \in Seq(Cells), n \in Nat : data = rr.data /\ n = Len(data) /\ front <= n
  BY <1>1
<1>3. PICK h : h = SubSeq(data, 0 + 1, 0 + front)
  OBVIOUS
<1>4. IsPart(Cells, data, 0, front, h)
  BY <1>2, <1>3, PartFacts
<1>5. h \in Seq(Cells) /\ Len(h) = front
  BY <1>4 DEF IsPart
<1>6. PICK t \in Seq(Cells) : t = packName(name)
  BY WrittenOutReads
<1>7. parseUncompressedName(t) = [ok |-> TRUE, name |-> name]
  BY <1>6, WrittenOutReads
<1>8. PICK d : d = Together(h, t)
  OBVIOUS
<1>9. d \in Seq(Cells) /\ Joins(h, t, d)
  BY <1>5, <1>8, OneAfterTheOther
<1>10. PICK k \in Nat : k = Len(t)
  OBVIOUS
<1>11. Len(d) = front + k /\ (\A i \in 1 .. front : d[i] = h[i])
       /\ \A i \in 1 .. k : d[front + i] = t[i]
  BY <1>5, <1>9, <1>10 DEF Joins
<1>12. SubSeq(rr.data, 1, front) = h
  <2>1. 0 + 1 = 1 /\ 0 + front = front
    OBVIOUS
  <2> QED
    BY ONLY <1>2, <1>3, <2>1
<1>13. out.name = rr.name /\ out.type = rr.type /\ out.offset = 0 /\ out.data = d
  BY ONLY <1>6, <1>8, <1>12, out = [name |-> rr.name, type |-> rr.type, offset |-> 0,
                         data |-> SubSeq(rr.data, 1, front) \o packName(name)] DEF Together
<1>14. out \in RRItems
  BY <1>1, <1>9, <1>13 DEF RRItems
<1>15. SubSeq(d, 1 + front, Len(d)) = t
  <2>1. SubSeq(d, front + 1, front + Len(t)) = t
    <3>1. front \in Nat /\ front + Len(t) <= Len(d)
      BY <1>10, <1>11
    <3>2. \A i \in 1 .. Len(t) : d[front + i] = t[i]
      BY <1>10, <1>11
    <3> QED
      BY ONLY <1>9, <3>1, <3>2, PartIs, t \in Seq(Cells)
  <2>2. front + 1 = 1 + front /\ front + Len(t) = Len(d)
    BY <1>10, <1>11
  <2> QED
    BY ONLY <2>1, <2>2
<1>16. SubSeq(d, 1, front) = h
  <2>1. \A i \in 1 .. Len(h) : d[0 + i] = h[i]
    BY <1>5, <1>11
  <2>2. 0 + Len(h) <= Len(d)
    BY <1>5, <1>10, <1>11
  <2>3. SubSeq(d, 0 + 1, 0 + Len(h)) = h
    BY <1>5, <1>9, <2>1, <2>2, PartIs
  <2>4. 0 + 1 = 1 /\ 0 + Len(h) = front
    BY <1>5
  <2> QED
    BY ONLY <2>3, <2>4
<1>17. rdataName(out, <<>>) = [ok |-> TRUE, name |-> name]
  <2>1. ~ (out.offset + NameAfter(out.type) > 1)
    BY <1>13
  <2>2. ~ (Len(out.data) < NameAfter(out.type))
    BY <1>10, <1>11, <1>13
  <2>3. parseUncompressedName(SubSeq(out.data, 1 + NameAfter(out.type), Len(out.data)))
        = [ok |-> TRUE, name |-> name]
    <3>1. NameAfter(out.type) = front
      BY <1>13
    <3> QED
      BY ONLY <1>7, <1>13, <1>15, <3>1
  <2> QED
    BY ONLY <2>1, <2>2, <2>3 DEF rdataName
<1>18. Whole(out, <<>>)
  <2>1. Len(out.data) >= NameAfter(out.type)
    BY <1>10, <1>11, <1>13
  <2> QED
    BY <1>14, <1>17, <2>1 DEF Whole
<1>19. Tells(out, <<>>) = [owner |-> Folded(rr.name), type |-> rr.type, data |-> <<h, Folded(name)>>]
  <2>1. Named(out.type) /\ NameAfter(out.type) = front /\ rdataName(out, <<>>).name = name
    BY <1>13, <1>17
  <2> QED
    BY ONLY <1>13, <1>16, <2>1 DEF Tells
<1>20. Tells(rr, raw) = [owner |-> Folded(rr.name), type |-> rr.type, data |-> <<h, Folded(name)>>]
  <2>1. rdataName(rr, raw).name = name
    OBVIOUS
  <2> QED
    BY ONLY <1>12, <2>1, Named(rr.type), front = NameAfter(rr.type) DEF Tells
<1> QED
  BY <1>13, <1>18, <1>19, <1>20 DEF TakenOut

\* A record is in a packet, or was taken out of it before.
Placed(rr, raw) ==
    \/ rr.offset = 0 /\ raw = <<>>
    \/ rr.offset > 1 /\ Packet(raw)

LEMMA Materialized ==
  ASSUME NEW rr, NEW raw, Whole(rr, raw), Placed(rr, raw)
  PROVE  TakenOut(rr, raw, materializeRR(rr, raw))
<1>1. rr \in RRItems /\ rr.offset \in Nat /\ rr.data \in Seq(Cells)
  BY DEF Whole, RRItems
<1>2. PICK front \in {0, 1} : front = NameAfter(rr.type)
  BY DEF NameAfter
<1>3. PICK bare : bare = [rr EXCEPT !.offset = 0]
  OBVIOUS
<1>4. bare \in RRItems /\ bare.name = rr.name /\ bare.type = rr.type /\ bare.data = rr.data
      /\ bare.offset = 0
  BY <1>1, <1>3 DEF RRItems
<1>5. PICK off \in Nat : off = rr.offset + front
  BY <1>1
<1>6. PICK p : p = parseName(raw, off)
  OBVIOUS
<1>7. ASSUME Named(rr.type), rdataName(bare, <<>>) = rdataName(rr, raw)
      PROVE  TakenOut(rr, raw, bare)
  <2>1. Whole(bare, <<>>)
    BY <1>4, <1>7 DEF Whole
  <2>2. Tells(bare, <<>>) = Tells(rr, raw)
    BY <1>4, <1>7 DEF Tells
  <2> QED
    BY <1>4, <2>1, <2>2 DEF TakenOut
<1>8. ASSUME ~ Named(rr.type) PROVE TakenOut(rr, raw, bare)
  <2>1. Whole(bare, <<>>)
    BY <1>4, <1>8 DEF Whole
  <2>2. Tells(bare, <<>>) = Tells(rr, raw)
    BY <1>4, <1>8 DEF Tells
  <2> QED
    BY <1>4, <2>1, <2>2 DEF TakenOut
<1>9. PICK C \in BOOLEAN : C <=> /\ Named(rr.type)
                                  /\ raw # <<>> /\ rr.offset > 1
                                  /\ Len(rr.data) >= front
                                  /\ p.st = "done"
  OBVIOUS
<1>10. materializeRR(rr, raw) =
         [IF C THEN [rr EXCEPT !.data = SubSeq(rr.data, 1, front) \o packName(p.name)] ELSE rr
            EXCEPT !.offset = 0]
  BY <1>2, <1>5, <1>6, <1>9 DEF materializeRR, Named
<1>11. CASE C
  <2>1. Packet(raw) /\ rr.offset > 1 /\ Named(rr.type) /\ p.st = "done" /\ Len(rr.data) >= front
    BY <1>9, <1>11 DEF Placed
  <2>2. NameAt(raw, off).ok /\ p.name = NameAt(raw, off).name
    BY <1>6, <2>1, ParseNameReads
  <2>3. off \in 1 .. Len(raw) /\ p.name \in Seq(Labels)
    BY <2>1, <2>2, NameFacts DEF Reading
  <2>4. off > 1
    BY <1>1, <1>5, <2>1
  <2>5. off <= Len(raw)
    BY <2>3
  <2>6. rdataName(rr, raw) = [ok |-> TRUE, name |-> p.name]
    BY ONLY <1>2, <1>5, <1>6, <2>1, <2>4, <2>5 DEF rdataName
  <2>7. PICK name \in Seq(Labels) : name = p.name
    BY <2>3
  <2>8. PICK d : d = SubSeq(rr.data, 1, front) \o packName(name)
    OBVIOUS
  <2>9. PICK out : out = [name |-> rr.name, type |-> rr.type, offset |-> 0, data |-> d]
    OBVIOUS
  <2>10. [[rr EXCEPT !.data = d] EXCEPT !.offset = 0] = out
    <3>1. PICK new : new = [rr EXCEPT !.data = d]
      OBVIOUS
    <3>2. new = [name |-> rr.name, type |-> rr.type, data |-> d, offset |-> rr.offset]
      BY <1>1, <3>1 DEF RRItems
    <3>3. [new EXCEPT !.offset = 0] = out
      BY ONLY <2>9, <3>2
    <3> QED
      BY <3>1, <3>3
  <2>11. materializeRR(rr, raw) = out
    BY ONLY <1>10, <1>11, <2>7, <2>8, <2>10
  <2>12. TakenOut(rr, raw, out)
    BY <1>1, <1>2, <2>1, <2>6, <2>7, <2>8, <2>9, WrittenOutRecord
  <2> QED
    BY <2>11, <2>12
<1>12. CASE ~ C
  <2>1. materializeRR(rr, raw) = bare
    BY <1>3, <1>10, <1>12
  <2>2. CASE ~ Named(rr.type)
    BY <1>8, <2>1, <2>2
  <2>3. CASE Named(rr.type)
    <3>1. Len(rr.data) >= front
      BY <1>2, <2>3 DEF Whole
    <3>2. PICK n : n = IF Len(rr.data) < front THEN [ok |-> FALSE, name |-> <<>>]
                       ELSE parseUncompressedName(SubSeq(rr.data, 1 + front, Len(rr.data)))
      OBVIOUS
    <3>3. rdataName(bare, <<>>) = n
      <4>1. ~ (bare.offset + NameAfter(bare.type) > 1) /\ NameAfter(bare.type) = front
        BY <1>2, <1>4
      <4> QED
        BY ONLY <1>4, <3>2, <4>1 DEF rdataName
    <3>4. rdataName(rr, raw) = n
      <4>1. CASE rr.offset = 0 /\ raw = <<>>
        <5>1. ~ (rr.offset + NameAfter(rr.type) > 1)
          BY <1>2, <4>1
        <5> QED
          BY ONLY <1>2, <3>2, <5>1 DEF rdataName
      <4>2. CASE rr.offset > 1 /\ Packet(raw)
        <5>1. p.st # "done"
          BY <1>9, <1>12, <2>3, <3>1, <4>2 DEF Packet
        <5> QED
          BY ONLY <1>2, <1>5, <1>6, <3>2, <5>1 DEF rdataName
      <4> QED
        BY <4>1, <4>2 DEF Placed
    <3> QED
      BY <1>7, <2>1, <2>3, <3>3, <3>4
  <2> QED
    BY <2>2, <2>3
<1> QED
  BY <1>9, <1>11, <1>12

\* A message all of whose records can be written.
Ready(m) ==
    \A j \in 1 .. 3 :
        /\ m.sections[j] \in Seq(RRItems)
        /\ \A i \in 1 .. Len(m.sections[j]) :
              Whole(m.sections[j][i], m.raw) /\ Placed(m.sections[j][i], m.raw)

\* What the alias and the message tell, and nothing else.
ToldBehind(first, told) == <<Together(<<first>>, told), <<>>, <<>>>>

LEMMA Prepended ==
  ASSUME NEW m, Ready(m), NEW alias, Whole(alias.rr, alias.raw), Placed(alias.rr, alias.raw)
  PROVE  LET p == prependCNAME(alias, m)
         IN  /\ Ready(p)
             /\ p.raw = <<>>
             /\ Told(p) = ToldBehind(Tells(alias.rr, alias.raw), Told(m)[1])
<1>1. PICK items \in Seq(RRItems) : items = m.sections[1]
  BY DEF Ready
<1>2. PICK n \in Nat : n = Len(items)
  OBVIOUS
<1>3. PICK raw : raw = m.raw
  OBVIOUS
<1>4. \A i \in 1 .. n : Whole(items[i], raw) /\ Placed(items[i], raw)
  BY <1>1, <1>2, <1>3 DEF Ready
<1>5. PICK rest : rest = [i \in 1 .. n |-> materializeRR(items[i], raw)]
  OBVIOUS
<1>6. \A i \in 1 .. n : TakenOut(items[i], raw, rest[i])
  BY <1>4, <1>5, Materialized
<1>7. \A i \in 1 .. n : rest[i] \in RRItems
  BY <1>6 DEF TakenOut, Whole
<1>8. rest \in [1 .. n -> RRItems]
  BY <1>5, <1>7
<1>9. rest \in Seq(RRItems) /\ Len(rest) = n
  BY <1>8, Listed
<1>10. PICK first : first = materializeRR(alias.rr, alias.raw)
  OBVIOUS
<1>11. TakenOut(alias.rr, alias.raw, first)
  BY <1>10, Materialized
<1>12. first \in RRItems
  BY <1>11 DEF TakenOut, Whole
<1>13. PICK all : all = Together(<<first>>, rest)
  OBVIOUS
<1>14. all \in Seq(RRItems) /\ Joins(<<first>>, rest, all) /\ Len(<<first>>) = 1 /\ <<first>>[1] = first
  <2>1. PICK one : one = <<first>>
    OBVIOUS
  <2>2. one \in Seq(RRItems) /\ Len(one) = 1 /\ one[1] = first
    BY <1>12, <2>1
  <2>3. Together(one, rest) \in Seq(RRItems) /\ Joins(one, rest, Together(one, rest))
    BY <1>9, <2>2, OneAfterTheOther
  <2> QED
    BY ONLY <1>13, <2>1, <2>2, <2>3, Zenon
<1>15. Len(all) = 1 + n /\ all[1] = first /\ \A i \in 1 .. n : all[1 + i] = rest[i]
  BY <1>9, <1>14 DEF Joins
<1>16. PICK p : p = prependCNAME(alias, m)
  OBVIOUS
<1>17. DOMAIN items = 1 .. n
  BY <1>2
<1>18. p.sections = <<all, <<>>, <<>>>> /\ p.raw = <<>>
  <2>1. rest = [i \in DOMAIN m.sections[1] |-> materializeRR(m.sections[1][i], m.raw)]
    BY ONLY <1>1, <1>3, <1>5, <1>17, Zenon
  <2>2. p = [ok |-> m.ok, questions |-> <<>>, sections |-> <<all, <<>>, <<>>>>, raw |-> <<>>]
    BY ONLY <1>10, <1>13, <1>16, <2>1, Zenon DEF prependCNAME, Together
  <2> QED
    BY ONLY <2>2
<1>19. p.sections[1] = all /\ p.sections[2] = <<>> /\ p.sections[3] = <<>>
  BY <1>18
<1>20. ASSUME NEW i \in 1 .. 1 + n
       PROVE  Whole(all[i], <<>>) /\ Placed(all[i], <<>>)
  <2>1. CASE i = 1
    BY <1>11, <1>15, <2>1 DEF TakenOut, Placed
  <2>2. CASE i # 1
    <3>1. PICK k \in 1 .. n : 1 + k = i
      <4>1. i - 1 \in 1 .. n /\ 1 + (i - 1) = i
        BY <2>2
      <4> QED
        BY <4>1
    <3>2. all[i] = rest[k]
      BY <1>15, <3>1
    <3> QED
      BY <1>6, <3>2 DEF TakenOut, Placed
  <2> QED
    BY <2>1, <2>2
<1>21. Ready(p)
  <2>1. ASSUME NEW j \in 1 .. 3
        PROVE  /\ p.sections[j] \in Seq(RRItems)
               /\ \A i \in 1 .. Len(p.sections[j]) :
                     Whole(p.sections[j][i], p.raw) /\ Placed(p.sections[j][i], p.raw)
    <3>1. CASE j = 1
      BY <1>14, <1>15, <1>18, <1>19, <1>20, <3>1
    <3>2. CASE j # 1
      <4>1. p.sections[j] = <<>>
        BY <1>19, <3>2
      <4>2. <<>> \in Seq(RRItems) /\ Len(<<>>) = 0 /\ 1 .. 0 = {}
        OBVIOUS
      <4> QED
        BY ONLY <4>1, <4>2
    <3> QED
      BY <3>1, <3>2
  <2> QED
    BY <2>1 DEF Ready
<1>22. PICK t, told : t = Tells(alias.rr, alias.raw) /\ told = [i \in 1 .. n |-> Tells(items[i], raw)]
  OBVIOUS
<1>23. Told(m)[1] = told
  BY <1>1, <1>2, <1>3, <1>22 DEF Told
<1>24. PICK tellings : tellings = Together(<<t>>, told)
  OBVIOUS
<1>25. [i \in 1 .. 1 + n |-> Tells(all[i], <<>>)] = tellings
  <2>1. PICK f : f = [i \in 1 .. 1 + n |-> Tells(all[i], <<>>)]
    OBVIOUS
  <2>2. f[1] = t
    <3>1. 1 \in 1 .. 1 + n
      OBVIOUS
    <3> QED
      BY <1>11, <1>15, <1>22, <2>1, <3>1 DEF TakenOut
  <2>3. \A i \in 1 .. n : f[1 + i] = told[i]
    <3>1. ASSUME NEW i \in 1 .. n PROVE f[1 + i] = told[i]
      <4>1. 1 + i \in 1 .. 1 + n
        OBVIOUS
      <4>2. f[1 + i] = Tells(rest[i], <<>>)
        BY <1>15, <2>1, <4>1
      <4>3. Tells(rest[i], <<>>) = Tells(items[i], raw)
        BY <1>6 DEF TakenOut
      <4> QED
        BY <1>22, <4>2, <4>3
    <3> QED
      BY <3>1
  <2>4. PICK S : S = {t} \cup {told[i] : i \in 1 .. n}
    OBVIOUS
  <2>5. told \in [1 .. n -> S] /\ <<t>> \in Seq(S)
    BY <1>22, <2>4
  <2>6. told \in Seq(S) /\ Len(told) = n
    BY <2>5, Listed
  <2>7. tellings \in Seq(S) /\ Joins(<<t>>, told, tellings) /\ Len(<<t>>) = 1 /\ <<t>>[1] = t
    BY <1>24, <2>5, <2>6, OneAfterTheOther
  <2>8. Len(tellings) = 1 + n /\ tellings[1] = t /\ \A i \in 1 .. n : tellings[1 + i] = told[i]
    BY <2>6, <2>7 DEF Joins
  <2>9. f \in [1 .. 1 + n -> S]
    <3>1. ASSUME NEW i \in 1 .. 1 + n PROVE f[i] \in S
      <4>1. CASE i = 1
        BY <2>2, <2>4, <4>1
      <4>2. CASE i # 1
        <5>1. PICK k \in 1 .. n : 1 + k = i
          <6>1. i - 1 \in 1 .. n /\ 1 + (i - 1) = i
            BY <4>2
          <6> QED
            BY <6>1
        <5> QED
          BY <2>3, <2>4, <5>1
      <4> QED
        BY <4>1, <4>2
    <3>2. f = [i \in 1 .. 1 + n |-> f[i]]
      BY <2>1
    <3> QED
      BY <3>1, <3>2
  <2>10. f \in Seq(S) /\ Len(f) = 1 + n
    <3>1. 1 + n \in Nat
      OBVIOUS
    <3> QED
      BY ONLY <2>9, <3>1, Listed
  <2>11. Same(f, tellings)
    <3>1. ASSUME NEW i \in 1 .. 1 + n PROVE f[i] = tellings[i]
      <4>1. CASE i = 1
        BY <2>2, <2>8, <4>1
      <4>2. CASE i # 1
        <5>1. PICK k \in 1 .. n : 1 + k = i
          <6>1. i - 1 \in 1 .. n /\ 1 + (i - 1) = i
            BY <4>2
          <6> QED
            BY <6>1
        <5> QED
          BY <2>3, <2>8, <5>1
      <4> QED
        BY <4>1, <4>2
    <3> QED
      BY <2>8, <2>10, <3>1 DEF Same
  <2> QED
    BY ONLY <2>1, <2>7, <2>10, <2>11, SameElements
<1>26. Told(p) = <<tellings, <<>>, <<>>>>
  <2>1. ASSUME NEW j \in 1 .. 3
        PROVE  [i \in 1 .. Len(p.sections[j]) |-> Tells(p.sections[j][i], p.raw)]
               = <<tellings, <<>>, <<>>>>[j]
    <3>1. CASE j = 1
      <4>1. [i \in 1 .. Len(p.sections[j]) |-> Tells(p.sections[j][i], p.raw)]
            = [i \in 1 .. 1 + n |-> Tells(all[i], <<>>)]
        BY ONLY <1>15, <1>18, <1>19, <3>1
      <4>2. <<tellings, <<>>, <<>>>>[j] = tellings
        BY <3>1
      <4> QED
        BY ONLY <1>25, <4>1, <4>2
    <3>2. CASE j # 1
      <4>1. p.sections[j] = <<>>
        BY <1>19, <3>2
      <4>2. Len(<<>>) = 0 /\ 1 .. 0 = {}
        OBVIOUS
      <4>3. [i \in 1 .. Len(p.sections[j]) |-> Tells(p.sections[j][i], p.raw)] = <<>>
        BY ONLY <4>1, <4>2
      <4>4. <<tellings, <<>>, <<>>>>[j] = <<>>
        BY <3>2
      <4> QED
        BY ONLY <4>3, <4>4
    <3> QED
      BY <3>1, <3>2
  <2>2. <<tellings, <<>>, <<>>>> = [j \in 1 .. 3 |-> <<tellings, <<>>, <<>>>>[j]]
    OBVIOUS
  <2> QED
    BY ONLY <2>1, <2>2 DEF Told
<1> QED
  BY <1>16, <1>18, <1>21, <1>22, <1>23, <1>24, <1>26 DEF ToldBehind

\* A message that was parsed from a sound packet is ready to be packed.
LEMMA ParsedIsReady ==
  ASSUME NEW p, Packet(p), NEW m, m = ParseMessage(p), m.ok, Sound(p)
  PROVE  Ready(m) /\ m.raw = p /\ Told(m) = Said(p)
<1>1. ParsedSections(m, p)
  BY SoundParsed
<1>2. m.raw = p /\ Told(m) = Said(p)
  BY <1>1 DEF ParsedSections
<1>3. ASSUME NEW j \in 1 .. 3
      PROVE  /\ m.sections[j] \in Seq(RRItems)
             /\ \A i \in 1 .. Len(m.sections[j]) :
                   Whole(m.sections[j][i], m.raw) /\ Placed(m.sections[j][i], m.raw)
  BY <1>1, <1>2 DEF ParsedSections, Placed
<1> QED
  BY <1>2, <1>3 DEF Ready

\* The first alias in a sound packet is the first one that is said.
LEMMA FirstAliasTells ==
  ASSUME NEW p, Packet(p), NEW m, m = ParseMessage(p), m.ok, Sound(p), Aliases(m) # {}
  PROVE  /\ Whole(FirstAlias(m), p)
         /\ Placed(FirstAlias(m), p)
         /\ Tells(FirstAlias(m), p) = FirstSaid(Said(p)[1])
<1>1. Ready(m) /\ m.raw = p /\ Told(m) = Said(p)
  BY ParsedIsReady
<1>2. PICK items \in Seq(RRItems) : items = m.sections[1]
  BY <1>1 DEF Ready
<1>3. PICK n \in Nat : n = Len(items) /\ DOMAIN items = 1 .. n
  OBVIOUS
<1>4. \A i \in 1 .. n : Whole(items[i], p) /\ Placed(items[i], p)
  BY <1>1, <1>2, <1>3 DEF Ready
<1>5. PICK said : said = Said(p)[1]
  OBVIOUS
<1>6. said = [i \in 1 .. n |-> Tells(items[i], p)]
  BY <1>1, <1>2, <1>3, <1>5 DEF Told
<1>7. DOMAIN said = 1 .. n /\ \A i \in 1 .. n : said[i] = Tells(items[i], p)
  BY <1>6
<1>8. \A i \in 1 .. n : said[i].type = items[i].type
  BY <1>7 DEF Tells
<1>9. PICK W : W = {i \in 1 .. n : items[i].type = "CNAME"}
  OBVIOUS
<1>10. Aliases(m) = W
  BY <1>2, <1>3, <1>9 DEF Aliases
<1>11. {i \in DOMAIN said : said[i].type = "CNAME"} = W
  BY <1>7, <1>8, <1>9
<1>12. W \subseteq Nat /\ W # {}
  BY <1>9, <1>10
<1>13. PICK k : k = Min(W) /\ k \in W
  BY <1>12, MinOfNaturals
<1>14. k \in 1 .. n
  BY <1>9, <1>13
<1>15. FirstAlias(m) = items[k]
  BY <1>2, <1>10, <1>13 DEF FirstAlias
<1>16. FirstSaid(said) = said[k]
  BY <1>11, <1>13 DEF FirstSaid
<1> QED
  BY <1>4, <1>5, <1>7, <1>14, <1>15, <1>16

-----------------------------------------------------------------------------
(* On the way back *)

\* The first alias that a packet says.
AliasSaid(p) == FirstSaid(Said(p)[1])

\* The answers told are those of the last packet, behind the aliases of the
\* packets after the n-th.
Chain(packets, told, n) ==
    LET left == Len(packets) - 1 - n
        last == Said(packets[Len(packets)])[1]
    IN  /\ Len(told) = left + Len(last)
        /\ \A i \in 1 .. left : told[i] = AliasSaid(packets[n + i])
        /\ \A i \in 1 .. Len(last) : told[left + i] = last[i]

\* What is told when the aliases after the n-th were put in front.
TellsFrom(packets, m, n) ==
    LET told == Told(m)
    IN  /\ Chain(packets, told[1], n)
        /\ n = Len(packets) - 1 => told = Said(packets[Len(packets)])
        /\ n < Len(packets) - 1 => told = <<told[1], <<>>, <<>>>>

\* One more alias in front.
LEMMA ChainGrows ==
  ASSUME NEW packets, NEW N \in Nat, N = Len(packets), NEW n \in Nat, n + 1 < N,
         NEW last, last = Said(packets[N])[1], NEW k \in Nat, k = Len(last),
         NEW S, NEW told \in Seq(S), Chain(packets, told, n + 1),
         NEW x \in S, x = AliasSaid(packets[n + 1])
  PROVE  Chain(packets, Together(<<x>>, told), n)
<1>1. N = Len(packets) /\ last = Said(packets[N])[1] /\ k = Len(last)
  OBVIOUS
<1>2. PICK left \in Nat : left = N - 1 - (n + 1) /\ left + 1 = N - 1 - n
  <2>1. N - 1 - (n + 1) \in Nat /\ (N - 1 - (n + 1)) + 1 = N - 1 - n
    BY <1>1
  <2> QED
    BY <2>1
<1>3. /\ Len(told) = left + k
      /\ \A i \in 1 .. left : told[i] = AliasSaid(packets[n + 1 + i])
      /\ \A i \in 1 .. k : told[left + i] = last[i]
  BY <1>1, <1>2 DEF Chain
<1>4. PICK u, one : u = Together(<<x>>, told) /\ one = <<x>>
  OBVIOUS
<1>5. one \in Seq(S) /\ Len(one) = 1 /\ one[1] = x
  BY <1>4
<1>6. Together(one, told) \in Seq(S) /\ Joins(one, told, Together(one, told))
  BY <1>5, OneAfterTheOther
<1>7. Joins(one, told, u)
  BY <1>4, <1>6
<1>8. Len(u) = 1 + (left + k) /\ u[1] = x /\ \A i \in 1 .. left + k : u[1 + i] = told[i]
  BY <1>3, <1>5, <1>7 DEF Joins
<1>9. ASSUME NEW i \in 1 .. left + 1 PROVE u[i] = AliasSaid(packets[n + i])
  <2>1. CASE i = 1
    BY <1>8, <2>1
  <2>2. CASE i # 1
    <3>1. PICK j \in 1 .. left : 1 + j = i
      <4>1. i - 1 \in 1 .. left /\ 1 + (i - 1) = i
        BY <2>2
      <4> QED
        BY <4>1
    <3>2. u[1 + j] = told[j] /\ told[j] = AliasSaid(packets[n + 1 + j])
      BY <1>3, <1>8, <3>1
    <3>3. n + 1 + j = n + i
      BY <3>1
    <3> QED
      BY <3>1, <3>2, <3>3
  <2> QED
    BY <2>1, <2>2
<1>10. ASSUME NEW i \in 1 .. k PROVE u[(left + 1) + i] = last[i]
  <2>1. (left + 1) + i = 1 + (left + i) /\ left + i \in 1 .. left + k
    OBVIOUS
  <2>2. u[1 + (left + i)] = told[left + i]
    BY <1>8, <2>1
  <2> QED
    BY <1>3, <2>1, <2>2
<1>11. Len(u) = (left + 1) + k
  <2>1. 1 + (left + k) = (left + 1) + k
    BY ONLY left \in Nat, k \in Nat
  <2> QED
    BY ONLY <1>8, <2>1, Zenon
<1>12. Chain(packets, u, n)
  <2>1. Len(packets) - 1 - n = left + 1
    BY ONLY <1>1, <1>2
  <2>2. Said(packets[Len(packets)])[1] = last
    BY ONLY <1>1
  <2> QED
    BY ONLY <1>1, <1>9, <1>10, <1>11, <2>1, <2>2, Zenon DEF Chain
<1> QED
  BY <1>4, <1>12

\* f lists n values.
Lists(f, n) == f = [i \in 1 .. n |-> f[i]]

\* What is said is a list.
LEMMA SaidIsListed ==
  ASSUME NEW p, Packet(p), NEW j \in 1 .. 3
  PROVE  Len(Said(p)[j]) \in Nat /\ Lists(Said(p)[j], Len(Said(p)[j]))
<1>1. PICK k \in Nat : k = p[1].counts[j + 1]
  BY Counts
<1>2. PICK said : said = Said(p)[j]
  OBVIOUS
<1>3. said = [i \in 1 .. k |-> RecordAt(p, Starts(p)[Base(p, j) + i])]
  <2>1. Said(p)[j] = [i \in 1 .. p[1].counts[j + 1] |-> RecordAt(p, Starts(p)[Base(p, j) + i])]
    BY SaidInSections
  <2> QED
    BY ONLY <1>1, <1>2, <2>1, Zenon
<1>4. Len(said) = k /\ Lists(said, k)
  BY <1>3 DEF Lists
<1> QED
  BY <1>2, <1>4

-----------------------------------------------------------------------------
(* From upstream to the client *)

\* The alias that is kept of a packet.
AliasOf(p) == [rr |-> FirstAlias(ParseMessage(p)), raw |-> p]

AliasRecords == {AliasOf(p) : p \in {q \in Packets : Aliases(ParseMessage(q)) # {}}}

\* The packets that were accepted since the lookup began.
PacketsKept ==
    /\ question \in Questions
    /\ accepted \in Seq(Packets)
    /\ \A i \in 1 .. Len(accepted) : ParseMessage(accepted[i]).ok

\* The aliases that are still to be put in front.
AliasesKept ==
    /\ aliases \in Seq(AliasRecords)
    /\ Len(aliases) <= Len(accepted)
    /\ \A i \in 1 .. Len(aliases) :
          /\ aliases[i] = AliasOf(accepted[i])
          /\ Aliases(ParseMessage(accepted[i])) # {}

\* On the way to the answer, the last packet is held or its alias is kept.
HeldOnTheWay ==
    ~ returning =>
        /\ sent = <<>>
        /\ held = NoMessage => Len(accepted) = Len(aliases)
        /\ held # NoMessage => /\ Len(accepted) = Len(aliases) + 1
                               /\ held = ParseMessage(accepted[Len(accepted)])

IsMessage(m) ==
    m = [ok |-> m.ok, questions |-> m.questions, sections |-> m.sections, raw |-> m.raw]

AllSound == \A i \in DOMAIN accepted : Sound(accepted[i])

\* On the way back, what is held can be packed and tells what was said.
HeldOnTheWayBack ==
    returning =>
        /\ Len(aliases) < Len(accepted)
        /\ IsMessage(held)
        /\ AllSound => Ready(held) /\ TellsFrom(accepted, held, Len(aliases))

MessagesInv ==
    PacketsKept /\ AliasesKept /\ HeldOnTheWay /\ HeldOnTheWayBack /\ ReadsBack

SoundPackets(packets) ==
    /\ packets \in Seq(Packets)
    /\ \A i \in 1 .. Len(packets) : ParseMessage(packets[i]).ok /\ Sound(packets[i])

\* The last packet by itself.
LEMMA LastTells ==
  ASSUME NEW packets, SoundPackets(packets), NEW N \in Nat, N = Len(packets), 1 <= N,
         NEW m, m = ParseMessage(packets[N])
  PROVE  Ready(m) /\ IsMessage(m) /\ TellsFrom(packets, m, N - 1)
<1>1. PICK p : p = packets[N]
  OBVIOUS
<1>2. p \in Packets /\ ParseMessage(p).ok /\ Sound(p)
  BY <1>1 DEF SoundPackets
<1>3. Packet(p)
  BY <1>2, PacketsArePackets
<1>4. Ready(m) /\ Told(m) = Said(p)
  BY <1>1, <1>2, <1>3, ParsedIsReady
<1>5. IsMessage(m)
  BY DEF IsMessage, ParseMessage
<1>6. PICK last : last = Said(p)[1]
  OBVIOUS
<1>6a. PICK k \in Nat : k = Len(last)
  <2>1. Len(Said(p)[1]) \in Nat
    BY <1>3, SaidIsListed
  <2> QED
    BY <1>6, <2>1
<1>7. Chain(packets, last, N - 1)
  <2>1. Len(packets) - 1 - (N - 1) = 0
    OBVIOUS
  <2>2. Said(packets[Len(packets)])[1] = last
    BY <1>1, <1>6
  <2>3. Len(last) = 0 + Len(last) /\ 1 .. 0 = {}
    BY <1>6a
  <2>4. \A i \in 1 .. Len(last) : last[0 + i] = last[i]
    BY <1>6a
  <2> QED
    BY ONLY <2>1, <2>2, <2>3, <2>4 DEF Chain
<1>8. TellsFrom(packets, m, N - 1)
  <2>1. ~ (N - 1 < Len(packets) - 1) /\ Said(packets[Len(packets)]) = Said(p)
    BY <1>1
  <2> QED
    BY ONLY <1>4, <1>6, <1>7, <2>1 DEF TellsFrom
<1> QED
  BY <1>4, <1>5, <1>8

\* One more alias in front.
LEMMA AliasInFront ==
  ASSUME NEW packets, SoundPackets(packets), NEW n \in Nat, n + 1 < Len(packets),
         Aliases(ParseMessage(packets[n + 1])) # {},
         NEW m, Ready(m), TellsFrom(packets, m, n + 1)
  PROVE  LET p == prependCNAME(AliasOf(packets[n + 1]), m)
         IN  Ready(p) /\ IsMessage(p) /\ TellsFrom(packets, p, n)
<1>1. PICK N \in Nat : N = Len(packets) /\ n + 1 \in 1 .. N
  BY DEF SoundPackets
<1>2. PICK p : p = packets[n + 1]
  OBVIOUS
<1>3. p \in Packets /\ ParseMessage(p).ok /\ Sound(p)
  BY <1>1, <1>2 DEF SoundPackets
<1>4. Packet(p)
  BY <1>3, PacketsArePackets
<1>5. PICK e : e = packets[N]
  OBVIOUS
<1>6. Packet(e)
  <2>1. e \in Packets
    <3>1. N \in 1 .. N
      BY <1>1
    <3> QED
      BY <1>1, <1>5, <3>1 DEF SoundPackets
  <2> QED
    BY <2>1, PacketsArePackets
<1>7. PICK last : last = Said(e)[1]
  OBVIOUS
<1>7a. PICK k \in Nat : k = Len(last)
  <2>1. Len(Said(e)[1]) \in Nat
    BY <1>6, SaidIsListed
  <2> QED
    BY <1>7, <2>1
<1>8. PICK alias : alias = AliasOf(p)
  OBVIOUS
<1>9. /\ Whole(alias.rr, alias.raw)
      /\ Placed(alias.rr, alias.raw)
      /\ Tells(alias.rr, alias.raw) = AliasSaid(p)
  <2>1. PICK q : q = ParseMessage(p)
    OBVIOUS
  <2>2. Whole(FirstAlias(q), p) /\ Placed(FirstAlias(q), p)
        /\ Tells(FirstAlias(q), p) = FirstSaid(Said(p)[1])
    BY <1>2, <1>3, <1>4, <2>1, FirstAliasTells
  <2>3. alias.rr = FirstAlias(q) /\ alias.raw = p
    BY <1>8, <2>1 DEF AliasOf
  <2> QED
    BY ONLY <2>2, <2>3 DEF AliasSaid
<1>10. PICK x : x = AliasSaid(p)
  OBVIOUS
<1>11. PICK out : out = prependCNAME(alias, m)
  OBVIOUS
<1>12. PICK told : told = Told(m)[1]
  OBVIOUS
<1>13. Ready(out) /\ Told(out) = ToldBehind(x, told)
  BY <1>9, <1>10, <1>11, <1>12, Prepended
<1>14. IsMessage(out)
  BY <1>11 DEF IsMessage, prependCNAME
<1>15. PICK u : u = Together(<<x>>, told)
  OBVIOUS
<1>16. Told(out) = <<u, <<>>, <<>>>> /\ Told(out)[1] = u
  BY <1>13, <1>15 DEF ToldBehind
<1>17. Chain(packets, told, n + 1)
  BY <1>12 DEF TellsFrom
<1>18. PICK S : S = {x} \cup {told[i] : i \in DOMAIN told}
  OBVIOUS
<1>19. told \in Seq(S) /\ x \in S
  <2>1. PICK items \in Seq(RRItems) : items = m.sections[1]
    BY DEF Ready
  <2>2. told = [i \in 1 .. Len(items) |-> Tells(items[i], m.raw)]
    BY <1>12, <2>1 DEF Told
  <2>3. PICK j \in Nat : j = Len(items)
    OBVIOUS
  <2>4. DOMAIN told = 1 .. j /\ told = [i \in 1 .. j |-> told[i]]
    BY <2>2, <2>3
  <2>5. told \in [1 .. j -> S]
    BY ONLY <1>18, <2>4
  <2> QED
    BY <1>18, <2>5, Listed
<1>20. Chain(packets, u, n)
  <2>1. x = AliasSaid(packets[n + 1])
    BY <1>2, <1>10
  <2>2. last = Said(packets[N])[1] /\ n + 1 < N
    BY <1>1, <1>5, <1>7
  <2>3. Chain(packets, Together(<<x>>, told), n)
    BY ONLY <1>1, <1>7, <1>7a, <1>17, <1>19, <2>1, <2>2, ChainGrows, n \in Nat
  <2> QED
    BY ONLY <1>15, <2>3, Zenon
<1>21. TellsFrom(packets, out, n)
  <2>1. ~ (n = Len(packets) - 1)
    BY <1>1
  <2> QED
    BY ONLY <1>16, <1>20, <2>1 DEF TellsFrom
<1> QED
  BY <1>2, <1>8, <1>11, <1>13, <1>14, <1>21

\* A list whose elements are those of two lists.
AreOf(a, b, c, m, n) ==
    (\A i \in 1 .. m : c[i] = a[i]) /\ \A i \in 1 .. n : c[m + i] = b[i]

LEMMA JoinedAre ==
  ASSUME NEW a, NEW b, NEW c, NEW m \in Nat, NEW n \in Nat,
         Lists(a, m), Lists(b, n), Lists(c, m + n), AreOf(a, b, c, m, n)
  PROVE  c = Together(a, b)
<1>1. PICK S : S = {a[i] : i \in 1 .. m} \cup {b[i] : i \in 1 .. n}
  OBVIOUS
<1>2. a \in [1 .. m -> S] /\ b \in [1 .. n -> S]
  <2>1. \A i \in 1 .. m : a[i] \in S
    BY <1>1
  <2>2. \A i \in 1 .. n : b[i] \in S
    BY <1>1
  <2> QED
    BY ONLY <2>1, <2>2, Lists(a, m), Lists(b, n) DEF Lists
<1>3. a \in Seq(S) /\ Len(a) = m /\ b \in Seq(S) /\ Len(b) = n
  BY <1>2, Listed
<1>4. PICK u : u = Together(a, b)
  OBVIOUS
<1>5. u \in Seq(S) /\ Joins(a, b, u)
  BY <1>3, <1>4, OneAfterTheOther
<1>6. Len(u) = m + n /\ (\A i \in 1 .. m : u[i] = a[i]) /\ \A i \in 1 .. n : u[m + i] = b[i]
  BY <1>3, <1>5 DEF Joins
<1>7. ASSUME NEW i \in 1 .. m + n PROVE c[i] = u[i] /\ c[i] \in S
  <2>1. CASE i <= m
    <3>1. i \in 1 .. m
      BY <2>1
    <3> QED
      BY <1>1, <1>6, <3>1 DEF AreOf
  <2>2. CASE m < i
    <3>1. PICK j \in 1 .. n : m + j = i
      <4>1. i - m \in 1 .. n /\ m + (i - m) = i
        BY <2>2
      <4> QED
        BY <4>1
    <3>2. c[m + j] = b[j] /\ u[m + j] = b[j] /\ b[j] \in S
      BY <1>1, <1>6 DEF AreOf
    <3> QED
      BY <3>1, <3>2
  <2> QED
    BY <2>1, <2>2
<1>8. c \in [1 .. m + n -> S]
  BY ONLY <1>7, Lists(c, m + n) DEF Lists
<1>9. c \in Seq(S) /\ Len(c) = m + n
  <2>1. m + n \in Nat
    OBVIOUS
  <2> QED
    BY ONLY <1>8, <2>1, Listed
<1>10. Same(c, u)
  BY ONLY <1>6, <1>7, <1>9 DEF Same
<1>11. c = u
  BY ONLY <1>5, <1>9, <1>10, SameElements
<1> QED
  BY <1>4, <1>11

\* What the reply to a chain of aliases says.
SaysAll(c, packets) ==
    LET left == Front(packets)
        last == Said(Last(packets))
    IN  Said(c) = IF left = <<>> THEN last
                  ELSE << [i \in DOMAIN left |-> AliasSaid(left[i])] \o last[1],
                          <<>>, <<>> >>

\* The chain is complete when every alias was put in front.
LEMMA ChainIsAll ==
  ASSUME NEW packets, SoundPackets(packets), NEW N \in Nat, N = Len(packets), 1 <= N,
         NEW m, Ready(m), TellsFrom(packets, m, 0), NEW c, Said(c) = Told(m)
  PROVE  SaysAll(c, packets)
<1>1. packets \in Seq(Packets)
  BY DEF SoundPackets
<1>2. PICK e : e = packets[N]
  OBVIOUS
<1>3. Packet(e) /\ Last(packets) = e
  <2>1. N \in 1 .. N
    OBVIOUS
  <2>2. e \in Packets
    BY <1>1, <1>2, <2>1
  <2> QED
    BY <1>2, <2>2, PacketsArePackets DEF Last
<1>4. PICK left : left = Front(packets)
  OBVIOUS
<1>5. PICK n \in Nat : n + 1 = N
  <2>1. N - 1 \in Nat /\ (N - 1) + 1 = N
    OBVIOUS
  <2> QED
    BY <2>1
<1>6. left \in Seq(Packets) /\ Len(left) = n /\ \A i \in 1 .. n : left[i] = packets[i]
  <2>1. 0 + n <= Len(packets)
    BY <1>5
  <2>2. IsPart(Packets, packets, 0, n, SubSeq(packets, 0 + 1, 0 + n))
    BY <1>1, <2>1, PartFacts
  <2>3. 0 + 1 = 1 /\ 0 + n = n /\ Len(packets) - 1 = n
    BY <1>5
  <2>4. SubSeq(packets, 0 + 1, 0 + n) = left
    BY ONLY <1>4, <2>3 DEF Front
  <2>5. IsPart(Packets, packets, 0, n, left)
    BY ONLY <2>2, <2>4
  <2>6. \A i \in 1 .. n : 0 + i = i
    OBVIOUS
  <2> QED
    BY ONLY <2>5, <2>6 DEF IsPart
<1>7. PICK last : last = Said(e)[1]
  OBVIOUS
<1>8. PICK k \in Nat : k = Len(last) /\ Lists(last, k)
  BY <1>3, <1>7, SaidIsListed
<1>9. PICK told : told = Told(m)[1]
  OBVIOUS
<1>10. /\ Chain(packets, told, 0)
       /\ 0 = Len(packets) - 1 => Told(m) = Said(e)
       /\ 0 < Len(packets) - 1 => Told(m) = <<told, <<>>, <<>>>>
  BY <1>2, <1>9 DEF TellsFrom
<1>11. CASE n = 0
  <2>1. left = <<>>
    BY <1>6, <1>11
  <2>2. Told(m) = Said(e)
    BY <1>5, <1>10, <1>11
  <2> QED
    BY ONLY <1>3, <1>4, <2>1, <2>2, Said(c) = Told(m) DEF SaysAll
<1>12. CASE n # 0
  <2>1. left # <<>> /\ DOMAIN left = 1 .. n
    BY <1>6, <1>12
  <2>2. Told(m) = <<told, <<>>, <<>>>>
    BY <1>5, <1>10, <1>12
  <2>3. PICK g : g = [i \in 1 .. n |-> AliasSaid(left[i])]
    OBVIOUS
  <2>4. /\ Len(told) = n + k
        /\ \A i \in 1 .. n : told[i] = AliasSaid(packets[0 + i])
        /\ \A i \in 1 .. k : told[n + i] = last[i]
    <3>1. Len(packets) - 1 - 0 = n
      BY <1>5
    <3>2. Said(packets[Len(packets)])[1] = last
      BY <1>2, <1>7
    <3> QED
      BY ONLY <1>8, <1>10, <3>1, <3>2 DEF Chain
  <2>5. \A i \in 1 .. n : told[i] = g[i]
    <3>1. \A i \in 1 .. n : 0 + i = i
      OBVIOUS
    <3> QED
      BY <1>6, <2>3, <2>4, <3>1
  <2>6. Lists(told, n + k)
    <3>1. PICK items \in Seq(RRItems) : items = m.sections[1]
      BY DEF Ready
    <3>2. PICK j \in Nat : j = Len(items)
      OBVIOUS
    <3>3. told = [i \in 1 .. j |-> Tells(items[i], m.raw)]
      BY <1>9, <3>1, <3>2 DEF Told
    <3>4. Len(told) = j /\ told = [i \in 1 .. j |-> told[i]]
      BY <3>3
    <3> QED
      BY ONLY <2>4, <3>4 DEF Lists
  <2>7. Lists(g, n)
    BY <2>3 DEF Lists
  <2>8. told = Together(g, last)
    <3>1. AreOf(g, last, told, n, k)
      BY ONLY <2>4, <2>5 DEF AreOf
    <3> QED
      BY ONLY <1>8, <2>6, <2>7, <3>1, JoinedAre, n \in Nat
  <2>9. told = [i \in DOMAIN left |-> AliasSaid(left[i])] \o last
    BY ONLY <2>1, <2>3, <2>8 DEF Together
  <2> QED
    BY ONLY <1>3, <1>4, <1>7, <2>1, <2>2, <2>9, Said(c) = Told(m) DEF SaysAll
<1> QED
  BY <1>11, <1>12

\* The reply is read as ReadsBack wants it.
LEMMA ReplyTells ==
  ASSUME NEW m, Ready(m), IsMessage(m), NEW q, q.name \in Seq(Labels), q.type \in STRING,
         NEW r, r = [m EXCEPT !.questions = <<q>>]
  PROVE  /\ Ready(r) /\ IsMessage(r) /\ Told(r) = Told(m)
         /\ Readable(Pack(r))
         /\ Pack(r)[1].counts[1] = 1
         /\ NameAt(Pack(r), 2).name = q.name
         /\ Said(Pack(r)) = Told(m)
<1>1. r = [ok |-> m.ok, questions |-> <<q>>, sections |-> m.sections, raw |-> m.raw]
  <2>1. PICK ok, questions, sections, raw :
           m = [ok |-> ok, questions |-> questions, sections |-> sections, raw |-> raw]
    BY DEF IsMessage
  <2>2. [[ok |-> ok, questions |-> questions, sections |-> sections, raw |-> raw]
           EXCEPT !.questions = <<q>>]
        = [ok |-> ok, questions |-> <<q>>, sections |-> sections, raw |-> raw]
    OBVIOUS
  <2>3. m.ok = ok /\ m.sections = sections /\ m.raw = raw
    BY <2>1
  <2> QED
    BY ONLY <2>1, <2>2, <2>3, r = [m EXCEPT !.questions = <<q>>]
<1>2. r.questions = <<q>> /\ r.sections = m.sections /\ r.raw = m.raw /\ r.ok = m.ok
  BY <1>1
<1>3. Ready(r) /\ Told(r) = Told(m)
  BY <1>2 DEF Ready, Told
<1>4. IsMessage(r)
  BY ONLY <1>1, <1>2 DEF IsMessage
<1>5. Len(<<q>>) = 1 /\ <<q>>[1] = q
  OBVIOUS
<1>6. Packable(r)
  <2>1. \A j \in 1 .. 3 :
          /\ r.sections[j] \in Seq(RRItems)
          /\ \A i \in 1 .. Len(r.sections[j]) : Whole(r.sections[j][i], r.raw)
    BY <1>3 DEF Ready
  <2>2. Len(r.questions) = 1 /\ r.questions[1] = q
    BY ONLY <1>2, <1>5
  <2> QED
    BY <2>1, <2>2 DEF Packable
<1>7. r.questions[1].name = q.name
  BY ONLY <1>2, <1>5
<1> QED
  BY <1>3, <1>4, <1>6, <1>7, PackSays

\* The packets and aliases of a lookup that begins.
LEMMA AskKeeps ==
  ASSUME NEW q \in Questions, Ask(q)
  PROVE  MessagesInv'
<1>1. question' = q /\ accepted' = <<>> /\ held' = NoMessage /\ aliases' = <<>>
      /\ returning' = FALSE /\ sent' = <<>>
  BY DEF Ask
<1>2. <<>> \in Seq(Packets) /\ <<>> \in Seq(AliasRecords) /\ Len(<<>>) = 0 /\ 1 .. 0 = {}
  OBVIOUS
<1>3. PacketsKept'
  BY <1>1, <1>2 DEF PacketsKept
<1>4. AliasesKept'
  BY <1>1, <1>2 DEF AliasesKept
<1>5. HeldOnTheWay'
  BY <1>1 DEF HeldOnTheWay
<1>6. HeldOnTheWayBack'
  BY <1>1 DEF HeldOnTheWayBack
<1>7. ReadsBack'
  BY <1>1 DEF ReadsBack
<1> QED
  BY <1>3, <1>4, <1>5, <1>6, <1>7 DEF MessagesInv

LEMMA InitKeeps ==
  ASSUME MessagesInit PROVE MessagesInv
<1>1. question \in Questions /\ accepted = <<>> /\ held = NoMessage /\ aliases = <<>>
      /\ returning = FALSE /\ sent = <<>>
  BY DEF MessagesInit
<1>2. <<>> \in Seq(Packets) /\ <<>> \in Seq(AliasRecords) /\ Len(<<>>) = 0 /\ 1 .. 0 = {}
  OBVIOUS
<1>3. PacketsKept
  BY <1>1, <1>2 DEF PacketsKept
<1>4. AliasesKept
  BY <1>1, <1>2 DEF AliasesKept
<1>5. HeldOnTheWay
  BY <1>1 DEF HeldOnTheWay
<1>6. HeldOnTheWayBack
  BY <1>1 DEF HeldOnTheWayBack
<1>7. ReadsBack
  BY <1>1 DEF ReadsBack
<1> QED
  BY <1>3, <1>4, <1>5, <1>6, <1>7 DEF MessagesInv

LEMMA ReceiveKeeps ==
  ASSUME MessagesInv, NEW p \in Packets, Receive(p)
  PROVE  MessagesInv'
<1>1. held = NoMessage /\ ~ returning /\ sent = <<>> /\ sent' = <<>> /\ ~ returning'
      /\ question' = question /\ aliases' = aliases
  BY DEF MessagesInv, HeldOnTheWay, Receive
<1>2. question \in Questions /\ accepted \in Seq(Packets)
      /\ (\A i \in 1 .. Len(accepted) : ParseMessage(accepted[i]).ok)
      /\ Len(accepted) = Len(aliases)
  BY <1>1 DEF MessagesInv, PacketsKept, HeldOnTheWay
<1>3. PICK N \in Nat : N = Len(accepted)
  BY <1>2
<1>4. HeldOnTheWayBack' /\ ReadsBack'
  BY <1>1 DEF HeldOnTheWayBack, ReadsBack
<1>5. CASE ParseMessage(p).ok
  <2>1. held' = ParseMessage(p) /\ accepted' = Append(accepted, p)
    BY <1>5 DEF Receive
  <2>2. accepted' \in Seq(Packets) /\ Len(accepted') = N + 1 /\ accepted'[N + 1] = p
        /\ \A i \in 1 .. N : accepted'[i] = accepted[i]
    BY <1>2, <1>3, <2>1
  <2>3. PacketsKept'
    <3>1. ASSUME NEW i \in 1 .. N + 1 PROVE ParseMessage(accepted'[i]).ok
      <4>1. CASE i = N + 1
        BY <1>5, <2>2, <4>1
      <4>2. CASE i # N + 1
        <5>1. i \in 1 .. N
          BY <4>2
        <5> QED
          BY <1>2, <1>3, <2>2, <5>1
      <4> QED
        BY <4>1, <4>2
    <3> QED
      BY <1>1, <1>2, <2>2, <3>1 DEF PacketsKept
  <2>4. AliasesKept'
    <3>1. aliases \in Seq(AliasRecords)
          /\ \A i \in 1 .. N : /\ aliases[i] = AliasOf(accepted[i])
                               /\ Aliases(ParseMessage(accepted[i])) # {}
      BY <1>2, <1>3 DEF MessagesInv, AliasesKept
    <3>2. \A i \in 1 .. N : /\ aliases'[i] = AliasOf(accepted'[i])
                            /\ Aliases(ParseMessage(accepted'[i])) # {}
      BY <1>1, <2>2, <3>1
    <3>3. Len(aliases') = N /\ N <= Len(accepted')
      BY <1>1, <1>2, <1>3, <2>2
    <3> QED
      BY <1>1, <3>1, <3>2, <3>3 DEF AliasesKept
  <2>5. HeldOnTheWay'
    <3>1. held' # NoMessage
      BY <2>1, NoMessageIsNone
    <3>2. Len(accepted') = Len(aliases') + 1 /\ held' = ParseMessage(accepted'[Len(accepted')])
      BY <1>1, <1>2, <1>3, <2>1, <2>2
    <3> QED
      BY <1>1, <3>1, <3>2 DEF HeldOnTheWay
  <2> QED
    BY <1>4, <2>3, <2>4, <2>5 DEF MessagesInv
<1>6. CASE ~ ParseMessage(p).ok
  <2>1. held' = held /\ accepted' = accepted
    BY <1>6 DEF Receive
  <2>2. PacketsKept'
    BY <1>1, <2>1 DEF MessagesInv, PacketsKept
  <2>3. AliasesKept'
    BY <1>1, <2>1 DEF MessagesInv, AliasesKept
  <2>4. HeldOnTheWay'
    BY <1>1, <2>1 DEF MessagesInv, HeldOnTheWay
  <2> QED
    BY <1>4, <2>2, <2>3, <2>4 DEF MessagesInv
<1> QED
  BY <1>5, <1>6

LEMMA FollowAliasKeeps ==
  ASSUME MessagesInv, FollowAlias
  PROVE  MessagesInv'
<1>1. /\ held # NoMessage /\ ~ returning /\ Aliases(held) # {}
      /\ aliases' = Append(aliases, [rr |-> FirstAlias(held), raw |-> held.raw])
      /\ held' = NoMessage /\ accepted' = accepted /\ question' = question
      /\ ~ returning' /\ sent' = <<>>
  BY DEF MessagesInv, HeldOnTheWay, FollowAlias, Following
<1>2. Len(accepted) = Len(aliases) + 1 /\ held = ParseMessage(accepted[Len(accepted)])
  BY <1>1 DEF MessagesInv, HeldOnTheWay
<1>3. accepted \in Seq(Packets) /\ aliases \in Seq(AliasRecords)
      /\ \A i \in 1 .. Len(aliases) : /\ aliases[i] = AliasOf(accepted[i])
                                      /\ Aliases(ParseMessage(accepted[i])) # {}
  BY DEF MessagesInv, PacketsKept, AliasesKept
<1>4. PICK n \in Nat : n = Len(aliases)
  BY <1>3
<1>5. PICK p \in Packets : p = accepted[n + 1]
  BY <1>2, <1>3, <1>4
<1>6. held = ParseMessage(p)
  BY <1>2, <1>4, <1>5
<1>7. held.raw = p
  BY <1>6 DEF ParseMessage
<1>8. PICK alias : alias = AliasOf(p)
  OBVIOUS
<1>9. alias \in AliasRecords
  BY <1>1, <1>6, <1>8 DEF AliasRecords
<1>10. aliases' = Append(aliases, alias)
  BY <1>1, <1>6, <1>7, <1>8 DEF AliasOf
<1>11. aliases' \in Seq(AliasRecords) /\ Len(aliases') = n + 1 /\ aliases'[n + 1] = alias
       /\ \A i \in 1 .. n : aliases'[i] = aliases[i]
  BY <1>3, <1>4, <1>9, <1>10
<1>12. ASSUME NEW i \in 1 .. n + 1
       PROVE  aliases'[i] = AliasOf(accepted[i]) /\ Aliases(ParseMessage(accepted[i])) # {}
  <2>1. CASE i = n + 1
    BY <1>1, <1>5, <1>6, <1>8, <1>11, <2>1
  <2>2. CASE i # n + 1
    <3>1. i \in 1 .. n
      BY <2>2
    <3> QED
      BY <1>3, <1>4, <1>11, <3>1
  <2> QED
    BY <2>1, <2>2
<1>13. AliasesKept'
  BY <1>1, <1>2, <1>4, <1>11, <1>12 DEF AliasesKept
<1>14. HeldOnTheWay'
  BY <1>1, <1>2, <1>4, <1>11 DEF HeldOnTheWay
<1>15. PacketsKept'
  BY <1>1 DEF MessagesInv, PacketsKept
<1>16. HeldOnTheWayBack' /\ ReadsBack'
  BY <1>1 DEF HeldOnTheWayBack, ReadsBack
<1> QED
  BY <1>13, <1>14, <1>15, <1>16 DEF MessagesInv

\* What is known of the packets when all of them are sound.
LEMMA AllAreSound ==
  ASSUME PacketsKept, AllSound
  PROVE  SoundPackets(accepted)
  BY DEF PacketsKept, AllSound, SoundPackets

LEMMA ReturnKeeps ==
  ASSUME MessagesInv, Return
  PROVE  MessagesInv'
<1>1. held # NoMessage /\ ~ returning /\ returning' /\ sent = <<>> /\ sent' = <<>>
      /\ accepted' = accepted /\ held' = held /\ aliases' = aliases /\ question' = question
  BY DEF MessagesInv, HeldOnTheWay, Return
<1>2. Len(accepted) = Len(aliases) + 1 /\ held = ParseMessage(accepted[Len(accepted)])
  BY <1>1 DEF MessagesInv, HeldOnTheWay
<1>3. accepted \in Seq(Packets) /\ aliases \in Seq(AliasRecords)
  BY DEF MessagesInv, PacketsKept, AliasesKept
<1>4. PICK n \in Nat, N \in Nat : n = Len(aliases) /\ N = Len(accepted) /\ N - 1 = n /\ 1 <= N
  <2>1. PICK n \in Nat : n = Len(aliases)
    BY <1>3
  <2>2. PICK N \in Nat : N = Len(accepted)
    BY <1>3
  <2>3. N - 1 = n /\ 1 <= N
    BY <1>2, <2>1, <2>2
  <2> QED
    BY <2>1, <2>2, <2>3
<1>5. IsMessage(held)
  BY <1>2 DEF IsMessage, ParseMessage
<1>6. ASSUME AllSound PROVE Ready(held) /\ TellsFrom(accepted, held, n)
  <2>1. SoundPackets(accepted)
    BY <1>6, AllAreSound DEF MessagesInv
  <2>2. Ready(held) /\ TellsFrom(accepted, held, N - 1)
    BY <1>2, <1>4, <2>1, LastTells
  <2> QED
    BY <1>4, <2>2
<1>7. HeldOnTheWayBack'
  <2>1. Len(aliases) < Len(accepted)
    BY <1>4
  <2> QED
    BY <1>1, <1>4, <1>5, <1>6, <2>1 DEF HeldOnTheWayBack, AllSound
<1>8. PacketsKept' /\ AliasesKept'
  BY <1>1 DEF MessagesInv, PacketsKept, AliasesKept
<1>9. HeldOnTheWay' /\ ReadsBack'
  BY <1>1 DEF HeldOnTheWay, ReadsBack
<1> QED
  BY <1>7, <1>8, <1>9 DEF MessagesInv

LEMMA PrependKeeps ==
  ASSUME MessagesInv, Prepend
  PROVE  MessagesInv'
<1>1. /\ returning /\ returning' /\ aliases # <<>>
      /\ held' = prependCNAME(Last(aliases), held) /\ aliases' = Front(aliases)
      /\ accepted' = accepted /\ question' = question /\ sent' = sent
  BY DEF Prepend
<1>2. /\ accepted \in Seq(Packets)
      /\ aliases \in Seq(AliasRecords)
      /\ \A i \in 1 .. Len(aliases) : /\ aliases[i] = AliasOf(accepted[i])
                                      /\ Aliases(ParseMessage(accepted[i])) # {}
  BY DEF MessagesInv, PacketsKept, AliasesKept
<1>3. Len(aliases) < Len(accepted)
  BY <1>1 DEF MessagesInv, HeldOnTheWayBack
<1>4. PICK n \in Nat : n + 1 = Len(aliases)
  <2>1. PICK k \in Nat : k = Len(aliases)
    BY <1>2
  <2>2. k # 0
    BY <1>1, <1>2, <2>1
  <2>3. k - 1 \in Nat /\ (k - 1) + 1 = k
    BY <2>2
  <2> QED
    BY <2>1, <2>3
<1>5. PICK front : front = Front(aliases)
  OBVIOUS
<1>6. front \in Seq(AliasRecords) /\ Len(front) = n /\ \A i \in 1 .. n : front[i] = aliases[i]
  <2>1. 0 + n <= Len(aliases)
    BY <1>4
  <2>2. IsPart(AliasRecords, aliases, 0, n, SubSeq(aliases, 0 + 1, 0 + n))
    BY <1>2, <2>1, PartFacts
  <2>3. 0 + 1 = 1 /\ 0 + n = n /\ Len(aliases) - 1 = n
    BY <1>4
  <2>4. SubSeq(aliases, 0 + 1, 0 + n) = front
    BY ONLY <1>5, <2>3 DEF Front
  <2>5. IsPart(AliasRecords, aliases, 0, n, front)
    BY ONLY <2>2, <2>4
  <2>6. \A i \in 1 .. n : 0 + i = i
    OBVIOUS
  <2> QED
    BY ONLY <2>5, <2>6 DEF IsPart
<1>7. n + 1 < Len(accepted) /\ n + 1 \in 1 .. Len(aliases)
  BY <1>3, <1>4
<1>8. Last(aliases) = AliasOf(accepted[n + 1]) /\ Aliases(ParseMessage(accepted[n + 1])) # {}
  <2>1. Last(aliases) = aliases[n + 1]
    BY <1>4 DEF Last
  <2> QED
    BY <1>2, <1>7, <2>1
<1>9. held' = prependCNAME(AliasOf(accepted[n + 1]), held)
  BY ONLY <1>1, <1>8
<1>10. IsMessage(held')
  <2>1. PICK m : m = prependCNAME(AliasOf(accepted[n + 1]), held)
    OBVIOUS
  <2>2. IsMessage(m)
    BY <2>1 DEF IsMessage, prependCNAME
  <2> QED
    BY <1>9, <2>1, <2>2
<1>11. ASSUME AllSound PROVE Ready(held') /\ TellsFrom(accepted, held', n)
  <2>1. SoundPackets(accepted)
    BY <1>11, AllAreSound DEF MessagesInv
  <2>2. Ready(held) /\ TellsFrom(accepted, held, n + 1)
    BY <1>1, <1>4, <1>11 DEF MessagesInv, HeldOnTheWayBack
  <2>3. Ready(prependCNAME(AliasOf(accepted[n + 1]), held))
        /\ TellsFrom(accepted, prependCNAME(AliasOf(accepted[n + 1]), held), n)
    BY ONLY <1>7, <1>8, <2>1, <2>2, AliasInFront, n \in Nat
  <2> QED
    BY ONLY <1>9, <2>3
<1>12. Len(aliases') = n
  BY <1>1, <1>5, <1>6
<1>13. HeldOnTheWayBack'
  <2>1. Len(aliases') < Len(accepted')
    BY <1>1, <1>3, <1>4, <1>12
  <2>2. AllSound' => AllSound
    BY <1>1 DEF AllSound
  <2> QED
    BY <1>1, <1>10, <1>11, <1>12, <2>1, <2>2 DEF HeldOnTheWayBack
<1>14. AliasesKept'
  <2>1. \A i \in 1 .. n : i \in 1 .. Len(aliases)
    BY <1>4
  <2>2. \A i \in 1 .. n : /\ front[i] = AliasOf(accepted[i])
                          /\ Aliases(ParseMessage(accepted[i])) # {}
    BY <1>2, <1>6, <2>1
  <2>3. n <= Len(accepted)
    BY <1>2, <1>7
  <2>4. aliases' = front
    BY <1>1, <1>5
  <2> QED
    BY <1>1, <1>6, <2>2, <2>3, <2>4 DEF AliasesKept
<1>15. PacketsKept' /\ HeldOnTheWay'
  BY <1>1 DEF MessagesInv, PacketsKept, HeldOnTheWay
<1>16. ReadsBack'
  BY <1>1 DEF MessagesInv, ReadsBack
<1> QED
  BY <1>13, <1>14, <1>15, <1>16 DEF MessagesInv

LEMMA ReplyKeeps ==
  ASSUME MessagesInv, Reply
  PROVE  MessagesInv'
<1>1. /\ returning /\ returning' /\ aliases = <<>> /\ aliases' = aliases
      /\ held' = [held EXCEPT !.questions = <<question>>] /\ sent' = Pack(held')
      /\ accepted' = accepted /\ question' = question
  BY DEF Reply
<1>2. Len(aliases) < Len(accepted) /\ Len(aliases) = 0 /\ IsMessage(held)
  BY <1>1 DEF MessagesInv, HeldOnTheWayBack
<1>3. question.name \in Seq(Labels) /\ question.type \in STRING
  BY MessageConstants DEF MessagesInv, PacketsKept
<1>4. PICK N \in Nat : N = Len(accepted) /\ 1 <= N
  <2>1. PICK N \in Nat : N = Len(accepted)
    BY DEF MessagesInv, PacketsKept
  <2> QED
    BY <1>2, <2>1
<1>5. PICK m : m = held
  OBVIOUS
<1>6. PICK r : r = held'
  OBVIOUS
<1>7. r = [m EXCEPT !.questions = <<question>>]
  BY <1>1, <1>5, <1>6
<1>8. IsMessage(r)
  <2>1. r = [ok |-> m.ok, questions |-> <<question>>, sections |-> m.sections, raw |-> m.raw]
    <3>1. PICK ok, questions, sections, raw :
             m = [ok |-> ok, questions |-> questions, sections |-> sections, raw |-> raw]
      BY <1>2, <1>5 DEF IsMessage
    <3>2. [[ok |-> ok, questions |-> questions, sections |-> sections, raw |-> raw]
             EXCEPT !.questions = <<question>>]
          = [ok |-> ok, questions |-> <<question>>, sections |-> sections, raw |-> raw]
      OBVIOUS
    <3>3. m.ok = ok /\ m.sections = sections /\ m.raw = raw
      BY <3>1
    <3> QED
      BY ONLY <1>7, <3>1, <3>2, <3>3
  <2> QED
    BY ONLY <2>1 DEF IsMessage
<1>9. ASSUME AllSound
      PROVE  /\ Ready(r) /\ TellsFrom(accepted, r, 0)
             /\ Readable(Pack(r)) /\ Pack(r)[1].counts[1] = 1
             /\ NameAt(Pack(r), 2).name = question.name
             /\ SaysAll(Pack(r), accepted)
  <2>1. SoundPackets(accepted)
    BY <1>9, AllAreSound DEF MessagesInv
  <2>2. Ready(m) /\ TellsFrom(accepted, m, 0)
    BY <1>1, <1>2, <1>5, <1>9 DEF MessagesInv, HeldOnTheWayBack
  <2>3. /\ Ready(r) /\ Told(r) = Told(m)
        /\ Readable(Pack(r)) /\ Pack(r)[1].counts[1] = 1
        /\ NameAt(Pack(r), 2).name = question.name
        /\ Said(Pack(r)) = Told(m)
    <3>1. IsMessage(m)
      BY <1>2, <1>5
    <3> QED
      BY ONLY <1>3, <1>7, <2>2, <3>1, ReplyTells
  <2>4. TellsFrom(accepted, r, 0)
    BY ONLY <2>2, <2>3 DEF TellsFrom
  <2>5. SaysAll(Pack(r), accepted)
    BY ONLY <1>4, <2>1, <2>2, <2>3, ChainIsAll
  <2> QED
    BY ONLY <2>3, <2>4, <2>5
<1>10. AllSound' <=> AllSound
  BY <1>1 DEF AllSound
<1>11. HeldOnTheWayBack'
  <2>1. Len(aliases') < Len(accepted') /\ Len(aliases') = 0
    BY <1>1, <1>2
  <2> QED
    BY <1>1, <1>6, <1>8, <1>9, <1>10, <2>1 DEF HeldOnTheWayBack
<1>12. ReadsBack'
  <2>1. SUFFICES ASSUME AllSound'
                 PROVE  /\ Readable(sent') /\ sent'[1].counts[1] = 1
                        /\ NameAt(sent', 2).name = question'.name
                        /\ SaysAll(sent', accepted')
    BY DEF ReadsBack, AllSound, SaysAll, AliasSaid
  <2> QED
    BY <1>1, <1>6, <1>9, <1>10, <2>1
<1>13. PacketsKept' /\ AliasesKept' /\ HeldOnTheWay'
  BY <1>1 DEF MessagesInv, PacketsKept, AliasesKept, HeldOnTheWay
<1> QED
  BY <1>11, <1>12, <1>13 DEF MessagesInv

LEMMA MessagesInvariant == MessagesSpec => []MessagesInv
<1>1. MessagesInit => MessagesInv
  BY InitKeeps
<1>2. MessagesInv /\ [MessagesNext]_messagesVars => MessagesInv'
  <2> SUFFICES ASSUME MessagesInv, [MessagesNext]_messagesVars
               PROVE  MessagesInv'
    OBVIOUS
  <2>1. CASE \E p \in Packets : Receive(p)
    BY <2>1, ReceiveKeeps
  <2>2. CASE FollowAlias
    BY <2>2, FollowAliasKeeps
  <2>3. CASE \E q \in Questions : GiveUp(q) \/ NextQuery(q)
    <3>1. PICK q \in Questions : Ask(q)
      BY <2>3 DEF GiveUp, NextQuery
    <3> QED
      BY <3>1, AskKeeps
  <2>4. CASE Return
    BY <2>4, ReturnKeeps
  <2>5. CASE Prepend
    BY <2>5, PrependKeeps
  <2>6. CASE Reply
    BY <2>6, ReplyKeeps
  <2>7. CASE UNCHANGED messagesVars
    BY <2>7 DEF messagesVars, MessagesInv, PacketsKept, AliasesKept, HeldOnTheWay,
                HeldOnTheWayBack, AllSound, ReadsBack
  <2> QED
    BY <2>1, <2>2, <2>3, <2>4, <2>5, <2>6, <2>7 DEF MessagesNext
<1> QED
  BY <1>1, <1>2, PTL DEF MessagesSpec

\* The client reads in the reply its own question, and the records that the
\* packets upstream said: the first alias of each packet that was left, then
\* all of the last one (message.go:226-370, resolver.go:875-904).
THEOREM MessagesReadsBack == MessagesSpec => []ReadsBack
<1>1. MessagesInv => ReadsBack
  BY DEF MessagesInv
<1> QED
  BY <1>1, MessagesInvariant, PTL
=============================================================================
