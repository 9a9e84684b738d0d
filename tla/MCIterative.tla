---------------------------- MODULE MCIterative ----------------------------
(* Instances of Iterative for TLC. *)
EXTENDS Iterative, TLC

CONSTANTS d1, d2, s1, s2, n1, n2

Record(n) == [owner |-> n, type |-> "asked", target |-> Unparsed]
Alias(n, m) == [owner |-> n, type |-> "cname", target |-> m]

\* For each name: its record, an alias with and without what it points to, a
\* loop, and an alias that does not parse.
MCAnswers ==
    (d1 :> {<<Record(d1)>>, <<Alias(d1, d2)>>, <<Alias(d1, d2), Record(d2)>>,
           <<Alias(d1, d2), Record(d1)>>, <<Alias(d1, Unparsed)>>})
    @@ (d2 :> {<<Record(d2)>>, <<Alias(d2, d1)>>, <<Alias(d2, d2)>>})

\* Complete answers, or an alias of a name without records.
MCCached ==
    (d1 :> {<<Record(d1)>>}) @@ (d2 :> {<<Alias(d2, d1), Record(d1)>>, <<Alias(d2, d1)>>})
=============================================================================
