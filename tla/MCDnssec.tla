------------------------------ MODULE MCDnssec ------------------------------
(* Instances of Dnssec for TLC. *)
EXTENDS Dnssec

\* The root, a zone, and a zone below it.
MCCom == <<"com">>
MCExample == <<"com", "example">>
MCZones == {Root, MCCom, MCExample}

MCHome == [n \in {"www"} |-> IF n = "www" THEN MCExample ELSE MCCom]

\* The root's keys are never held, so they need no names here; "kx" is a key
\* that no zone publishes any more.
MCKeys == {"kc", "ke", "kx"}
MCOwn == [z \in MCZones |-> IF z = MCCom THEN {"kc"} ELSE IF z = MCExample THEN {"ke"} ELSE {}]
MCKeySets == {{}, {"kc"}, {"ke"}, {"kx"}}
MCSigs == {[signer |-> MCCom, by |-> {"kc"}], [signer |-> MCCom, by |-> {"kx"}],
           [signer |-> MCExample, by |-> {"ke"}], [signer |-> MCExample, by |-> {"kx"}],
           [signer |-> Root, by |-> {}], NoSig}

MCSymmetry == Permutations(Lookups)
=============================================================================
