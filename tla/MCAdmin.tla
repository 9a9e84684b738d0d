------------------------------ MODULE MCAdmin ------------------------------
(* Instances of Admin for TLC. *)
EXTENDS Admin

CONSTANTS h1, h2

\* One domain in two spellings; a parent of it is on the lists.
ads == <<"ads", "net">>
MCSpellings == {[name |-> ads, padded |-> FALSE], [name |-> ads, padded |-> TRUE]}
MCListDomains == {<<"net">>}
MCQueryNames == {<<"x", "ads", "net">>, ads, <<"net">>, <<"org">>}

\* One record.
MCRecords == {[key |-> "a.lan A", value |-> "10.0.0.1"]}

\* No file; a file that leaves the filter off, without a ticker; one that has
\* it on, with a ticker.
MCFirstFiles ==
    {Absent,
     [mode |-> "off", inline |-> {[name |-> ads, padded |-> FALSE]},
      lists |-> TRUE, ticks |-> FALSE, records |-> {}],
     [mode |-> "blacklist", inline |-> {[name |-> ads, padded |-> FALSE]},
      lists |-> TRUE, ticks |-> TRUE, records |-> MCRecords]}
=============================================================================
