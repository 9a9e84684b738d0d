------------------------------- MODULE MCWire -------------------------------
(***************************************************************************)
(* What passes between the resolver and its peers: the connections that    *)
(* exchanges share (ConnPool), and the packets that are read from them and *)
(* packed for clients (Messages).  To ConnPool a packet is its ID, which   *)
(* Messages leaves out; the two share no state and each is checked by      *)
(* itself: a behaviour of both is an interleaving of a behaviour of one    *)
(* and a behaviour of the other.                                           *)
(***************************************************************************)
EXTENDS MCConnPool, MCMessages

VARIABLE part  \* the part that is running

wireVars == <<vars, messagesVars, part>>

\* The part that stands still starts in one state.
WireInit ==
    /\ Init /\ MessagesInit
    /\ part \in {"connections", "packets"}
    /\ part = "connections" => ~ forwarded /\ question.type = "A"

OnConnections == part = "connections" /\ UNCHANGED <<messagesVars, part>>

OnPackets == part = "packets" /\ UNCHANGED <<vars, part>>

WireNext == (OnConnections /\ Next) \/ (OnPackets /\ MessagesNext)

\* Fairness of ConnPool.
WireFairness ==
    /\ \A t \in Threads : WF_wireVars(OnConnections /\ ExchangeStep(t))
    /\ WF_wireVars(OnConnections /\ ReapStep)

WireSpec == WireInit /\ [][WireNext]_wireVars /\ WireFairness
=============================================================================
