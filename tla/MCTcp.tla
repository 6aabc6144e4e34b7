-------------------------------- MODULE MCTcp --------------------------------
(***************************************************************************)
(* TLC instances of the transports in userspace/: the TCP stack, and the   *)
(* loss recovery of QUIC.  A behaviour is about one of them.               *)
(***************************************************************************)
EXTENDS TcpStack, QuicRecovery

\* Sequence numbers that wrap during a connection.
MCPeerIss  == [p \in Peers |-> SeqMod - 2]
MCStackIss == [p \in Peers |-> <<SeqMod - 2, 3>>]
MCPeerData == [p \in Peers |-> 2]

VARIABLE transport   \* "tcp" or "quic"

TransportInit == transport \in {"tcp", "quic"} /\ Init /\ RecInit
TransportNext ==
    \/ transport = "tcp" /\ Next /\ UNCHANGED <<recVars, transport>>
    \/ transport = "quic" /\ RecNext /\ UNCHANGED <<vars, transport>>
TransportSpec == TransportInit /\ [][TransportNext]_<<vars, recVars, transport>>
==============================================================================
