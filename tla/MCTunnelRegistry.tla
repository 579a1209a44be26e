-------------------------- MODULE MCTunnelRegistry --------------------------
(***************************************************************************)
(* A small instance of TunnelRegistry for TLC: a client that comes back,   *)
(* or has two controls at once.                                            *)
(***************************************************************************)
EXTENDS TunnelRegistry

CONSTANTS t1, t3, i, n1, p1

OneAddress == [t \in Tunnels |-> "nat"]
Clients    == [t \in Tunnels |-> i]

AnyUrl(proto) == [proto |-> proto, host |-> None, port |-> None]
HostN1 == [proto |-> "http", host |-> n1, port |-> None]
PortP1 == [proto |-> "tcp", host |-> None, port |-> p1]

TcpRequests == {AnyUrl("tcp"), PortP1}
EveryRequest == {AnyUrl("http"), HostN1} \cup TcpRequests
=============================================================================
