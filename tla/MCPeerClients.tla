--------------------------- MODULE MCPeerClients ---------------------------
EXTENDS PeerClients

CONSTANTS c1, c2, c3, i1, i2, u1, a1

(* One address: calls for different addresses touch different entries. *)
MCTarget == [g \in Clients |-> a1]
============================================================================
