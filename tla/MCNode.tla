------------------------------- MODULE MCNode -------------------------------
(***************************************************************************)
(* Instance of Node for TLC: one peer under its address and its name; the  *)
(* node under localhost.  Names may not resolve.  The cache holds two of   *)
(* the four hosts.  The backoff plugin, of whose Startup nothing is        *)
(* modelled, is not in the list; its workers run all the same.             *)
(***************************************************************************)
EXTENDS Node

MCIPs == {"127.0.0.1", "10.0.0.1", "10.0.0.2"}

PeerAddress == Address("tcp", "10.0.0.1", 1)
MCAddrs == {PeerAddress}
MCOwn == Address("tcp", "localhost", 1)
MCExternal == Address("tcp", "10.0.0.2", 2)
MCPeers == <<Malformed, MCOwn, PeerAddress, Address("tcp", "peer", 1)>>

Names(l, p) == [localhost |-> l, peer |-> p]
MCLookups == {Names(<<"::1">>, <<"10.0.0.1", "10.0.0.2">>), Names(<<>>, <<>>)}
=============================================================================
