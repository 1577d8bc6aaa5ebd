----------------------------- MODULE MCMessages -----------------------------
(***************************************************************************)
(* Instance of Messages for TLC.  One value is as long as the first length *)
(* that needs two bytes; opcode 1034 reads as 10, the code of Ping, when   *)
(* its second byte is lost, and 1025 as 1, the code of Bytes.              *)
(***************************************************************************)
EXTENDS Messages

MCSender == [PublicKey |-> <<5, 255>>, Address |-> <<7>>, Id |-> <<0, 9>>]

Peer == [PublicKey |-> <<>>, Address |-> <<8, 1>>, Id |-> <<128>>]
Long == [i \in 1 .. 128 |-> i % 3]
Text(b) == [Message |-> b]

MCValues ==
  [Bytes |-> {[Data |-> <<>>], [Data |-> <<0, 1>>]},
   Ping |-> {New(PingFields)},
   Pong |-> {New(PongFields)},
   LookupNodeRequest |-> {[Target |-> Nil], [Target |-> Peer]},
   LookupNodeResponse |-> {[Peers |-> <<>>], [Peers |-> <<Peer, MCSender>>]},
   Basic |-> {Text(<<3>>)},
   LocalBasic |-> {Text(<<3>>)},
   TopologyBasic |-> {Text(<<4>>)},
   Chat |-> {Text(<<>>), Text(Long)},
   Empty |-> {New(EmptyFields)},
   LoadRequest |-> {[Id |-> <<1>>]},
   LoadReply |-> {[Id |-> <<2>>]},
   Proxy |-> {[Message |-> <<3>>, Destination |-> Peer]},
   Test |-> {[Message |-> <<1>>, Duration |-> 0], [Message |-> <<>>, Duration |-> 300]}]

MCRegistered ==
  1000 :> "TopologyBasic" @@ 1001 :> "LoadReply" @@ 1002 :> "LoadRequest" @@
  1003 :> "Empty" @@ 1025 :> "Proxy" @@ 1034 :> "Test" @@ 1035 :> "LocalBasic"

MCWays ==
  {[how |-> "tell", signed |-> TRUE, nonce |-> 300],
   [how |-> "request", signed |-> FALSE, nonce |-> 1],
   [how |-> "reply", signed |-> TRUE, nonce |-> 1]}

MCWanted ==
  {[code |-> 999, type |-> "Chat", msg |-> Text(<<>>)],
   [code |-> 1010, type |-> "Basic", msg |-> Text(<<9>>)],
   [code |-> 1010, type |-> "Chat", msg |-> Text(<<>>)],
   [code |-> 1011, type |-> "Chat", msg |-> Text(<<>>)],
   [code |-> 1010, type |-> "Basic", msg |-> Text(<<>>)]}

Symmetry == Permutations(Registrars)
=============================================================================
