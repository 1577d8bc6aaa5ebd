----------------------------- MODULE ExamplePb -----------------------------
(***************************************************************************)
(* The message types that the programs under examples/ and the tests       *)
(* register with the network, each with the functions generated for it     *)
(* (module Protobuf).                                                      *)
(***************************************************************************)
EXTENDS Protobuf

-----------------------------------------------------------------------------
(* BasicMessage of the basic example.                                      *)
BasicFields == <<Field(1, "Message", "bytes")>>
EqualBasic(this, that) == Equal(BasicFields, this, that)
MarshalBasic(m) == Marshal(BasicFields, m)
SizeBasic(m) == Size(BasicFields, m)
UnmarshalBasic(m, d) == Unmarshal(BasicFields, m, d)
-----------------------------------------------------------------------------
(* BasicMessage of the local benchmark.                                    *)
LocalBasicFields == <<Field(1, "Message", "bytes")>>
EqualLocalBasic(this, that) == Equal(LocalBasicFields, this, that)
MarshalLocalBasic(m) == Marshal(LocalBasicFields, m)
SizeLocalBasic(m) == Size(LocalBasicFields, m)
UnmarshalLocalBasic(m, d) == Unmarshal(LocalBasicFields, m, d)
-----------------------------------------------------------------------------
(* BasicMessage of the topologies.                                         *)
TopologyBasicFields == <<Field(1, "Message", "bytes")>>
EqualTopologyBasic(this, that) == Equal(TopologyBasicFields, this, that)
MarshalTopologyBasic(m) == Marshal(TopologyBasicFields, m)
SizeTopologyBasic(m) == Size(TopologyBasicFields, m)
UnmarshalTopologyBasic(m, d) == Unmarshal(TopologyBasicFields, m, d)
-----------------------------------------------------------------------------
(* ChatMessage of the chat.                                                *)
ChatFields == <<Field(1, "Message", "bytes")>>
EqualChat(this, that) == Equal(ChatFields, this, that)
MarshalChat(m) == Marshal(ChatFields, m)
SizeChat(m) == Size(ChatFields, m)
UnmarshalChat(m, d) == Unmarshal(ChatFields, m, d)
-----------------------------------------------------------------------------
(* Empty of the cluster benchmark.                                         *)
EmptyFields == <<>>
EqualEmpty(this, that) == Equal(EmptyFields, this, that)
MarshalEmpty(m) == Marshal(EmptyFields, m)
SizeEmpty(m) == Size(EmptyFields, m)
UnmarshalEmpty(m, d) == Unmarshal(EmptyFields, m, d)
-----------------------------------------------------------------------------
(* LoadRequest of the request benchmark.                                   *)
LoadRequestFields == <<Field(1, "Id", "bytes")>>
EqualLoadRequest(this, that) == Equal(LoadRequestFields, this, that)
MarshalLoadRequest(m) == Marshal(LoadRequestFields, m)
SizeLoadRequest(m) == Size(LoadRequestFields, m)
UnmarshalLoadRequest(m, d) == Unmarshal(LoadRequestFields, m, d)
-----------------------------------------------------------------------------
(* LoadReply of the request benchmark.                                     *)
LoadReplyFields == <<Field(1, "Id", "bytes")>>
EqualLoadReply(this, that) == Equal(LoadReplyFields, this, that)
MarshalLoadReply(m) == Marshal(LoadReplyFields, m)
SizeLoadReply(m) == Size(LoadReplyFields, m)
UnmarshalLoadReply(m, d) == Unmarshal(LoadReplyFields, m, d)
-----------------------------------------------------------------------------
(* ID of the proxy.                                                        *)
ProxyIDFields == <<Field(1, "PublicKey", "bytes"),
                   Field(2, "Address", "bytes"),
                   Field(3, "Id", "bytes")>>
EqualProxyID(this, that) == Equal(ProxyIDFields, this, that)
MarshalProxyID(m) == Marshal(ProxyIDFields, m)
SizeProxyID(m) == Size(ProxyIDFields, m)
UnmarshalProxyID(m, d) == Unmarshal(ProxyIDFields, m, d)
-----------------------------------------------------------------------------
(* ProxyMessage of the proxy.                                              *)
ProxyFields == <<Field(1, "Message", "bytes"),
                 MessageField(2, "Destination", "message", ProxyIDFields)>>
EqualProxy(this, that) == Equal(ProxyFields, this, that)
MarshalProxy(m) == Marshal(ProxyFields, m)
SizeProxy(m) == Size(ProxyFields, m)
UnmarshalProxy(m, d) == Unmarshal(ProxyFields, m, d)
-----------------------------------------------------------------------------
(* TestMessage of the tests; its durations are not negative.               *)
TestFields == <<Field(1, "Message", "bytes"),
                Field(2, "Duration", "varint")>>
EqualTest(this, that) == Equal(TestFields, this, that)
MarshalTest(m) == Marshal(TestFields, m)
SizeTest(m) == Size(TestFields, m)
UnmarshalTest(m, d) == Unmarshal(TestFields, m, d)
=============================================================================
