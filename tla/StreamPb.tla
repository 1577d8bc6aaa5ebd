----------------------------- MODULE StreamPb ------------------------------
(***************************************************************************)
(* The message types of internal/protobuf/stream.pb.go: their fields and   *)
(* the functions generated for them (module Protobuf).                     *)
(***************************************************************************)
EXTENDS Protobuf

-----------------------------------------------------------------------------
(* The identity of a node.                                                 *)
IDFields == <<Field(1, "PublicKey", "bytes"),
              Field(2, "Address", "bytes"),
              Field(3, "Id", "bytes")>>
EqualID(this, that) == Equal(IDFields, this, that)
MarshalID(m) == Marshal(IDFields, m)
SizeID(m) == Size(IDFields, m)
UnmarshalID(m, d) == Unmarshal(IDFields, m, d)
-----------------------------------------------------------------------------
(* The envelope of everything that nodes send.                             *)
\* Faulty variant: the payload is the last field.
PayloadLast == <<MessageField(2, "Sender", "message", IDFields),
                 Field(3, "Signature", "bytes"),
                 Field(4, "RequestNonce", "varint"),
                 Field(5, "MessageNonce", "varint"),
                 Field(6, "ReplyFlag", "bool"),
                 Field(7, "Opcode", "varint"),
                 Field(8, "Message", "bytes")>>
MessageFields == <<Field(1, "Message", "bytes"),
                   MessageField(2, "Sender", "message", IDFields),
                   Field(3, "Signature", "bytes"),
                   Field(4, "RequestNonce", "varint"),
                   Field(5, "MessageNonce", "varint"),
                   Field(6, "ReplyFlag", "bool"),
                   Field(7, "Opcode", "varint")>>
EqualMessage(this, that) == Equal(MessageFields, this, that)
MarshalMessage(m) == Marshal(MessageFields, m)
SizeMessage(m) == Size(MessageFields, m)
UnmarshalMessage(m, d) == Unmarshal(MessageFields, m, d)
-----------------------------------------------------------------------------
(* The first message on a connection.                                      *)
PingFields == <<>>
EqualPing(this, that) == Equal(PingFields, this, that)
MarshalPing(m) == Marshal(PingFields, m)
SizePing(m) == Size(PingFields, m)
UnmarshalPing(m, d) == Unmarshal(PingFields, m, d)
-----------------------------------------------------------------------------
(* The answer to Ping.                                                     *)
PongFields == <<>>
EqualPong(this, that) == Equal(PongFields, this, that)
MarshalPong(m) == Marshal(PongFields, m)
SizePong(m) == Size(PongFields, m)
UnmarshalPong(m, d) == Unmarshal(PongFields, m, d)
-----------------------------------------------------------------------------
(* Asks for the peers closest to Target.                                   *)
LookupNodeRequestFields == <<MessageField(1, "Target", "message", IDFields)>>
EqualLookupNodeRequest(this, that) == Equal(LookupNodeRequestFields, this, that)
MarshalLookupNodeRequest(m) == Marshal(LookupNodeRequestFields, m)
SizeLookupNodeRequest(m) == Size(LookupNodeRequestFields, m)
UnmarshalLookupNodeRequest(m, d) == Unmarshal(LookupNodeRequestFields, m, d)
-----------------------------------------------------------------------------
(* Answers with those peers.                                               *)
LookupNodeResponseFields == <<MessageField(1, "Peers", "repeated", IDFields)>>
EqualLookupNodeResponse(this, that) == Equal(LookupNodeResponseFields, this, that)
MarshalLookupNodeResponse(m) == Marshal(LookupNodeResponseFields, m)
SizeLookupNodeResponse(m) == Size(LookupNodeResponseFields, m)
UnmarshalLookupNodeResponse(m, d) == Unmarshal(LookupNodeResponseFields, m, d)
-----------------------------------------------------------------------------
(* A piece of the byte stream.                                             *)
BytesFields == <<Field(1, "Data", "bytes")>>
EqualBytes(this, that) == Equal(BytesFields, this, that)
MarshalBytes(m) == Marshal(BytesFields, m)
SizeBytes(m) == Size(BytesFields, m)
UnmarshalBytes(m, d) == Unmarshal(BytesFields, m, d)
=============================================================================
