------------------------------ MODULE Messages ------------------------------
(***************************************************************************)
(* One message from the sender's value to the receiver's: the registry of  *)
(* module Opcodes, PrepareMessage, the bytes that sendMessage puts on the  *)
(* connection, the connection that may break at any byte, receiveMessage   *)
(* and the decoding of dispatchMessage.  Programs register their message   *)
(* types at the same time.                                                 *)
(*                                                                         *)
(* Sender and receiver share one table: both run the same program.  The    *)
(* order of several messages is the subject of module Delivery.            *)
(***************************************************************************)
EXTENDS StreamPb, ExamplePb, Opcodes

CONSTANTS
  Sender,       \* Network.ID of the sender, as a protobuf.ID
  Values,       \* for every message type, the messages that are sent
  Ways          \* ways to send: how, signed or not, and the nonce

VARIABLES
  phase,        \* the message: none, wire, received, done
  sent,         \* its type, its value and its envelope
  missing,      \* bytes of its frame that the connection lost
  msg,          \* the envelope that receiveMessage returned
  outcome       \* what dispatchMessage made of it

transfer == <<phase, sent, missing, msg, outcome>>
vars == <<registry, transfer>>

Types == DOMAIN Values
None == [none |-> "none"]

-----------------------------------------------------------------------------
(* The generated functions of a type, as proto.Marshal and the like find   *)
(* them through the interface proto.Message.                               *)

ProtoMarshal(t, m) ==
  CASE t = "Bytes" -> MarshalBytes(m) [] t = "Ping" -> MarshalPing(m)
    [] t = "Pong" -> MarshalPong(m)
    [] t = "LookupNodeRequest" -> MarshalLookupNodeRequest(m)
    [] t = "LookupNodeResponse" -> MarshalLookupNodeResponse(m)
    [] t = "Basic" -> MarshalBasic(m) [] t = "LocalBasic" -> MarshalLocalBasic(m)
    [] t = "TopologyBasic" -> MarshalTopologyBasic(m)
    [] t = "Chat" -> MarshalChat(m) [] t = "Empty" -> MarshalEmpty(m)
    [] t = "LoadRequest" -> MarshalLoadRequest(m)
    [] t = "LoadReply" -> MarshalLoadReply(m)
    [] t = "Proxy" -> MarshalProxy(m) [] t = "Test" -> MarshalTest(m)

ProtoSize(t, m) ==
  CASE t = "Bytes" -> SizeBytes(m) [] t = "Ping" -> SizePing(m)
    [] t = "Pong" -> SizePong(m)
    [] t = "LookupNodeRequest" -> SizeLookupNodeRequest(m)
    [] t = "LookupNodeResponse" -> SizeLookupNodeResponse(m)
    [] t = "Basic" -> SizeBasic(m) [] t = "LocalBasic" -> SizeLocalBasic(m)
    [] t = "TopologyBasic" -> SizeTopologyBasic(m)
    [] t = "Chat" -> SizeChat(m) [] t = "Empty" -> SizeEmpty(m)
    [] t = "LoadRequest" -> SizeLoadRequest(m)
    [] t = "LoadReply" -> SizeLoadReply(m)
    [] t = "Proxy" -> SizeProxy(m) [] t = "Test" -> SizeTest(m)

ProtoUnmarshal(t, d) ==
  CASE t = "Bytes" -> UnmarshalBytes(Nil, d) [] t = "Ping" -> UnmarshalPing(Nil, d)
    [] t = "Pong" -> UnmarshalPong(Nil, d)
    [] t = "LookupNodeRequest" -> UnmarshalLookupNodeRequest(Nil, d)
    [] t = "LookupNodeResponse" -> UnmarshalLookupNodeResponse(Nil, d)
    [] t = "Basic" -> UnmarshalBasic(Nil, d)
    [] t = "LocalBasic" -> UnmarshalLocalBasic(Nil, d)
    [] t = "TopologyBasic" -> UnmarshalTopologyBasic(Nil, d)
    [] t = "Chat" -> UnmarshalChat(Nil, d) [] t = "Empty" -> UnmarshalEmpty(Nil, d)
    [] t = "LoadRequest" -> UnmarshalLoadRequest(Nil, d)
    [] t = "LoadReply" -> UnmarshalLoadReply(Nil, d)
    [] t = "Proxy" -> UnmarshalProxy(Nil, d) [] t = "Test" -> UnmarshalTest(Nil, d)

ProtoEqual(t, a, b) ==
  CASE t = "Bytes" -> EqualBytes(a, b) [] t = "Ping" -> EqualPing(a, b)
    [] t = "Pong" -> EqualPong(a, b)
    [] t = "LookupNodeRequest" -> EqualLookupNodeRequest(a, b)
    [] t = "LookupNodeResponse" -> EqualLookupNodeResponse(a, b)
    [] t = "Basic" -> EqualBasic(a, b) [] t = "LocalBasic" -> EqualLocalBasic(a, b)
    [] t = "TopologyBasic" -> EqualTopologyBasic(a, b)
    [] t = "Chat" -> EqualChat(a, b) [] t = "Empty" -> EqualEmpty(a, b)
    [] t = "LoadRequest" -> EqualLoadRequest(a, b)
    [] t = "LoadReply" -> EqualLoadReply(a, b)
    [] t = "Proxy" -> EqualProxy(a, b) [] t = "Test" -> EqualTest(a, b)

-----------------------------------------------------------------------------
(* The registry, with the message types of this program.                   *)

Registration(r) ==
  /\ \E w \in Wanted : Register(r, w, ProtoMarshal(w.type, w.msg) = <<>>)
  /\ UNCHANGED transfer

Stored(r) == RegisterStore(r) /\ UNCHANGED transfer

-----------------------------------------------------------------------------
(* Signatures.  A key pair has one value for both keys and signing puts it *)
(* in front of the hash.  The hash, a length and a byte, is far weaker     *)
(* than blake2b: what is refused here is refused there.  Key pairs come    *)
(* from the policy, so the private key has the size that Sign asks for.    *)

HashBytes(m) == <<Len(m) % 256, m[Len(m)]>>
PolicySign(key, hash) == key \o hash

Sign(key, m) == PolicySign(key, HashBytes(m))
PublicKeySize == Len(Sender.PublicKey)

Verify(publicKey, m, signature) ==
  /\ Len(publicKey) = PublicKeySize
  /\ signature = PolicySign(publicKey, HashBytes(m))

Byte(n, k) == (n \div 256^k) % 256
LittleEndian(n) == <<Byte(n, 0), Byte(n, 1), Byte(n, 2), Byte(n, 3)>>
BigEndian(n) == Reverse(LittleEndian(n))
Uint32(h) == ((h[1] * 256 + h[2]) * 256 + h[3]) * 256 + h[4]

SerializeMessage(id, message) ==
  LittleEndian(Len(id.Address)) \o id.Address \o LittleEndian(Len(id.Id)) \o id.Id \o message

-----------------------------------------------------------------------------
(* The sender.                                                             *)

PrepareMessage(t, m, signed) ==
  LET raw == ProtoMarshal(t, m) IN
  [New(MessageFields) EXCEPT
     !.Message = raw, !.Opcode = msgTbl[t], !.Sender = Sender,
     !.Signature = IF signed THEN Sign(Sender.PublicKey, SerializeMessage(Sender, raw))
                   ELSE <<>>]

\* The bytes that sendMessage writes.
Frame(envelope) ==
  LET bytes == MarshalMessage(envelope) IN BigEndian(Len(bytes)) \o bytes

(***************************************************************************)
(* Tell, Request or Reply: PrepareMessage with GetSignMessage(ctx), the    *)
(* nonces and the flag, and sendMessage.  The connection breaks before the *)
(* last lost bytes, or not at all.                                         *)
(***************************************************************************)
Send(t, m) ==
  /\ phase = "none"
  /\ t \in DOMAIN msgTbl
  /\ \E way \in Ways :
       LET envelope == [PrepareMessage(t, m, way.signed) EXCEPT
                          !.RequestNonce = IF way.how = "tell" THEN 0 ELSE way.nonce,
                          !.ReplyFlag = way.how = "reply",
                          !.MessageNonce = way.nonce] IN
       /\ sent' = [type |-> t, value |-> m, envelope |-> envelope]
       /\ missing' \in 0 .. Len(Frame(envelope))
  /\ phase' = "wire"
  /\ UNCHANGED <<registry, msg, outcome>>

-----------------------------------------------------------------------------
(* The receiver.                                                           *)

\* A buffer of n bytes into which data was read from position from on: a
\* read that fails leaves the rest of the buffer zero, and its error is
\* overwritten.
Buffer(data, from, n) ==
  [i \in 1 .. n |-> IF from + i <= Len(data) THEN data[from + i] ELSE 0]

MaxSize == 4000000

\* What receiveMessage requires of an envelope, None if it is refused.
Checked(m) ==
  CASE m = Broken -> None
    [] m.Opcode = 0 \/ m.Sender = Nil -> None
    [] m.Sender.PublicKey = <<>> \/ m.Sender.Address = <<>> -> None
    [] /\ m.Signature # <<>>
       /\ ~Verify(m.Sender.PublicKey, SerializeMessage(m.Sender, m.Message), m.Signature) -> None
    [] OTHER -> m

\* The envelope that receiveMessage returns, None if it returns an error.
Received(data) ==
  LET size == Uint32(Buffer(data, 0, 4))
  IN IF size = 0 \/ size > MaxSize THEN None
     ELSE Checked(UnmarshalMessage(Nil, Buffer(data, 4, size)))

\* receiveMessage; after an error Accept closes the connection.
Receive ==
  /\ phase = "wire"
  /\ LET Arrived(frame) == SubSeq(frame, 1, Len(frame) - missing)
     IN msg' = Received(Arrived(Frame(sent.envelope)))
  /\ phase' = IF msg' = None THEN "done" ELSE "received"
  /\ UNCHANGED <<registry, sent, missing, outcome>>

\* The type for which dispatchMessage makes a pointer.
TypeFor(code) ==
  IF code \in DOMAIN Predefined THEN Predefined[code] ELSE opcodeTbl[code]

(***************************************************************************)
(* dispatchMessage, when the client is ready: the message is dropped if    *)
(* its opcode is unknown or it cannot be unmarshalled; else it goes to the *)
(* request that waits for it, to the byte stream, or to the plugins.       *)
(***************************************************************************)
Dispatch ==
  /\ phase = "received"
  /\ phase' = "done"
  /\ outcome' \in
       IF msg.Opcode \notin DOMAIN Predefined \cup DOMAIN opcodeTbl THEN {None}
       ELSE LET reply == msg.RequestNonce > 0 /\ msg.ReplyFlag
                Outcomes(t, m) ==
                  IF m = Broken THEN {None}
                  ELSE [type : {t}, value : {m},
                        to : (IF reply THEN {"request"} ELSE {})
                             \cup {IF t = "Bytes" THEN "stream" ELSE "plugins"}]
                t == TypeFor(msg.Opcode)
            IN Outcomes(t, ProtoUnmarshal(t, msg.Message))
  /\ UNCHANGED <<registry, sent, missing, msg>>

-----------------------------------------------------------------------------
Init ==
  /\ RegistryInit
  /\ phase = "none" /\ sent = None /\ missing = 0 /\ msg = None /\ outcome = None

Next ==
  \/ \E r \in Registrars : Registration(r) \/ Stored(r)
  \/ \E t \in Types : \E m \in Values[t] : Send(t, m)
  \/ Receive
  \/ Dispatch

Spec == Init /\ [][Next]_vars

-----------------------------------------------------------------------------
(***************************************************************************)
(* A message whose frame arrives whole is dispatched as the type and with  *)
(* the value that was sent, with the sender, nonces and flag of its        *)
(* envelope; only a reply goes to a request.  Marshal fills exactly the    *)
(* buffer for which Size asks: it would panic in a smaller one.            *)
(***************************************************************************)
DispatchedAsSent ==
  phase = "done" /\ missing = 0 =>
    /\ outcome # None
    /\ outcome.type = sent.type
    /\ ProtoEqual(sent.type, outcome.value, sent.value)
    /\ EqualMessage(msg, sent.envelope)
    /\ outcome.to = "request" => sent.envelope.ReplyFlag
    /\ Len(ProtoMarshal(sent.type, sent.value)) = ProtoSize(sent.type, sent.value)
    /\ Len(MarshalMessage(sent.envelope)) = SizeMessage(sent.envelope)

(***************************************************************************)
(* receiveMessage overlooks the error of a read that fails and goes on     *)
(* with a buffer whose end is zero.  Nevertheless a message of which bytes *)
(* are missing is accepted only if they belong to the opcode: it is the    *)
(* last field, its first byte is there, and everything else is as sent.    *)
(***************************************************************************)
CutOnlyInOpcode ==
  msg # None =>
    /\ missing < Sov(sent.envelope.Opcode)
    /\ EqualMessage([msg EXCEPT !.Opcode = 0], [sent.envelope EXCEPT !.Opcode = 0])
=============================================================================
