------------------------------ MODULE Protobuf ------------------------------
(***************************************************************************)
(* The code that gogo/protobuf generates for a message type, as operators  *)
(* on the type's fields: Marshal with MarshalTo, Size, Equal, Unmarshal    *)
(* and skip.  The generated files repeat this code for every type; modules *)
(* StreamPb and ExamplePb give the fields of each type.  Where a field is  *)
(* itself a message, the generated code calls the operation of its type.   *)
(*                                                                         *)
(* Bytes are 0..255 and integers lie below 2^28, four bytes of a varint,   *)
(* so no shift leaves its width.  A nil slice and an empty one are one     *)
(* value.                                                                  *)
(***************************************************************************)
EXTENDS Naturals, Sequences, SequencesExt, FiniteSetsExt

Nil == [nil |-> "nil"]              \* a nil pointer to a message
Broken == [error |-> "unmarshal"]   \* Unmarshal returns an error

\* A field: its number, its name and its kind.
Field(num, name, kind) == [num |-> num, name |-> name, kind |-> kind, type |-> <<>>]

\* A field that holds a message, or a slice of messages, with these fields.
MessageField(num, name, kind, fields) == [Field(num, name, kind) EXCEPT !.type = fields]

Wire(f) == IF f.kind \in {"varint", "bool"} THEN 0 ELSE 2

Default(f) ==
  CASE f.kind = "varint" -> 0
    [] f.kind = "bool" -> FALSE
    [] f.kind = "message" -> Nil
    [] OTHER -> <<>>

\* A new message, new(T).
New(fields) ==
  [name \in {fields[i].name : i \in DOMAIN fields} |->
     Default(fields[CHOOSE i \in DOMAIN fields : fields[i].name = name])]

-----------------------------------------------------------------------------
(* Writing.                                                                *)

RECURSIVE EncodeVarint(_)
EncodeVarint(v) ==
  IF v < 128 THEN <<v>> ELSE <<128 + (v % 128)>> \o EncodeVarint(v \div 128)

\* Faulty variant: 128 in one byte.
SovOffByOne(x) == IF x <= 128 THEN 1 ELSE 2

RECURSIVE Sov(_)
Sov(x) == IF x < 128 THEN 1 ELSE 1 + Sov(x \div 128)

Tag(f) == <<f.num * 8 + Wire(f)>>
Delimited(f, bytes) == Tag(f) \o EncodeVarint(Len(bytes)) \o bytes

RECURSIVE Marshal(_, _)
Marshal(fields, m) ==
  LET One(f) ==
        LET v == m[f.name] IN
        CASE v = Default(f) -> <<>>
          [] f.kind = "varint" -> Tag(f) \o EncodeVarint(v)
          [] f.kind = "bool" -> Tag(f) \o <<1>>
          [] f.kind = "bytes" -> Delimited(f, v)
          [] f.kind = "message" -> Delimited(f, Marshal(f.type, v))
          [] f.kind = "repeated" ->
               FlattenSeq([i \in DOMAIN v |-> Delimited(f, Marshal(f.type, v[i]))])
  IN FlattenSeq([i \in DOMAIN fields |-> One(fields[i])])

RECURSIVE Size(_, _)
Size(fields, m) ==
  LET Whole(l) == 1 + l + Sov(l)
      One(f) ==
        LET v == m[f.name] IN
        CASE v = Default(f) -> 0
          [] f.kind = "varint" -> 1 + Sov(v)
          [] f.kind = "bool" -> 2
          [] f.kind = "bytes" -> Whole(Len(v))
          [] f.kind = "message" -> Whole(Size(f.type, v))
          [] f.kind = "repeated" ->
               FoldLeft(LAMBDA n, e : n + Whole(Size(f.type, e)), 0, v)
  IN FoldLeft(LAMBDA n, f : n + One(f), 0, fields)

RECURSIVE Equal(_, _, _)
Equal(fields, this, that) ==
  \A i \in DOMAIN fields :
    LET f == fields[i]
        a == this[f.name]
        b == that[f.name] IN
    CASE f.kind = "message" -> IF Nil \in {a, b} THEN a = b ELSE Equal(f.type, a, b)
      [] f.kind = "repeated" -> /\ Len(a) = Len(b)
                                /\ \A k \in DOMAIN a : Equal(f.type, a[k], b[k])
      [] OTHER -> a = b

-----------------------------------------------------------------------------
(* Reading.  Positions count from 1; position 0 stands for an error.       *)

\* The position after the varint at i: an error if the data ends first, or
\* after ten bytes.
VarintEnd(d, i) ==
  LET last == {j \in i .. Min({i + 9, Len(d)}) : d[j] < 128}
  IN IF last = {} THEN 0 ELSE Min(last) + 1

Varint(d, i) ==
  FoldRight(LAMBDA b, v : v * 128 + (b % 128), SubSeq(d, i, VarintEnd(d, i) - 1), 0)

\* skip: the position after the value at i, of a field with this wire type.
RECURSIVE Skip(_, _, _)
Skip(d, i, wire) ==
  CASE wire = 0 -> VarintEnd(d, i)
    [] wire = 1 -> i + 8
    [] wire = 2 -> LET After(start) == IF start = 0 THEN 0 ELSE start + Varint(d, i)
                   IN After(VarintEnd(d, i))
    [] wire = 3 -> LET Rest(next) == IF next = 0 THEN 0 ELSE Skip(d, next, 3)
                       Group(start, inner) ==
                         IF start = 0 \/ inner = 4 THEN start
                         ELSE Rest(Skip(d, start, inner))
                   IN Group(VarintEnd(d, i), Varint(d, i) % 8)
    [] wire = 4 -> i
    [] wire = 5 -> i + 4
    [] OTHER -> 0

\* The field on the wire whose value begins at at: what follows it, 0 if it
\* cannot be read.
Token(d, num, wire, at, next) ==
  [num |-> num, wire |-> wire, at |-> at,
   next |-> IF at = 0 \/ wire = 4 \/ num = 0 \/ next - 1 > Len(d) THEN 0 ELSE next]

TokenAt(d, at, tag) == Token(d, tag \div 8, tag % 8, at, Skip(d, at, tag % 8))

\* The fields on the wire from position i; one that cannot be read is the last.
RECURSIVE Tokens(_, _)
Tokens(d, i) ==
  LET From(token) == <<token>> \o IF token.next = 0 THEN <<>> ELSE Tokens(d, token.next)
  IN IF i > Len(d) THEN <<>> ELSE From(TokenAt(d, VarintEnd(d, i), Varint(d, i)))

RECURSIVE Unmarshal(_, _, _)

\* The value of field f at a token, where it had the value old; for a
\* repeated field, the element.
ValueOf(f, old, d, token) ==
  IF f.kind \in {"varint", "bool"}
    THEN LET n == Varint(d, token.at) IN IF f.kind = "bool" THEN n # 0 ELSE n
    ELSE LET Body(bytes) ==
               IF f.kind = "bytes" THEN bytes
               ELSE Unmarshal(f.type, IF f.kind = "message" THEN old ELSE Nil, bytes)
         IN Body(SubSeq(d, VarintEnd(d, token.at), token.next - 1))

\* Unmarshal into m, into a new message if m is nil.
Unmarshal(fields, m, d) ==
  LET Put(msg, f, v) ==
        CASE f.kind \in {"message", "repeated"} /\ v = Broken -> Broken
          [] f.kind = "repeated" -> [msg EXCEPT ![f.name] = Append(@, v)]
          [] OTHER -> [msg EXCEPT ![f.name] = v]
      Store(msg, f, token) ==
        IF token.wire # Wire(f) THEN Broken
        ELSE Put(msg, f, ValueOf(f, msg[f.name], d, token))
      Read(msg, token) ==
        LET known == {i \in DOMAIN fields : fields[i].num = token.num} IN
        CASE msg = Broken \/ token.next = 0 -> Broken
          [] known = {} -> msg
          [] OTHER -> Store(msg, fields[CHOOSE i \in known : TRUE], token)
  IN FoldLeft(Read, IF m = Nil THEN New(fields) ELSE m, Tokens(d, 1))
=============================================================================
