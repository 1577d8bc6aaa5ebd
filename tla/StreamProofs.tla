---------------------------- MODULE StreamProofs ----------------------------
(***************************************************************************)
(* Proofs about module Stream, for any readers, packets and bounds: it     *)
(* implements ByteStream.                                                  *)
(*                                                                         *)
(* What came in is what was copied out, followed by the buffer: every step *)
(* of handleBytes lengthens both sides alike, and a Copy moves the first   *)
(* bytes of the buffer across.  So a Copy is a HandOut of ByteStream, and  *)
(* all that the readers do in between is hidden from it.                   *)
(***************************************************************************)
EXTENDS Stream, SequenceTheorems, FiniteSetTheorems, TLAPS

StreamInv == TypeOK /\ received = taken \o buffer

(* Concatenation is associative. *)
LEMMA ConcatAssoc ==
  ASSUME NEW S, NEW s \in Seq(S), NEW t \in Seq(S), NEW u \in Seq(S)
  PROVE  (s \o t) \o u = s \o (t \o u)
BY ConcatAssociative, SMT

(* A sequence taken apart after n elements. *)
LEMMA SplitSeq ==
  ASSUME NEW S, NEW t \in Seq(S), NEW n \in 0..Len(t)
  PROVE  /\ SubSeq(t, 1, n) \in Seq(S)
         /\ SubSeq(t, n + 1, Len(t)) \in Seq(S)
         /\ SubSeq(t, 1, n) \o SubSeq(t, n + 1, Len(t)) = t
<1>1. /\ SubSeq(t, 1, n) \in Seq(S)
      /\ SubSeq(t, n + 1, Len(t)) \in Seq(S)
  BY SubSeqProperties
<1>2. /\ 1 \in 1..(Len(t) + 1)
      /\ n \in (1 - 1)..Len(t)
      /\ Len(t) \in n..Len(t)
  BY LenProperties
<1>3. SubSeq(t, 1, n) \o SubSeq(t, n + 1, Len(t)) = SubSeq(t, 1, Len(t))
  BY <1>2, ConcatAdjacentSubSeq, Zenon
<1>4. SubSeq(t, 1, Len(t)) = t
  BY SubSeqFull, Zenon
<1> QED BY <1>1, <1>3, <1>4, Zenon

(* The first n elements of t go to the end of s. *)
LEMMA MoveAcross ==
  ASSUME NEW S, NEW s \in Seq(S), NEW t \in Seq(S), NEW n \in 0..Len(t)
  PROVE  /\ s \o SubSeq(t, 1, n) \in Seq(S)
         /\ SubSeq(t, n + 1, Len(t)) \in Seq(S)
         /\ (s \o SubSeq(t, 1, n)) \o SubSeq(t, n + 1, Len(t)) = s \o t
<1> DEFINE a == SubSeq(t, 1, n)
           b == SubSeq(t, n + 1, Len(t))
<1>1. a \in Seq(S) /\ b \in Seq(S)
  BY SplitSeq
<1>2. a \o b = t
  BY SplitSeq, Zenon
<1> HIDE DEF a, b
<1>3. (s \o a) \o b = s \o (a \o b)
  BY <1>1, ConcatAssoc, SMTT(60)
<1>4. s \o a \in Seq(S)
  BY <1>1, ConcatProperties
<1> QED BY <1>1, <1>2, <1>3, <1>4, Zenon DEF a, b

(* The first elements of a concatenation, those of s and n of t. *)
LEMMA PrefixOfConcat ==
  ASSUME NEW S, NEW s \in Seq(S), NEW t \in Seq(S), NEW n \in 0..Len(t)
  PROVE  /\ Len(s) + n \in Len(s)..Len(s \o t)
         /\ SubSeq(s \o t, 1, Len(s) + n) = s \o SubSeq(t, 1, n)
<1> DEFINE st == s \o t
           left == SubSeq(st, 1, Len(s) + n)
           first == SubSeq(t, 1, n)
           right == s \o first
<1>1. /\ st \in Seq(S)
      /\ Len(st) = Len(s) + Len(t)
      /\ \A i \in 1..(Len(s) + Len(t)) :
           st[i] = IF i <= Len(s) THEN s[i] ELSE t[i - Len(s)]
  BY ConcatProperties, Zenon
<1>2. Len(s) \in Nat /\ Len(t) \in Nat /\ n \in Nat /\ n <= Len(t)
  BY LenProperties
<1> HIDE DEF st
<1>3. /\ left \in Seq(S) /\ Len(left) = Len(s) + n
      /\ \A i \in 1..(Len(s) + n) : left[i] = st[i]
  BY <1>1, <1>2
<1>4. /\ first \in Seq(S) /\ Len(first) = n
      /\ \A i \in 1..n : first[i] = t[i]
  BY <1>2
<1> HIDE DEF left, first
<1>5. /\ right \in Seq(S) /\ Len(right) = Len(s) + n
      /\ \A i \in 1..(Len(s) + n) :
           right[i] = IF i <= Len(s) THEN s[i] ELSE first[i - Len(s)]
  BY <1>4, ConcatProperties
<1> HIDE DEF right
<1>6. ASSUME NEW i \in 1..(Len(s) + n) PROVE left[i] = right[i]
  <2>1. left[i] = IF i <= Len(s) THEN s[i] ELSE t[i - Len(s)]
    <3>1. i \in 1..(Len(s) + Len(t))
      BY <1>2
    <3>2. left[i] = st[i]
      BY <1>3
    <3> QED BY <1>1, <3>1, <3>2
  <2>2. right[i] = IF i <= Len(s) THEN s[i] ELSE first[i - Len(s)]
    BY <1>5
  <2>3. i > Len(s) => first[i - Len(s)] = t[i - Len(s)]
    <3>1. i > Len(s) => i - Len(s) \in 1..n
      BY <1>2
    <3> QED BY <1>4, <3>1
  <2>4. i <= Len(s) \/ i > Len(s)
    BY <1>2
  <2> QED BY <1>2, <2>1, <2>2, <2>3, <2>4
<1>7. Len(left) = Len(right) /\ \A i \in 1..Len(left) : left[i] = right[i]
  BY <1>3, <1>5, <1>6
<1>8. left = right
  BY <1>3, <1>5, <1>7, SeqEqual, Zenon
<1> QED BY <1>1, <1>2, <1>8 DEF left, right, first, st

----------------------------------------------------------------------------
(* Nothing came in yet. *)
LEMMA InitStreamInv == Init => StreamInv
<1> SUFFICES ASSUME Init PROVE StreamInv
  OBVIOUS
<1>1. TypeOK
  BY StreamAssumption, EmptySeq DEF Init, TypeOK
<1>2. received = taken \o buffer
  BY EmptySeq, ConcatEmptySeq DEF Init
<1> QED BY <1>1, <1>2 DEF StreamInv

(* A Copy moves bytes from the buffer to what was taken. *)
LEMMA CopyMoves ==
  ASSUME TypeOK, NEW r \in Readers, Copy(r)
  PROVE  /\ buffer' \in Seq(Bytes) /\ taken' \in Seq(Bytes)
         /\ taken' \o buffer' = taken \o buffer
         /\ copied' \in [Readers -> Nat]
         /\ inHand' \in [Readers -> SUBSET Nat]
<1> DEFINE n == IF size[r] < Len(buffer) THEN size[r] ELSE Len(buffer)
<1>1. taken \in Seq(Bytes) /\ buffer \in Seq(Bytes)
  BY DEF TypeOK
<1>2. n \in 0..Len(buffer) /\ n \in Nat
  BY LenProperties DEF TypeOK
<1>3. /\ taken' = taken \o SubSeq(buffer, 1, n)
      /\ buffer' = SubSeq(buffer, n + 1, Len(buffer))
      /\ copied' = [copied EXCEPT ![r] = n]
      /\ inHand' = [inHand EXCEPT ![r] = Len(taken) + 1 .. Len(taken) + n]
  BY DEF Copy
<1> HIDE DEF n
<1>4. /\ taken \o SubSeq(buffer, 1, n) \in Seq(Bytes)
      /\ SubSeq(buffer, n + 1, Len(buffer)) \in Seq(Bytes)
  BY <1>1, <1>2, MoveAcross
<1>5. (taken \o SubSeq(buffer, 1, n)) \o SubSeq(buffer, n + 1, Len(buffer))
        = taken \o buffer
  BY <1>1, <1>2, MoveAcross, ZenonT(60)
<1>6. copied' \in [Readers -> Nat]
  BY <1>2, <1>3 DEF TypeOK
<1>7. Len(taken) + 1 .. Len(taken) + n \in SUBSET Nat
  BY <1>1, <1>2, LenProperties
<1>8. inHand' \in [Readers -> SUBSET Nat]
  BY <1>3, <1>7, Zenon DEF TypeOK
<1> QED BY <1>3, <1>4, <1>5, <1>6, <1>8, Zenon

(* Every step keeps the types, and the bytes together. *)
LEMMA StepStreamInv == StreamInv /\ [Next]_vars => StreamInv'
<1> SUFFICES ASSUME StreamInv, [Next]_vars PROVE StreamInv'
  OBVIOUS
<1> USE StreamAssumption DEF StreamInv, Step, Forget
<1>1. ASSUME NEW pkt \in Packets, AppendBytes(pkt) PROVE StreamInv'
  <2>1. /\ pkt \in Seq(Bytes)
        /\ buffer' = buffer \o pkt /\ received' = received \o pkt
        /\ UNCHANGED taken
    BY <1>1 DEF AppendBytes
  <2>2. received' = taken' \o buffer'
    <3>1. taken \in Seq(Bytes) /\ buffer \in Seq(Bytes)
      BY DEF TypeOK
    <3>2. (taken \o buffer) \o pkt = taken \o (buffer \o pkt)
      BY <2>1, <3>1, ConcatAssoc, SMTT(60)
    <3> QED BY <2>1, <3>2
  <2>3. TypeOK'
    BY <1>1, <2>1, ConcatProperties DEF TypeOK, AppendBytes, readVars
  <2> QED BY <2>2, <2>3
<1>2. ASSUME NEW r \in Readers, Copy(r) PROVE StreamInv'
  <2>1. /\ buffer' \in Seq(Bytes) /\ taken' \in Seq(Bytes)
        /\ taken' \o buffer' = taken \o buffer
        /\ copied' \in [Readers -> Nat]
        /\ inHand' \in [Readers -> SUBSET Nat]
    BY <1>2, CopyMoves, Zenon
  <2>2. received' = taken' \o buffer'
    BY <1>2, <2>1, Zenon DEF Copy
  <2>3. TypeOK'
    BY <1>2, <2>1, Zenon DEF TypeOK, Copy
  <2> QED BY <2>2, <2>3
<1>3. ASSUME NEW r \in Readers, Signal(r) PROVE StreamInv'
  BY <1>3 DEF TypeOK, Signal, streamVars
<1>4. ASSUME SignalNobody PROVE StreamInv'
  BY <1>4 DEF TypeOK, SignalNobody, streamVars, readVars
<1>5. ASSUME NEW r \in Readers, NEW n \in Sizes[r], Read(r, n) PROVE StreamInv'
  BY <1>5 DEF TypeOK, Read, streamVars
<1>6. ASSUME NEW r \in Readers, Return(r) PROVE StreamInv'
  BY <1>6, Zenon DEF TypeOK, Return, streamVars
<1>7. ASSUME NEW r \in Readers, Select(r) PROVE StreamInv'
  BY <1>7 DEF TypeOK, Select, streamVars
<1>8. ASSUME NEW r \in Readers, Timeout(r) PROVE StreamInv'
  BY <1>8 DEF TypeOK, Timeout, streamVars
<1>9. ASSUME Write \/ Tell \/ Close \/ Tick PROVE StreamInv'
  <2>1. CASE Write \/ Tell
    BY <2>1, Zenon DEF TypeOK, Write, Tell, streamVars, readVars
  <2>2. CASE Close
    BY <2>2 DEF TypeOK, Close, readVars
  <2>3. CASE Tick
    BY <2>3 DEF TypeOK, Tick, readVars
  <2> QED BY <1>9, <2>1, <2>2, <2>3
<1>10. ASSUME NEW t \in Deadlines,
              SetDeadline(t) \/ SetReadDeadline(t) \/ SetWriteDeadline(t)
       PROVE  StreamInv'
  BY <1>10, Zenon DEF TypeOK, SetDeadline, SetReadDeadline, SetWriteDeadline, readVars
<1>11. ASSUME UNCHANGED vars PROVE StreamInv'
  BY <1>11 DEF TypeOK, vars, streamVars, readVars
<1> QED
  BY <1>1, <1>2, <1>3, <1>4, <1>5, <1>6, <1>7, <1>8, <1>9, <1>10, <1>11
  DEF Next, ReadStep

(***************************************************************************)
(* The stream keeps its types and loses no byte between handleBytes and    *)
(* the copies of Read, for any number of readers and packets.              *)
(***************************************************************************)
THEOREM StreamConserves == Spec => []StreamInv
<1> QED BY InitStreamInv, StepStreamInv, PTL DEF Spec

(* A step that hands bytes over or lets them in is one of ByteStream. *)
LEMMA StepRefines ==
  StreamInv /\ [Next]_vars => [BS!Arrive \/ BS!HandOut]_<<received, taken>>
<1> SUFFICES ASSUME StreamInv, [Next]_vars
             PROVE  BS!Arrive \/ BS!HandOut \/ UNCHANGED <<received, taken>>
  OBVIOUS
<1>1. ASSUME NEW pkt \in Packets, AppendBytes(pkt) PROVE BS!Arrive
  BY <1>1, Zenon DEF AppendBytes, BS!Arrive
<1>2. ASSUME NEW r \in Readers, Copy(r) PROVE BS!HandOut
  <2> DEFINE n == IF size[r] < Len(buffer) THEN size[r] ELSE Len(buffer)
  <2>1. n \in 0..Len(buffer)
    BY LenProperties DEF StreamInv, TypeOK
  <2>2. taken' = taken \o SubSeq(buffer, 1, n) /\ UNCHANGED received
    BY <1>2 DEF Copy
  <2> HIDE DEF n
  <2>3. /\ Len(taken) + n \in Len(taken)..Len(received)
        /\ taken' = SubSeq(received, 1, Len(taken) + n)
    BY <2>1, <2>2, PrefixOfConcat DEF StreamInv, TypeOK
  <2> QED BY <2>2, <2>3, Zenon DEF BS!HandOut
<1>3. ASSUME NEW r \in Readers,
             \/ Signal(r) \/ Return(r) \/ Select(r) \/ Timeout(r)
             \/ \E n \in Sizes[r] : Read(r, n)
      PROVE  UNCHANGED <<received, taken>>
  BY <1>3 DEF Signal, Return, Select, Timeout, Read
<1>4. ASSUME SignalNobody \/ Write \/ Tell \/ Close \/ Tick
      PROVE  UNCHANGED <<received, taken>>
  BY <1>4 DEF SignalNobody, Write, Tell, Close, Tick
<1>5. ASSUME NEW t \in Deadlines,
             SetDeadline(t) \/ SetReadDeadline(t) \/ SetWriteDeadline(t)
      PROVE  UNCHANGED <<received, taken>>
  BY <1>5 DEF SetDeadline, SetReadDeadline, SetWriteDeadline
<1>6. ASSUME UNCHANGED vars PROVE UNCHANGED <<received, taken>>
  BY <1>6 DEF vars
<1> QED
  BY <1>1, <1>2, <1>3, <1>4, <1>5, <1>6 DEF Next, ReadStep

(***************************************************************************)
(* handleBytes and Read implement ByteStream: what the readers take,       *)
(* together, is what came in, in order, none twice and none left out, for  *)
(* any number of readers, whatever they read into and whenever the stream  *)
(* is closed or a deadline passes.                                         *)
(***************************************************************************)
THEOREM ImplementsByteStream == Spec => ByteStreamSpec
<1>1. Init => BS!Init
  BY DEF Init, BS!Init
<1>2. StreamInv /\ [Next]_vars => [BS!Arrive \/ BS!HandOut]_<<received, taken>>
  BY StepRefines
<1> QED
  BY <1>1, <1>2, StreamConserves, PTL DEF Spec, ByteStreamSpec, BS!Spec

----------------------------------------------------------------------------
(***************************************************************************)
(* What the Reads hold and what they reported, as places in taken.  Only a *)
(* Read that has copied and not yet returned holds bytes: that is why the  *)
(* next Copy forgets none.                                                 *)
(***************************************************************************)
HandsInv ==
  /\ 1 .. Len(taken) = returned \cup UNION {inHand[r] : r \in Readers}
  /\ \A r \in Readers :
       /\ IsFiniteSet(inHand[r]) /\ Cardinality(inHand[r]) = copied[r]
       /\ inHand[r] \cap returned = {}
       /\ \A q \in Readers \ {r} : inHand[r] \cap inHand[q] = {}
       /\ pc[r] # "check" => inHand[r] = {}

(* Nobody holds anything. *)
LEMMA InitHands == Init => HandsInv
<1> SUFFICES ASSUME Init PROVE HandsInv
  OBVIOUS
<1>1. IsFiniteSet({}) /\ Cardinality({}) = 0
  BY FS_EmptySet
<1>2. 1 .. Len(taken) = {}
  BY DEF Init
<1> QED
  BY <1>1, <1>2 DEF Init, HandsInv

(* A Copy takes the next n bytes into the hand of r, which was empty. *)
LEMMA CopyHands ==
  ASSUME StreamInv, HandsInv, NEW r \in Readers, Copy(r)
  PROVE  HandsInv'
<1> DEFINE n == IF size[r] < Len(buffer) THEN size[r] ELSE Len(buffer)
           new == Len(taken) + 1 .. Len(taken) + n
<1>1. taken \in Seq(Bytes) /\ buffer \in Seq(Bytes) /\ Len(taken) \in Nat
  BY LenProperties DEF StreamInv, TypeOK
<1>2. n \in 0..Len(buffer) /\ n \in Nat
  BY LenProperties DEF StreamInv, TypeOK
<1>3. /\ taken' = taken \o SubSeq(buffer, 1, n)
      /\ copied' = [copied EXCEPT ![r] = n]
      /\ inHand' = [inHand EXCEPT ![r] = new]
      /\ pc[r] = "copy" /\ pc' = [pc EXCEPT ![r] = "check"]
      /\ UNCHANGED returned
  BY DEF Copy, Step
<1> HIDE DEF n
<1>4. SubSeq(buffer, 1, n) \in Seq(Bytes) /\ Len(SubSeq(buffer, 1, n)) = n
  BY <1>1, <1>2
<1>5. Len(taken') = Len(taken) + n
  BY <1>1, <1>3, <1>4, ConcatProperties
<1>6. IsFiniteSet(new) /\ Cardinality(new) = n
  <2> DEFINE a == Len(taken) + 1
             b == Len(taken) + n
  <2>1. a \in Int /\ b \in Int /\ (IF a > b THEN 0 ELSE b - a + 1) = n
    BY <1>1, <1>2
  <2> HIDE DEF a, b
  <2>2. IsFiniteSet(a .. b) /\ Cardinality(a .. b) = IF a > b THEN 0 ELSE b - a + 1
    BY <2>1, FS_Interval
  <2> QED BY <2>1, <2>2 DEF a, b
<1>7. 1 .. Len(taken') = (1 .. Len(taken)) \cup new /\ (1 .. Len(taken)) \cap new = {}
  BY <1>1, <1>2, <1>5
<1>8. /\ inHand'[r] = new /\ copied'[r] = n /\ inHand[r] = {}
      /\ \A q \in Readers : q # r =>
           inHand'[q] = inHand[q] /\ copied'[q] = copied[q] /\ pc'[q] = pc[q]
      /\ pc'[r] = "check"
  BY <1>3, Zenon DEF StreamInv, TypeOK, HandsInv
<1> HIDE DEF new
<1>9. UNION {inHand'[q] : q \in Readers} = new \cup UNION {inHand[q] : q \in Readers}
  BY <1>8, Zenon
<1>10. \A q \in Readers : inHand[q] \subseteq 1 .. Len(taken)
  BY DEF HandsInv
<1>11. returned \subseteq 1 .. Len(taken)
  BY DEF HandsInv
<1>12. 1 .. Len(taken') = returned' \cup UNION {inHand'[q] : q \in Readers}
  BY <1>3, <1>7, <1>9, Zenon DEF HandsInv
<1>13. ASSUME NEW q \in Readers
       PROVE  /\ IsFiniteSet(inHand'[q]) /\ Cardinality(inHand'[q]) = copied'[q]
              /\ inHand'[q] \cap returned' = {}
              /\ \A p \in Readers \ {q} : inHand'[q] \cap inHand'[p] = {}
              /\ pc'[q] # "check" => inHand'[q] = {}
  <2>1. CASE q = r
    BY <1>3, <1>6, <1>7, <1>8, <1>10, <1>11, <2>1
  <2>2. CASE q # r
    BY <1>3, <1>7, <1>8, <1>10, <2>2 DEF HandsInv
  <2> QED BY <2>1, <2>2
<1> QED BY <1>12, <1>13 DEF HandsInv

(* Return reports what is in the hand of r. *)
LEMMA ReturnHands ==
  ASSUME StreamInv, HandsInv, NEW r \in Readers, Return(r)
  PROVE  HandsInv'
<1>1. /\ inHand'[r] = {} /\ copied'[r] = 0 /\ returned' = returned \cup inHand[r]
      /\ \A q \in Readers : q # r =>
           inHand'[q] = inHand[q] /\ copied'[q] = copied[q] /\ pc'[q] = pc[q]
      /\ UNCHANGED taken
  BY DEF Return, Step, Forget, StreamInv, TypeOK
<1>2. inHand[r] \cup UNION {inHand'[q] : q \in Readers} = UNION {inHand[q] : q \in Readers}
  BY <1>1, Zenon
<1>3. 1 .. Len(taken') = returned' \cup UNION {inHand'[q] : q \in Readers}
  BY <1>1, <1>2 DEF HandsInv
<1>4. IsFiniteSet({}) /\ Cardinality({}) = 0
  BY FS_EmptySet
<1>5. ASSUME NEW q \in Readers
      PROVE  /\ IsFiniteSet(inHand'[q]) /\ Cardinality(inHand'[q]) = copied'[q]
             /\ inHand'[q] \cap returned' = {}
             /\ \A p \in Readers \ {q} : inHand'[q] \cap inHand'[p] = {}
             /\ pc'[q] # "check" => inHand'[q] = {}
  <2>1. CASE q = r
    BY <1>1, <1>4, <2>1
  <2>2. CASE q # r
    BY <1>1, <2>2 DEF HandsInv
  <2> QED BY <2>1, <2>2
<1> QED BY <1>3, <1>5 DEF HandsInv

(* Select forgets an n that is zero. *)
LEMMA SelectHands ==
  ASSUME StreamInv, HandsInv, NEW r \in Readers, Select(r)
  PROVE  HandsInv'
<1>1. copied[r] = 0
  BY DEF Select
<1>2. inHand[r] = {}
  BY <1>1, FS_EmptySet DEF HandsInv
<1>3. inHand' = inHand /\ copied' = copied
  BY <1>1, <1>2 DEF Select, Forget, StreamInv, TypeOK
<1>4. \A q \in Readers : q # r => pc'[q] = pc[q]
  BY DEF Select, Step, StreamInv, TypeOK
<1>5. UNCHANGED <<taken, returned>>
  BY DEF Select
<1> QED
  BY <1>2, <1>3, <1>4, <1>5 DEF HandsInv

(* Every other step leaves what the Reads hold alone. *)
LEMMA OtherHands ==
  ASSUME HandsInv, UNCHANGED <<taken, inHand, copied, returned>>,
         \A r \in Readers : pc'[r] = pc[r] \/ pc[r] # "check"
  PROVE  HandsInv'
BY DEF HandsInv

LEMMA StepHands == StreamInv /\ HandsInv /\ [Next]_vars => HandsInv'
<1> SUFFICES ASSUME StreamInv, HandsInv, [Next]_vars PROVE HandsInv'
  OBVIOUS
<1>1. ASSUME NEW r \in Readers, Signal(r) \/ Timeout(r) \/ \E n \in Sizes[r] : Read(r, n)
      PROVE  HandsInv'
  <2>1. \A q \in Readers : pc'[q] = pc[q] \/ pc[q] # "check"
    BY <1>1 DEF Signal, Timeout, Read, Step, StreamInv, TypeOK
  <2>2. UNCHANGED <<taken, inHand, copied, returned>>
    BY <1>1 DEF Signal, Timeout, Read
  <2> QED BY <2>1, <2>2, OtherHands
<1>2. ASSUME \/ \E pkt \in Packets : AppendBytes(pkt)
             \/ SignalNobody \/ Write \/ Tell \/ Close \/ Tick
             \/ \E t \in Deadlines : SetDeadline(t) \/ SetReadDeadline(t) \/ SetWriteDeadline(t)
             \/ UNCHANGED vars
      PROVE  HandsInv'
  <2>1. UNCHANGED <<taken, inHand, copied, returned, pc>>
    BY <1>2 DEF AppendBytes, SignalNobody, Write, Tell, Close, Tick, SetDeadline,
                SetReadDeadline, SetWriteDeadline, vars, readVars
  <2> QED BY <2>1, OtherHands
<1> QED
  BY <1>1, <1>2, CopyHands, ReturnHands, SelectHands DEF Next, ReadStep

(***************************************************************************)
(* handleBytes and Read lose no byte and deliver none twice, for any       *)
(* number of readers: also a Read that meets a closed stream or a passed   *)
(* deadline returns what it copied.                                        *)
(***************************************************************************)
THEOREM NothingDropped == Spec => []NoByteDropped
<1>1. StreamInv /\ HandsInv => NoByteDropped
  BY DEF StreamInv, HandsInv, NoByteDropped
<1> QED
  BY <1>1, InitHands, StepHands, StreamConserves, PTL DEF Spec
=============================================================================
