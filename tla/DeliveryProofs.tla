--------------------------- MODULE DeliveryProofs ---------------------------
(***************************************************************************)
(* Proofs about the receive window by itself, for every Size and every     *)
(* MaxNonce, and about the delivery of messages over one connection, for   *)
(* every number of messages, size of the window, buffer and job queue.     *)
(*                                                                         *)
(* For the window the arithmetic comes first: slot numbers are nonces      *)
(* modulo Size, and lastNonce itself is a slot number after the first      *)
(* Range that breaks.  WindowInv then says, for an aligned window, that    *)
(* lastNonce stands for the nonce after the last popped one (equal modulo  *)
(* Size) and that every filled slot holds one of the next Size nonces;     *)
(* outside alignment only that slots hold pushed and not yet popped nonces *)
(* survives.                                                               *)
(*                                                                         *)
(* DeliveryInv follows a message from stage to stage.  The link (the       *)
(* buffer and the wire) holds messages whose Write has returned and whose  *)
(* goroutine is not yet started; the goroutine of a message pushes it      *)
(* once; what the window handed out is in the hands of one goroutine, in   *)
(* the queue, or dispatched.  The window keeps WindowInv, for the handlers *)
(* push no nonce twice.                                                    *)
(***************************************************************************)
EXTENDS Delivery, Integers, TLAPS

(***************************************************************************)
(* What the proofs use of sequences.  The SMT solver knows it by itself,   *)
(* but finds it more easily when it is stated.                             *)
(***************************************************************************)
LEMMA LenProperties ==
  ASSUME NEW S, NEW s \in Seq(S)
  PROVE  Len(s) \in Nat /\ DOMAIN s = 1..Len(s) /\ s \in [1..Len(s) -> S]
OBVIOUS

LEMMA SeqDef ==
  ASSUME NEW S, NEW n \in Nat, NEW f \in [1..n -> S]
  PROVE  f \in Seq(S) /\ Len(f) = n
OBVIOUS

LEMMA EmptySeq ==
  ASSUME NEW S
  PROVE  /\ <<>> \in Seq(S) /\ Len(<<>>) = 0
         /\ \A s \in Seq(S) : s # <<>> => Len(s) \in Nat \ {0}
OBVIOUS

LEMMA HeadTailProperties ==
  ASSUME NEW S, NEW s \in Seq(S), s # <<>>
  PROVE  /\ Head(s) \in S /\ Tail(s) \in Seq(S) /\ Len(Tail(s)) = Len(s) - 1
         /\ \A i \in 1..Len(Tail(s)) : Tail(s)[i] = s[i + 1]
OBVIOUS

LEMMA AppendProperties ==
  ASSUME NEW S, NEW s \in Seq(S), NEW e \in S
  PROVE  /\ Append(s, e) \in Seq(S) /\ Append(s, e) # <<>>
         /\ Len(Append(s, e)) = Len(s) + 1
         /\ \A i \in 1..Len(s) : Append(s, e)[i] = s[i]
         /\ Append(s, e)[Len(s) + 1] = e
OBVIOUS

LEMMA ConcatProperties ==
  ASSUME NEW S, NEW s \in Seq(S), NEW t \in Seq(S)
  PROVE  /\ s \o t \in Seq(S) /\ Len(s \o t) = Len(s) + Len(t)
         /\ \A i \in 1..(Len(s) + Len(t)) :
              (s \o t)[i] = IF i <= Len(s) THEN s[i] ELSE t[i - Len(s)]
OBVIOUS

LEMMA SubSeqProperties ==
  ASSUME NEW S, NEW s, NEW m \in Int, NEW n \in Int, \A i \in m..n : s[i] \in S
  PROVE  /\ SubSeq(s, m, n) \in Seq(S)
         /\ Len(SubSeq(s, m, n)) = IF m <= n THEN n - m + 1 ELSE 0
         /\ \A i \in 1..(n - m + 1) : SubSeq(s, m, n)[i] = s[m + i - 1]
OBVIOUS

LEMMA SubSeqFull ==
  ASSUME NEW S, NEW s \in Seq(S)
  PROVE  SubSeq(s, 1, Len(s)) = s
<1>1. \A i \in 1..Len(s) : s[i] \in S
  BY LenProperties
<1> DEFINE t == SubSeq(s, 1, Len(s))
<1>2. t \in Seq(S) /\ Len(t) = Len(s) /\ \A i \in 1..Len(s) : t[i] = s[i]
  BY <1>1, LenProperties
<1> HIDE DEF t
<1> QED BY <1>2

LEMMA SubSeqEmpty ==
  ASSUME NEW S, NEW s \in Seq(S)
  PROVE  SubSeq(s, Len(s) + 1, Len(s)) = <<>>
OBVIOUS

-----------------------------------------------------------------------------
(* The receive window                                                      *)

(* A nonce is a number of whole rings and its slot. *)
LEMMA IdxDivision ==
  ASSUME NEW a \in Nat
  PROVE  /\ Idx(a) \in Slots
         /\ \E q \in Nat : a = Size * q + Idx(a)
<1>1. /\ Idx(a) \in Slots
      /\ a \div Size \in Nat
      /\ a = Size * (a \div Size) + Idx(a)
  BY SizeAssumption DEF Idx, Slots
<1> QED BY <1>1

(* The slot is the only remainder below Size. *)
LEMMA IdxUnique ==
  ASSUME NEW q \in Nat, NEW r \in Slots
  PROVE  Idx(Size * q + r) = r
BY SizeAssumption DEF Idx, Slots

(* Two nonces share a slot only if they are a whole ring apart. *)
LEMMA IdxInjective ==
  ASSUME NEW a \in Nat, NEW b \in Nat, Idx(a) = Idx(b), a < b
  PROVE  b >= a + Size
<1>1. PICK p \in Nat : a = Size * p + Idx(a)
  BY IdxDivision
<1>2. PICK q \in Nat : b = Size * q + Idx(a)
  BY IdxDivision
<1>3. Idx(a) \in Nat
  BY IdxDivision, SizeAssumption DEF Slots
<1>4. b - a = Size * (q - p)
  BY <1>1, <1>2, <1>3, SizeAssumption
<1>5. q - p >= 1
  <2>1. ASSUME q - p <= 0 PROVE FALSE
    <3>1. Size * (q - p) <= 0
      BY <2>1, SizeAssumption
    <3> QED BY <3>1, <1>4
  <2> QED BY <2>1
<1>6. Size * (q - p) >= Size
  BY <1>5, SizeAssumption
<1> QED BY <1>4, <1>6, SizeAssumption

(* Nonces that share a slot also share it after the same number of steps. *)
LEMMA IdxShift ==
  ASSUME NEW a \in Nat, NEW b \in Nat, NEW i \in Nat, Idx(a) = Idx(b)
  PROVE  Idx(a + i) = Idx(b + i)
<1>1. PICK p \in Nat : a = Size * p + Idx(a)
  BY IdxDivision
<1>2. PICK q \in Nat : b = Size * q + Idx(a)
  BY IdxDivision
<1>3. Idx(a) + i \in Nat
  BY IdxDivision, SizeAssumption DEF Slots
<1> DEFINE t == Idx(Idx(a) + i)
<1>4. PICK d \in Nat : Idx(a) + i = Size * d + t
  BY <1>3, IdxDivision
<1>5. t \in Slots
  BY <1>3, IdxDivision
<1> HIDE DEF t
<1>6. a + i = Size * (p + d) + t
  BY <1>1, <1>3, <1>4, <1>5, SizeAssumption, IdxDivision DEF Slots
<1>7. b + i = Size * (q + d) + t
  BY <1>2, <1>3, <1>4, <1>5, SizeAssumption, IdxDivision DEF Slots
<1> QED BY <1>5, <1>6, <1>7, IdxUnique

(* A whole ring further is the same slot. *)
LEMMA IdxRound ==
  ASSUME NEW a \in Nat
  PROVE  Idx(a + Size) = Idx(a)
<1>1. PICK q \in Nat : a = Size * q + Idx(a)
  BY IdxDivision
<1>2. Idx(a) \in Slots /\ Idx(a) \in Nat
  BY IdxDivision, SizeAssumption DEF Slots
<1>3. Size * (q + 1) = Size * q + Size
  BY SizeAssumption
<1>4. a + Size = Size * (q + 1) + Idx(a)
  BY <1>1, <1>2, <1>3, SizeAssumption
<1> QED BY <1>2, <1>4, IdxUnique

(* Keeping lastNonce modulo Size, as Range does, keeps its slot. *)
LEMMA IdxIdempotent == \A a \in Nat : Idx(Idx(a)) = Idx(a)
BY SizeAssumption DEF Idx

----------------------------------------------------------------------------
(* A filled slot holds a pushed nonce that belongs there. *)
SlotsHoldPushed ==
  \A j \in Slots : buf[j] # Nil => buf[j] \in pushed /\ Idx(buf[j]) = j

PoppedWasPushed == \A i \in 1..Len(popped) : popped[i] \in pushed

SlotsNotPopped == \A j \in Slots, i \in 1..Len(popped) : buf[j] # popped[i]

NotStarted == ~once => pushed = {} /\ first = 0

AlignedWindow ==
  Aligned =>
    /\ Idx(lastNonce) = Idx(Len(popped) + 1)
    /\ \A n \in pushed : n <= Len(popped) + Size
    /\ \A j \in Slots : buf[j] # Nil => buf[j] > Len(popped)

WindowInv ==
  /\ WindowTypeOK
  /\ SlotsHoldPushed
  /\ PoppedWasPushed
  /\ SlotsNotPopped
  /\ NotStarted
  /\ AlignedWindow
  /\ PoppedAtMostOnce
  /\ PoppedInOrder
  /\ NothingLost

(* A new window satisfies the invariant. *)
LEMMA InitWindowInv == WindowInit => WindowInv
<1> SUFFICES ASSUME WindowInit PROVE WindowInv
  OBVIOUS
<1>1. WindowTypeOK
  <2>1. buf \in [Slots -> Nonces \cup {Nil}]
    BY DEF WindowInit
  <2>2. popped \in Seq(Nonces)
    BY DEF WindowInit
  <2> QED BY <2>1, <2>2, Zenon DEF WindowInit, WindowTypeOK
<1>2. Len(popped) = 0 /\ pushed = {} /\ ~Aligned /\ \A j \in Slots : buf[j] = Nil
  BY DEF WindowInit, Aligned
<1>3. first = 0
  BY DEF WindowInit
<1> QED
  BY <1>1, <1>2, <1>3
  DEF WindowInv, SlotsHoldPushed, PoppedWasPushed, SlotsNotPopped, NotStarted,
      AlignedWindow, PoppedAtMostOnce, PoppedInOrder, NothingLost

(* Push of a nonce that was not pushed before keeps the invariant. *)
LEMMA PushWindowInv ==
  ASSUME WindowInv, NEW n \in Nonces \ pushed, Push(n)
  PROVE  WindowInv'
<1>1. n \in Nat /\ n # Nil /\ Idx(n) \in Slots
  BY IdxDivision, NilAssumption, MaxNonceAssumption DEF Nonces
<1>2. WindowTypeOK'
  BY <1>1, SizeAssumption, MaxNonceAssumption
  DEF WindowInv, WindowTypeOK, Push, Nonces
<1>3. SlotsHoldPushed'
  BY <1>1 DEF WindowInv, WindowTypeOK, SlotsHoldPushed, Push
<1>4. PoppedWasPushed' /\ PoppedAtMostOnce'
  BY DEF WindowInv, PoppedWasPushed, PoppedAtMostOnce, Push
<1>5. SlotsNotPopped'
  BY <1>1 DEF WindowInv, WindowTypeOK, SlotsNotPopped, PoppedWasPushed, Push
<1>6. NotStarted'
  BY DEF NotStarted, Push
<1>7. ASSUME Aligned'
      PROVE  AlignedWindow' /\ PoppedInOrder' /\ NothingLost'
  <2>1. n <= Len(popped) + Size /\ ~overrun
    BY <1>7, <1>1, SizeAssumption DEF Aligned, Push, WindowInv, WindowTypeOK
  <2>2. CASE once
    <3>1. Aligned
      BY <1>7, <2>2, Zenon DEF Aligned, Push
    <3>2. n > Len(popped)
      <4>1. \A i \in 1..Len(popped) : i \in pushed
        BY <3>1 DEF WindowInv, PoppedInOrder, PoppedWasPushed
      <4> QED BY <4>1, <1>1 DEF WindowInv, WindowTypeOK, Nonces
    <3>3. AlignedWindow'
      BY <2>1, <2>2, <3>1, <3>2, <1>1
      DEF WindowInv, WindowTypeOK, AlignedWindow, Push
    <3>4. PoppedInOrder'
      BY <3>1 DEF WindowInv, PoppedInOrder, Push
    <3>5. ASSUME NEW m \in pushed, m > Len(popped)
          PROVE  buf'[Idx(m)] = m
      <4>1. m \in Nat /\ m # n /\ m <= Len(popped) + Size /\ buf[Idx(m)] = m
        BY <3>1, <3>5, MaxNonceAssumption
        DEF WindowInv, WindowTypeOK, AlignedWindow, NothingLost, Nonces
      <4>2. Idx(m) # Idx(n)
        BY <4>1, <3>5, <3>2, <2>1, <1>1, IdxInjective, SizeAssumption
        DEF WindowInv, WindowTypeOK
      <4> QED BY <4>1, <4>2, <1>1, IdxDivision DEF WindowInv, WindowTypeOK, Push
    <3>6. NothingLost'
      <4> SUFFICES ASSUME NEW m \in pushed \cup {n}
                   PROVE  m <= Len(popped) \/ buf'[Idx(m)] = m
        BY DEF NothingLost, Push
      <4> QED BY <3>5, <1>1, MaxNonceAssumption
        DEF Push, WindowInv, WindowTypeOK, Nonces
    <3> QED BY <3>3, <3>4, <3>6
  <2>3. CASE ~once
    <3>1. pushed = {} /\ n = 1 /\ Len(popped) = 0
      <4>1. pushed = {} /\ n = 1
        BY <2>3, <1>7 DEF WindowInv, NotStarted, Aligned, Push
      <4>2. Len(popped) \in Nat /\ (Len(popped) # 0 => 1 \in 1..Len(popped))
        BY DEF WindowInv, WindowTypeOK
      <4> QED BY <4>1, <4>2 DEF WindowInv, PoppedWasPushed
    <3>2. \A j \in Slots : buf[j] = Nil
      BY <3>1 DEF WindowInv, SlotsHoldPushed
    <3> QED
      BY <3>1, <3>2, <2>3, <1>1, SizeAssumption
      DEF AlignedWindow, PoppedInOrder, NothingLost, Push, WindowInv, WindowTypeOK
  <2> QED BY <2>2, <2>3 DEF WindowInv, WindowTypeOK
<1> QED
  BY <1>2, <1>3, <1>4, <1>5, <1>6, <1>7
  DEF WindowInv, AlignedWindow, PoppedInOrder, NothingLost

(* What a Pop of k slots returns and leaves, in any window: pushed nonces  *)
(* that were not popped, all different, and empty slots where they were.   *)
LEMMA PopFacts ==
  ASSUME WindowInv, NEW k \in 0..Size, PopRun(k)
  PROVE  /\ \A i \in 0..(k - 1) : /\ Idx(lastNonce + i) \in Slots
                                  /\ buf[Idx(lastNonce + i)] \in pushed
         /\ \A i \in 0..(k - 1) : buf[Idx(lastNonce + i)] # Nil
         /\ Len(popped') = Len(popped) + k
         /\ \A i \in 1..Len(popped) : popped'[i] = popped[i]
         /\ \A i \in 1..k :
              popped'[Len(popped) + i] = buf[Idx(lastNonce + (i - 1))]
         /\ \A j \in Slots :
              IF \E i \in 0..(k - 1) : j = Idx(lastNonce + i)
                THEN buf'[j] = Nil ELSE buf'[j] = buf[j]
         /\ WindowTypeOK'
<1>1. ASSUME NEW i \in 0..(k - 1)
      PROVE  /\ Idx(lastNonce + i) \in Slots
             /\ buf[Idx(lastNonce + i)] \in pushed
             /\ buf[Idx(lastNonce + i)] # Nil
  <2>1. Idx(lastNonce + i) \in Slots
    BY IdxDivision, SizeAssumption DEF WindowInv, WindowTypeOK
  <2>2. buf[Idx(lastNonce + i)] # Nil
    BY DEF PopRun, RangeStops, NotNil
  <2> QED BY <2>1, <2>2 DEF WindowInv, SlotsHoldPushed
<1> DEFINE R == RangeResult(k)
<1>2. \A i \in 1..k : R[i] = buf[Idx(lastNonce + (i - 1))] /\ R[i] \in Nonces
  <2> SUFFICES ASSUME NEW i \in 1..k
               PROVE  R[i] = buf[Idx(lastNonce + (i - 1))] /\ R[i] \in Nonces
    OBVIOUS
  <2>1. i - 1 \in 0..(k - 1)
    BY SizeAssumption
  <2> QED BY <2>1, <1>1, Zenon DEF RangeResult, WindowInv, WindowTypeOK
<1>3. R \in Seq(Nonces) /\ Len(R) = k
  <2>1. R \in [1..k -> Nonces]
    BY <1>2 DEF RangeResult
  <2> QED BY <2>1, SizeAssumption
<1>4. popped \in Seq(Nonces) /\ popped' = popped \o R
  BY DEF WindowInv, WindowTypeOK, PopRun
<1> HIDE DEF R
<1>5. /\ popped' \in Seq(Nonces)
      /\ Len(popped') = Len(popped) + k
      /\ \A i \in 1..Len(popped) : popped'[i] = popped[i]
      /\ \A i \in 1..k : popped'[Len(popped) + i] = R[i]
  <2>1. Len(popped) \in Nat /\ k \in Nat
    BY <1>4, SizeAssumption
  <2>2. /\ popped' \in Seq(Nonces)
        /\ Len(popped') = Len(popped) + k
        /\ \A i \in 1..(Len(popped) + k) :
             popped'[i] = IF i <= Len(popped) THEN popped[i] ELSE R[i - Len(popped)]
    BY <1>3, <1>4, ConcatProperties, Zenon
  <2>3. \A i \in 1..Len(popped) : popped'[i] = popped[i]
    BY <2>1, <2>2
  <2>4. \A i \in 1..k : popped'[Len(popped) + i] = R[i]
    BY <2>1, <2>2
  <2> QED BY <2>2, <2>3, <2>4
<1>6. lastNonce' \in Nat
  <2>1. lastNonce \in Nat /\ lastNonce + k \in Nat
    BY SizeAssumption DEF WindowInv, WindowTypeOK
  <2>2. Idx(lastNonce + k) \in Nat
    BY <2>1, IdxDivision, SizeAssumption DEF Slots
  <2> QED BY <2>1, <2>2 DEF PopRun, RangeLast
<1>7. /\ buf' \in [Slots -> Nonces \cup {Nil}]
      /\ \A j \in Slots :
           IF \E i \in 0..(k - 1) : j = Idx(lastNonce + i)
             THEN buf'[j] = Nil ELSE buf'[j] = buf[j]
  BY DEF PopRun, RangeBuf, WindowInv, WindowTypeOK
<1> QED
  BY <1>1, <1>2, <1>5, <1>6, <1>7, Zenon DEF PopRun, WindowInv, WindowTypeOK

(* In an aligned window the k slots that Pop returns hold the next k       *)
(* nonces.                                                                 *)
LEMMA PopAligned ==
  ASSUME WindowInv, Aligned, NEW i \in 0..(Size - 1)
  PROVE  /\ Idx(lastNonce + i) = Idx(Len(popped) + 1 + i)
         /\ Idx(lastNonce + i) \in Slots
         /\ buf[Idx(lastNonce + i)] # Nil =>
              buf[Idx(lastNonce + i)] = Len(popped) + 1 + i
<1> DEFINE L == Len(popped)
           s == Idx(lastNonce + i)
<1>1. L \in Nat /\ lastNonce \in Nat /\ i \in Nat
  BY SizeAssumption DEF WindowInv, WindowTypeOK
<1>2. Idx(lastNonce + i) = Idx(L + 1 + i)
  <2>1. Idx(lastNonce) = Idx(L + 1)
    BY DEF WindowInv, AlignedWindow
  <2> QED BY <1>1, <2>1, IdxShift
<1>3. s \in Slots
  BY <1>1, IdxDivision
<1>4. ASSUME buf[s] # Nil PROVE buf[s] = L + 1 + i
  <2>1. /\ buf[s] \in Nat
        /\ buf[s] > L
        /\ buf[s] <= L + Size
        /\ Idx(buf[s]) = Idx(L + 1 + i)
    BY <1>2, <1>3, <1>4, MaxNonceAssumption
    DEF WindowInv, WindowTypeOK, SlotsHoldPushed, AlignedWindow, Nonces
  <2> HIDE DEF s, L
  <2> QED BY <2>1, <1>1, IdxInjective, SizeAssumption
<1> QED BY <1>2, <1>3, <1>4

(* Pop keeps the invariant. *)
LEMMA PopWindowInv ==
  ASSUME WindowInv, NEW k \in 0..Size, PopRun(k)
  PROVE  WindowInv'
<1> DEFINE L == Len(popped)
           slot(i) == Idx(lastNonce + i)
<1> USE SizeAssumption
<1>1. L \in Nat /\ k \in Nat /\ lastNonce \in Nat /\ Len(popped') = L + k
  BY PopFacts DEF WindowInv, WindowTypeOK
<1>2. WindowTypeOK'
  BY PopFacts
<1>3. ASSUME NEW i \in 0..(k - 1)
      PROVE  /\ slot(i) \in Slots
             /\ buf[slot(i)] \in pushed
             /\ buf[slot(i)] # Nil
             /\ Idx(buf[slot(i)]) = slot(i)
             /\ popped'[L + (i + 1)] = buf[slot(i)]
  <2>1. slot(i) \in Slots /\ buf[slot(i)] \in pushed
    BY PopFacts
  <2>2. buf[slot(i)] # Nil
    BY PopFacts
  <2>3. i + 1 \in 1..k /\ (i + 1) - 1 = i
    BY <1>1
  <2>4. popped'[L + (i + 1)] = buf[Idx(lastNonce + ((i + 1) - 1))]
    BY <2>3, PopFacts, Zenon
  <2> QED BY <2>1, <2>2, <2>3, <2>4 DEF WindowInv, SlotsHoldPushed
<1>4. ASSUME NEW i \in 0..(k - 1), NEW j \in 0..(k - 1), slot(i) = slot(j)
      PROVE  i = j
  <2>1. ASSUME NEW a \in 0..(k - 1), NEW b \in 0..(k - 1), slot(a) = slot(b), a < b
        PROVE  FALSE
    <3>1. lastNonce + b >= (lastNonce + a) + Size
      BY <2>1, <1>1, IdxInjective
    <3> QED BY <3>1, <1>1
  <2> QED BY <1>4, <2>1
<1>5. ASSUME NEW j \in Slots, buf'[j] # Nil
      PROVE  buf'[j] = buf[j] /\ \A i \in 0..(k - 1) : j # slot(i)
  BY <1>5, PopFacts
<1>6. ASSUME NEW p \in 1..Len(popped')
      PROVE  \/ p \in 1..L /\ popped'[p] = popped[p]
             \/ \E i \in 0..(k - 1) : p = L + (i + 1) /\ popped'[p] = buf[slot(i)]
  <2>1. CASE p <= L
    BY <2>1, <1>1, PopFacts
  <2>2. CASE p > L
    <3>1. p - L - 1 \in 0..(k - 1) /\ p = L + ((p - L - 1) + 1)
      BY <2>2, <1>1
    <3> QED BY <3>1, <1>3, Zenon
  <2> QED BY <2>1, <2>2, <1>1
<1>7. SlotsHoldPushed'
  BY <1>5 DEF SlotsHoldPushed, WindowInv, PopRun
<1>8. PoppedWasPushed'
  BY <1>6, <1>3, Zenon DEF PoppedWasPushed, WindowInv, PopRun
<1>9. SlotsNotPopped'
  <2> SUFFICES ASSUME NEW j \in Slots, NEW p \in 1..Len(popped')
               PROVE  buf'[j] # popped'[p]
    BY DEF SlotsNotPopped
  <2>1. popped'[p] # Nil
    BY <1>1, <1>2, NilAssumption, MaxNonceAssumption DEF WindowTypeOK, Nonces
  <2>2. CASE buf'[j] # Nil
    <3>1. buf'[j] = buf[j] /\ Idx(buf[j]) = j /\ \A i \in 0..(k - 1) : j # slot(i)
      BY <2>2, <1>5 DEF WindowInv, SlotsHoldPushed
    <3> QED BY <3>1, <1>3, <1>6 DEF WindowInv, SlotsNotPopped
  <2> QED BY <2>1, <2>2
<1>10. NotStarted'
  BY DEF NotStarted, WindowInv, PopRun
<1>11. PoppedAtMostOnce'
  <2> SUFFICES ASSUME NEW p \in 1..Len(popped'), NEW q \in 1..Len(popped'),
                      popped'[p] = popped'[q]
               PROVE  p = q
    BY DEF PoppedAtMostOnce
  <2>1. CASE p \in 1..L /\ q \in 1..L
    BY <2>1, PopFacts DEF WindowInv, PoppedAtMostOnce
  <2>2. ASSUME NEW a \in 1..L, NEW i \in 0..(k - 1)
        PROVE  popped[a] # buf[slot(i)]
    BY <1>3 DEF WindowInv, SlotsNotPopped
  <2>3. ASSUME NEW i \in 0..(k - 1), NEW j \in 0..(k - 1),
               buf[slot(i)] = buf[slot(j)]
        PROVE  i = j
    BY <2>3, <1>3, <1>4
  <2>4. CASE p \in 1..L /\ q \notin 1..L
    <3>1. PICK j \in 0..(k - 1) : popped'[q] = buf[slot(j)]
      BY <1>6, <2>4, Zenon
    <3>2. popped'[p] = popped[p]
      BY <2>4, PopFacts, Zenon
    <3> QED BY <3>1, <3>2, <2>2, <2>4
  <2>5. CASE p \notin 1..L /\ q \in 1..L
    <3>1. PICK i \in 0..(k - 1) : popped'[p] = buf[slot(i)]
      BY <1>6, <2>5, Zenon
    <3>2. popped'[q] = popped[q]
      BY <2>5, PopFacts, Zenon
    <3> QED BY <3>1, <3>2, <2>2, <2>5, Zenon
  <2>6. CASE p \notin 1..L /\ q \notin 1..L
    <3>1. PICK i \in 0..(k - 1) : p = L + (i + 1) /\ popped'[p] = buf[slot(i)]
      BY <1>6, <2>6
    <3>2. PICK j \in 0..(k - 1) : q = L + (j + 1) /\ popped'[q] = buf[slot(j)]
      BY <1>6, <2>6
    <3> QED BY <3>1, <3>2, <2>3
  <2> QED BY <2>1, <2>4, <2>5, <2>6
<1> DEFINE A == AlignedWindow' /\ PoppedInOrder' /\ NothingLost'
<1>12. ASSUME Aligned PROVE A
  <2>1. ASSUME NEW i \in 0..(k - 1)
        PROVE  buf[slot(i)] = L + 1 + i /\ slot(i) = Idx(L + 1 + i)
    <3>1. i \in 0..(Size - 1)
      BY <1>1
    <3> QED BY <3>1, <1>3, <1>12, PopAligned
  <2>2. PoppedInOrder'
    <3> SUFFICES ASSUME NEW p \in 1..Len(popped') PROVE popped'[p] = p
      BY DEF PoppedInOrder
    <3>1. ASSUME NEW i \in 0..(k - 1), p = L + (i + 1) PROVE buf[slot(i)] = p
      <4>1. L + (i + 1) = L + 1 + i
        BY <1>1
      <4> QED BY <3>1, <4>1, <2>1
    <3> QED BY <1>6, <3>1, <1>12, Zenon DEF WindowInv, PoppedInOrder
  <2>3. Idx(lastNonce') = Idx(Len(popped') + 1)
    <3>1. CASE k < Size
      <4>1. lastNonce' = Idx(lastNonce + k) /\ lastNonce + k \in Nat
        BY <3>1, <1>1 DEF PopRun, RangeLast
      <4>2. Idx(lastNonce + k) = Idx(L + 1 + k)
        BY <3>1, <1>1, <1>12, PopAligned
      <4>3. L + 1 + k = Len(popped') + 1
        BY <1>1
      <4> QED BY <4>1, <4>2, <4>3, IdxIdempotent
    <3>2. CASE k = Size
      <4>1. lastNonce' = lastNonce /\ Idx(lastNonce) = Idx(L + 1)
        BY <3>2, <1>12 DEF PopRun, RangeLast, WindowInv, AlignedWindow
      <4>2. Len(popped') + 1 = (L + 1) + Size
        BY <1>1, <3>2
      <4>3. Idx((L + 1) + Size) = Idx(L + 1)
        BY <1>1, IdxRound
      <4> QED BY <4>1, <4>2, <4>3
    <3> QED BY <3>1, <3>2
  <2>4. ASSUME NEW n \in pushed
        PROVE  n \in Nat /\ n <= L + Size
    BY <1>12, MaxNonceAssumption DEF WindowInv, WindowTypeOK, AlignedWindow, Nonces
  <2>5. ASSUME NEW n \in pushed, n > L, n <= L + k
        PROVE  \E i \in 0..(k - 1) : n = L + 1 + i
    <3>1. n - L - 1 \in 0..(k - 1) /\ n = L + 1 + (n - L - 1)
      BY <2>5, <2>4, <1>1
    <3> QED BY <3>1, Zenon
  <2>6. ASSUME NEW j \in Slots, buf'[j] # Nil
        PROVE  buf'[j] > L + k
    <3>1. buf'[j] = buf[j] /\ \A i \in 0..(k - 1) : j # slot(i)
      BY <2>6, <1>5
    <3>2. buf[j] \in pushed /\ buf[j] > L /\ Idx(buf[j]) = j
      BY <3>1, <2>6, <1>12 DEF WindowInv, SlotsHoldPushed, AlignedWindow
    <3>3. ~(buf[j] <= L + k)
      BY <3>1, <3>2, <2>5, <2>1, ZenonT(30)
    <3> QED BY <3>1, <3>2, <3>3, <2>4, <1>1
  <2>7. AlignedWindow'
    BY <2>3, <2>4, <2>6, <1>1 DEF AlignedWindow, PopRun
  <2>8. NothingLost'
    <3> SUFFICES ASSUME NEW n \in pushed, n > L + k
                 PROVE  buf'[Idx(n)] = n
      BY <2>4, <1>1 DEF NothingLost, PopRun
    <3>1. n \in Nat /\ n > L /\ Idx(n) \in Slots
      <4>1. n \in Nat
        BY <2>4
      <4> QED BY <4>1, <1>1, IdxDivision
    <3>2. buf[Idx(n)] = n
      BY <3>1, <1>1, <1>12 DEF WindowInv, NothingLost
    <3>3. \A i \in 0..(k - 1) : Idx(n) # slot(i)
      <4> SUFFICES ASSUME NEW i \in 0..(k - 1), Idx(n) = slot(i) PROVE FALSE
        OBVIOUS
      <4>1. n = L + 1 + i
        BY <2>1, <3>2
      <4> QED BY <4>1, <1>1
    <3> QED BY <3>1, <3>2, <3>3, PopFacts
  <2> QED BY <2>2, <2>7, <2>8
<1>13. ASSUME ~Aligned PROVE A
  BY <1>13 DEF AlignedWindow, PoppedInOrder, NothingLost, Aligned, PopRun
<1> QED
  BY <1>2, <1>7, <1>8, <1>9, <1>10, <1>11, <1>12, <1>13 DEF WindowInv

(* The invariant holds in every reachable state. *)
LEMMA WindowInvInvariant == WindowSpec => []WindowInv
<1>1. WindowInv /\ [WindowNext]_windowVars => WindowInv'
  <2> SUFFICES ASSUME WindowInv, [WindowNext]_windowVars PROVE WindowInv'
    OBVIOUS
  <2>1. ASSUME NEW n \in Nonces \ pushed, Push(n) PROVE WindowInv'
    BY <2>1, PushWindowInv
  <2>2. CASE Pop
    BY <2>2, PopWindowInv DEF Pop
  <2>3. CASE UNCHANGED windowVars
    BY <2>3
    DEF windowVars, WindowInv, WindowTypeOK, SlotsHoldPushed, PoppedWasPushed,
        SlotsNotPopped, NotStarted, AlignedWindow, PoppedAtMostOnce,
        PoppedInOrder, NothingLost, Aligned
  <2> QED BY <2>1, <2>2, <2>3 DEF WindowNext
<1> QED BY InitWindowInv, <1>1, PTL DEF WindowSpec

(***************************************************************************)
(* Type correctness of the window.                                         *)
(***************************************************************************)
THEOREM WindowTypeCorrect == WindowSpec => []WindowTypeOK
<1>1. WindowInv => WindowTypeOK
  BY DEF WindowInv
<1> QED BY <1>1, WindowInvInvariant, PTL

(***************************************************************************)
(* Range hands out no message twice, whatever the order of the pushes and  *)
(* also after an overrun.                                                  *)
(***************************************************************************)
THEOREM AtMostOnce == WindowSpec => []PoppedAtMostOnce
<1>1. WindowInv => PoppedAtMostOnce
  BY DEF WindowInv
<1> QED BY <1>1, WindowInvInvariant, PTL

(***************************************************************************)
(* An aligned window hands out the messages in the order of their nonces,  *)
(* without a gap, for every Size: lastNonce modulo Size is enough.         *)
(***************************************************************************)
THEOREM InOrder == WindowSpec => []PoppedInOrder
<1>1. WindowInv => PoppedInOrder
  BY DEF WindowInv
<1> QED BY <1>1, WindowInvInvariant, PTL

(***************************************************************************)
(* An aligned window never overwrites or forgets a pushed message.         *)
(***************************************************************************)
THEOREM Lossless == WindowSpec => []NothingLost
<1>1. WindowInv => NothingLost
  BY DEF WindowInv
<1> QED BY <1>1, WindowInvInvariant, PTL

(***************************************************************************)
(* Pop leaves nothing behind that was next in line.                        *)
(***************************************************************************)
THEOREM PopsAreMaximal == WindowSpec => PopIsMaximal
<1>1. ASSUME WindowInv, Aligned, NEW k \in 0..Size, PopRun(k)
      PROVE  Len(popped') + 1 \notin pushed
  <2> DEFINE L == Len(popped)
  <2>1. L \in Nat /\ k \in Nat /\ Len(popped') = L + k
    BY <1>1, PopFacts, SizeAssumption DEF WindowInv, WindowTypeOK
  <2>2. CASE k < Size
    <3>1. k \in 0..(Size - 1)
      BY <2>2, SizeAssumption
    <3>2. Idx(lastNonce + k) = Idx(L + 1 + k) /\ Idx(lastNonce + k) \in Slots
      BY <3>1, <1>1, PopAligned
    <3>3. buf[Idx(L + 1 + k)] = Nil
      BY <2>2, <3>2, <1>1 DEF PopRun, RangeStops, NotNil
    <3>4. L + 1 + k \notin pushed
      <4> SUFFICES ASSUME L + 1 + k \in pushed PROVE FALSE
        OBVIOUS
      <4>1. buf[Idx(L + 1 + k)] = L + 1 + k
        BY <1>1, <2>1 DEF WindowInv, NothingLost
      <4> QED BY <4>1, <3>3, <2>1, NilAssumption
    <3> QED BY <3>4, <2>1
  <2>3. CASE k = Size
    <3>1. \A n \in pushed : n <= L + Size
      BY <1>1 DEF WindowInv, AlignedWindow
    <3> QED BY <3>1, <2>1, <2>3, SizeAssumption
  <2> QED BY <2>2, <2>3, SizeAssumption
<1>2. WindowInv /\ [WindowNext]_windowVars
        => [(Pop /\ first = 1 /\ ~overrun)
              => Len(popped') + 1 \notin pushed]_windowVars
  BY <1>1 DEF Pop, Aligned
<1> QED BY <1>2, WindowInvInvariant, PTL DEF WindowSpec, PopIsMaximal

-----------------------------------------------------------------------------
(* Delivery                                                                *)

(* x is an element of s; the elements of s differ; s and t share none. *)
In(x, s) == \E i \in DOMAIN s : s[i] = x
Inj(s) == \A i, j \in DOMAIN s : s[i] = s[j] => i = j
Apart(s, t) == \A x \in Nonces : ~(In(x, s) /\ In(x, t))

LinkOK(w, out) == Inj(w.frames) /\ Inj(out) /\ Apart(w.frames, out)

OnLink(x) == In(x, writer.frames) \/ In(x, wire)

LinkInv ==
  /\ LinkOK(writer, wire)
  /\ \A n \in Nonces : n > messageNonce => call[n] = "none"
  /\ \A n \in Nonces : OnLink(n) \/ handler[n] # "none" => call[n] = "sent"
  /\ \A n \in Nonces : OnLink(n) => handler[n] = "none"

PushInv ==
  /\ \A n \in Nonces : n \in pushed <=> handler[n] \notin {"none", "push"}
  /\ once => first # 0

(* Popped by some goroutine and not given up by Submit. *)
Popped(x) == (\E m \in Nonces : In(x, batch[m])) \/ In(x, jobs) \/ In(x, dispatched)

SubmitInv ==
  /\ \A m \in Nonces : handler[m] # "submit" => batch[m] = <<>>
  /\ \A m \in Nonces : /\ Inj(batch[m])
                       /\ Apart(batch[m], jobs) /\ Apart(batch[m], dispatched)
  /\ \A m, l \in Nonces : m # l => Apart(batch[m], batch[l])
  /\ Inj(jobs) /\ Inj(dispatched) /\ Apart(jobs, dispatched)
  /\ \A x \in Nonces : Popped(x) => In(x, popped)

(* Nothing disappears before the push, or after the pop. *)
KeptBefore ==
  connUp /\ writer.err = "nil" =>
    \A n \in Nonces : n <= messageNonce =>
      call[n] = "send" \/ OnLink(n) \/ handler[n] # "none"

KeptAfter == ~closeSignal => \A x \in Nonces : In(x, popped) => Popped(x)

DeliveryInv ==
  /\ TypeOK
  /\ WindowInv
  /\ LinkInv
  /\ PushInv
  /\ SubmitInv
  /\ KeptBefore
  /\ KeptAfter

----------------------------------------------------------------------------
(* Sequences by their elements *)

(* Append adds one element. *)
LEMMA AppendElements ==
  ASSUME NEW S, NEW s \in Seq(S), NEW x \in S
  PROVE  /\ Append(s, x) \in Seq(S) /\ Len(Append(s, x)) = Len(s) + 1
         /\ \A y : In(y, Append(s, x)) <=> In(y, s) \/ y = x
         /\ Inj(s) /\ ~In(x, s) => Inj(Append(s, x))
<1>1. /\ Append(s, x) \in Seq(S) /\ Len(Append(s, x)) = Len(s) + 1
      /\ Len(s) \in Nat
      /\ DOMAIN s = 1..Len(s) /\ DOMAIN Append(s, x) = 1..(Len(s) + 1)
      /\ \A i \in 1..Len(s) : Append(s, x)[i] = s[i]
      /\ Append(s, x)[Len(s) + 1] = x
  BY AppendProperties, LenProperties
<1>2. \A y : In(y, Append(s, x)) <=> In(y, s) \/ y = x
  BY <1>1 DEF In
<1>3. Inj(s) /\ ~In(x, s) => Inj(Append(s, x))
  BY <1>1 DEF In, Inj
<1> QED BY <1>1, <1>2, <1>3

(* Head takes one element away. *)
LEMMA TailElements ==
  ASSUME NEW S, NEW s \in Seq(S), s # <<>>
  PROVE  /\ Head(s) \in S /\ Tail(s) \in Seq(S) /\ Len(Tail(s)) = Len(s) - 1
         /\ \A y : In(y, s) <=> y = Head(s) \/ In(y, Tail(s))
         /\ Inj(s) => Inj(Tail(s)) /\ ~In(Head(s), Tail(s))
<1>1. /\ Head(s) \in S /\ Tail(s) \in Seq(S) /\ Len(Tail(s)) = Len(s) - 1
      /\ Len(s) \in Nat /\ Len(s) > 0 /\ Head(s) = s[1]
      /\ DOMAIN s = 1..Len(s) /\ DOMAIN Tail(s) = 1..(Len(s) - 1)
      /\ \A i \in 1..(Len(s) - 1) : Tail(s)[i] = s[i + 1]
  BY HeadTailProperties, LenProperties, EmptySeq
<1>2. \A i \in 2..Len(s) : i - 1 \in DOMAIN Tail(s) /\ Tail(s)[i - 1] = s[i]
  BY <1>1
<1>3. ASSUME NEW y PROVE In(y, s) <=> y = Head(s) \/ In(y, Tail(s))
  <2>1. ASSUME In(y, s), y # Head(s) PROVE In(y, Tail(s))
    <3>1. PICK i \in DOMAIN s : s[i] = y
      BY <2>1 DEF In
    <3>2. i \in 2..Len(s)
      BY <3>1, <2>1, <1>1
    <3> QED BY <3>1, <3>2, <1>2 DEF In
  <2>2. ASSUME In(y, Tail(s)) PROVE In(y, s)
    <3>1. PICK i \in DOMAIN Tail(s) : Tail(s)[i] = y
      BY <2>2 DEF In
    <3>2. i + 1 \in DOMAIN s /\ s[i + 1] = y
      BY <3>1, <1>1
    <3> QED BY <3>2 DEF In
  <2>3. In(Head(s), s)
    BY <1>1 DEF In
  <2> QED BY <2>1, <2>2, <2>3
<1>4. ASSUME Inj(s) PROVE Inj(Tail(s)) /\ ~In(Head(s), Tail(s))
  BY <1>4, <1>1 DEF In, Inj
<1> QED BY <1>1, <1>3, <1>4

(* A prefix of f moves behind out. *)
LEMMA MoveElements ==
  ASSUME NEW f \in Seq(Nonces), NEW out \in Seq(Nonces), NEW k \in 0..Len(f),
         Inj(f), Inj(out), Apart(f, out)
  PROVE  LET rest == SubSeq(f, k + 1, Len(f))
             more == out \o SubSeq(f, 1, k)
         IN  /\ rest \in Seq(Nonces) /\ more \in Seq(Nonces)
             /\ Inj(rest) /\ Inj(more) /\ Apart(rest, more)
             /\ \A x \in Nonces : In(x, rest) \/ In(x, more) <=> In(x, f) \/ In(x, out)
<1> DEFINE rest == SubSeq(f, k + 1, Len(f))
           front == SubSeq(f, 1, k)
           more == out \o front
<1>1. /\ Len(f) \in Nat /\ DOMAIN f = 1..Len(f) /\ Len(out) \in Nat
      /\ DOMAIN out = 1..Len(out) /\ k \in Nat
  BY LenProperties
<1>2. /\ front \in Seq(Nonces) /\ Len(front) = k /\ DOMAIN front = 1..k
      /\ \A i \in 1..k : front[i] = f[i]
  <2>1. front \in Seq(Nonces) /\ Len(front) = k /\ \A i \in 1..k : front[i] = f[i]
    BY <1>1, SubSeqProperties
  <2> QED BY <2>1, LenProperties
<1>3. /\ rest \in Seq(Nonces) /\ Len(rest) = Len(f) - k
      /\ DOMAIN rest = 1..(Len(f) - k)
      /\ \A i \in 1..(Len(f) - k) : rest[i] = f[k + i]
  <2>1. /\ rest \in Seq(Nonces) /\ Len(rest) = Len(f) - k
        /\ \A i \in 1..(Len(f) - k) : rest[i] = f[k + i]
    <3>1. /\ k + 1 \in Int /\ Len(f) \in Int /\ k <= Len(f)
          /\ Len(f) - (k + 1) + 1 = Len(f) - k
          /\ \A i \in (k + 1)..Len(f) : f[i] \in Nonces
      BY <1>1
    <3>2. /\ rest \in Seq(Nonces)
          /\ Len(rest) = IF k + 1 <= Len(f) THEN Len(f) - (k + 1) + 1 ELSE 0
          /\ \A i \in 1..(Len(f) - (k + 1) + 1) : rest[i] = f[(k + 1) + i - 1]
      BY <3>1, <1>1, SubSeqProperties
    <3>3. \A i \in 1..(Len(f) - k) : (k + 1) + i - 1 = k + i
      BY <1>1
    <3> HIDE DEF rest
    <3>4. Len(rest) = Len(f) - k
      <4>1. CASE k + 1 <= Len(f)
        BY <4>1, <3>1, <3>2
      <4>2. CASE ~(k + 1 <= Len(f))
        <5>1. Len(rest) = 0
          BY <4>2, <3>2
        <5>2. k \in Nat /\ Len(f) \in Nat /\ k <= Len(f)
          BY <1>1
        <5>3. Len(f) - k = 0
          BY ONLY <4>2, <5>2
        <5> QED BY <5>1, <5>3
      <4> QED BY <4>1, <4>2
    <3> QED BY <3>1, <3>2, <3>3, <3>4, Zenon
  <2> QED BY <2>1, LenProperties
<1> HIDE DEF front, rest
<1>4. /\ more \in Seq(Nonces) /\ DOMAIN more = 1..(Len(out) + k)
      /\ \A i \in 1..Len(out) : more[i] = out[i]
      /\ \A i \in 1..k : more[Len(out) + i] = f[i]
  <2>1. /\ more \in Seq(Nonces) /\ Len(more) = Len(out) + k
        /\ \A i \in 1..(Len(out) + k) :
             more[i] = IF i <= Len(out) THEN out[i] ELSE front[i - Len(out)]
    BY <1>2, ConcatProperties
  <2>2. DOMAIN more = 1..(Len(out) + k)
    BY <2>1, LenProperties
  <2>3. \A i \in 1..Len(out) : more[i] = out[i]
    BY <2>1, <1>1
  <2>4. ASSUME NEW i \in 1..k PROVE more[Len(out) + i] = f[i]
    <3>1. /\ Len(out) + i \in 1..(Len(out) + k) /\ ~(Len(out) + i <= Len(out))
          /\ (Len(out) + i) - Len(out) = i
      BY <1>1
    <3> QED BY <3>1, <2>1, <1>2
  <2> QED BY <2>1, <2>2, <2>3, <2>4
<1> HIDE DEF more
<1>5. \A x : In(x, rest) <=> \E i \in (k + 1)..Len(f) : f[i] = x
  <2>1. ASSUME NEW i \in (k + 1)..Len(f)
        PROVE  i - k \in 1..(Len(f) - k) /\ rest[i - k] = f[i]
    <3>1. i - k \in 1..(Len(f) - k) /\ k + (i - k) = i
      BY <1>1
    <3> QED BY <3>1, <1>3
  <2>2. ASSUME NEW i \in 1..(Len(f) - k)
        PROVE  k + i \in (k + 1)..Len(f) /\ rest[i] = f[k + i]
    BY <1>1, <1>3
  <2> QED BY <2>1, <2>2, <1>3, ZenonT(30) DEF In
<1>6. \A x : In(x, more) <=> In(x, out) \/ \E i \in 1..k : f[i] = x
  <2>1. ASSUME NEW j \in DOMAIN more
        PROVE  \/ j \in 1..Len(out) /\ more[j] = out[j]
               \/ \E i \in 1..k : j = Len(out) + i /\ more[j] = f[i]
    <3>1. CASE j <= Len(out)
      BY <3>1, <1>1, <1>4
    <3>2. CASE j > Len(out)
      <4>1. j - Len(out) \in 1..k /\ j = Len(out) + (j - Len(out))
        BY <3>2, <1>1, <1>4
      <4> QED BY <4>1, <1>4, Zenon
    <3> QED BY <3>1, <3>2, <1>1, <1>4
  <2>2. \A i \in 1..Len(out) : i \in DOMAIN more
    BY <1>1, <1>4
  <2>3. \A i \in 1..k : Len(out) + i \in DOMAIN more
    BY <1>1, <1>4
  <2> QED BY <2>1, <2>2, <2>3, <1>1, <1>4, ZenonT(30) DEF In
<1>7. Inj(rest)
  <2>1. ASSUME NEW i \in 1..(Len(f) - k), NEW j \in 1..(Len(f) - k),
               f[k + i] = f[k + j]
        PROVE  i = j
    <3>1. k + i \in DOMAIN f /\ k + j \in DOMAIN f
      BY <1>1
    <3>2. k + i = k + j
      BY <2>1, <3>1 DEF Inj
    <3>3. k \in Int /\ i \in Int /\ j \in Int
      BY <1>1
    <3> QED BY <3>2, <3>3
  <2> SUFFICES ASSUME NEW i \in 1..(Len(f) - k), NEW j \in 1..(Len(f) - k),
                      rest[i] = rest[j]
               PROVE  i = j
    BY <1>3 DEF Inj
  <2>2. f[k + i] = f[k + j]
    BY <1>3
  <2> QED BY <2>1, <2>2
<1>8. Inj(more)
  <2> SUFFICES ASSUME NEW i \in DOMAIN more, NEW j \in DOMAIN more, more[i] = more[j]
               PROVE  i = j
    BY DEF Inj
  <2>1. ASSUME NEW a \in 1..Len(out), NEW b \in 1..k PROVE out[a] # f[b]
    <3>1. b \in DOMAIN f /\ out[a] \in Nonces
      BY <1>1
    <3> QED BY <3>1, <1>1 DEF Apart, In
  <2>2. ASSUME NEW l \in DOMAIN more
        PROVE  l \in 1..Len(out) \/ \E b \in 1..k : l = Len(out) + b
    <3>1. l \in 1..(Len(out) + k)
      BY <1>4
    <3>2. l \in 1..Len(out) \/ (l - Len(out) \in 1..k /\ l = Len(out) + (l - Len(out)))
      BY <3>1, <1>1
    <3> QED BY <3>2, Zenon
  <2>3. CASE i \in 1..Len(out) /\ j \in 1..Len(out)
    BY <2>3, <1>1, <1>4 DEF Inj
  <2>4. ASSUME NEW a \in 1..k, NEW b \in 1..k, i = Len(out) + a, j = Len(out) + b
        PROVE  i = j
    <3>1. f[a] = f[b] /\ a \in DOMAIN f /\ b \in DOMAIN f
      BY <2>4, <1>1, <1>4
    <3> QED BY <3>1, <2>4 DEF Inj
  <2>5. ASSUME NEW a \in 1..k, i = Len(out) + a, j \in 1..Len(out) PROVE FALSE
    BY <2>5, <2>1, <1>4
  <2>6. ASSUME NEW a \in 1..k, j = Len(out) + a, i \in 1..Len(out) PROVE FALSE
    BY <2>6, <2>1, <1>4, Zenon
  <2> QED BY <2>2, <2>3, <2>4, <2>5, <2>6, Zenon
<1>9. Apart(rest, more)
  <2> SUFFICES ASSUME NEW x \in Nonces, In(x, rest), In(x, more) PROVE FALSE
    BY DEF Apart
  <2>1. PICK i \in (k + 1)..Len(f) : f[i] = x
    BY <1>5
  <2>2. i \in DOMAIN f /\ In(x, f)
    BY <2>1, <1>1 DEF In
  <2>3. CASE In(x, out)
    BY <2>2, <2>3 DEF Apart
  <2>4. CASE \E j \in 1..k : f[j] = x
    BY <2>1, <2>2, <2>4, <1>1 DEF Inj
  <2> QED BY <2>3, <2>4, <1>6
<1>10. ASSUME NEW x \in Nonces
       PROVE  In(x, rest) \/ In(x, more) <=> In(x, f) \/ In(x, out)
  <2>1. In(x, f) <=> \/ \E i \in 1..k : f[i] = x
                     \/ \E i \in (k + 1)..Len(f) : f[i] = x
    BY <1>1 DEF In
  <2> QED BY <2>1, <1>5, <1>6
<1> QED BY <1>3, <1>4, <1>7, <1>8, <1>9, <1>10 DEF rest, more, front

(* What is cut off a sequence was in it. *)
LEMMA CutElements ==
  ASSUME NEW s \in Seq(Nonces), NEW k \in 0..Len(s)
  PROVE  LET c == SubSeq(s, 1, k)
         IN  c \in Seq(Nonces) /\ (Inj(s) => Inj(c)) /\ \A x : In(x, c) => In(x, s)
<1> DEFINE c == SubSeq(s, 1, k)
<1>1. Len(s) \in Nat /\ DOMAIN s = 1..Len(s) /\ k \in Nat
  BY LenProperties
<1>2. c \in Seq(Nonces) /\ Len(c) = k /\ \A i \in 1..k : c[i] = s[i]
  BY <1>1, SubSeqProperties
<1>3. DOMAIN c = 1..k
  BY <1>2, LenProperties
<1> HIDE DEF c
<1>4. Inj(s) => Inj(c)
  BY <1>1, <1>2, <1>3 DEF Inj
<1>5. \A x : In(x, c) => In(x, s)
  BY <1>1, <1>2, <1>3 DEF In
<1> QED BY <1>2, <1>4, <1>5 DEF c

(* Nothing is in the empty sequence. *)
LEMMA EmptyElements == Inj(<<>>) /\ (\A x : ~In(x, <<>>)) /\ <<>> \in Seq(Nonces)
BY EmptySeq DEF Inj, In

----------------------------------------------------------------------------
(* The writer *)

(* What Flush leaves behind and what it puts on the wire are, together,    *)
(* what was buffered and on the wire before.                               *)
LEMMA FlushedLink ==
  ASSUME NEW w \in Writer, NEW out \in Seq(Nonces), LinkOK(w, out),
         NEW s \in Flushed(w, out)
  PROVE  /\ s[1] \in Writer /\ s[2] \in Seq(Nonces) /\ LinkOK(s[1], s[2])
         /\ s[1].err = "nil" => w.err = "nil"
         /\ \A x \in Nonces : In(x, s[1].frames) \/ In(x, s[2])
                                <=> In(x, w.frames) \/ In(x, out)
<1>1. w.frames \in Seq(Nonces) /\ Len(w.frames) \in Nat
  BY LenProperties DEF Writer
<1>2. CASE s = <<w, out>>
  <2>1. s[1] = w /\ s[2] = out
    BY <1>2
  <2> QED BY <2>1
<1>3. CASE s = <<EmptyWriter, out \o w.frames>> /\ w.err = "nil"
  <2>1. /\ s[1] = EmptyWriter /\ s[2] = out \o w.frames
        /\ EmptyWriter.frames = <<>>
        /\ EmptyWriter \in Writer
    BY <1>3, BufferSizeAssumption, EmptyElements DEF EmptyWriter, Writer
  <2>2. Len(w.frames) \in 0..Len(w.frames)
    BY <1>1
  <2>3. SubSeq(w.frames, 1, Len(w.frames)) = w.frames
    BY <1>1, SubSeqFull
  <2>4. SubSeq(w.frames, Len(w.frames) + 1, Len(w.frames)) = <<>>
    BY <1>1, SubSeqEmpty
  <2> DEFINE k == Len(w.frames)
             rest == SubSeq(w.frames, k + 1, k)
             more == out \o SubSeq(w.frames, 1, k)
  <2>5. /\ more \in Seq(Nonces) /\ Inj(more)
        /\ \A x \in Nonces : In(x, rest) \/ In(x, more)
                               <=> In(x, w.frames) \/ In(x, out)
    BY <1>1, <2>2, MoveElements DEF LinkOK
  <2>6. rest = <<>> /\ more = s[2]
    BY <2>1, <2>3, <2>4
  <2> HIDE DEF rest, more, k
  <2> QED BY <2>1, <2>5, <2>6, <1>3, EmptyElements DEF LinkOK, Apart
<1>4. ASSUME NEW k \in 0..Len(w.frames), w.err = "nil",
             s = <<[w EXCEPT !.frames = SubSeq(@, k + 1, Len(@)), !.err = "error"],
                   out \o SubSeq(w.frames, 1, k)>>
      PROVE  /\ s[1] \in Writer /\ s[2] \in Seq(Nonces) /\ LinkOK(s[1], s[2])
             /\ s[1].err = "nil" => w.err = "nil"
             /\ \A x \in Nonces : In(x, s[1].frames) \/ In(x, s[2])
                                    <=> In(x, w.frames) \/ In(x, out)
  <2> DEFINE rest == SubSeq(w.frames, k + 1, Len(w.frames))
             more == out \o SubSeq(w.frames, 1, k)
  <2>1. /\ rest \in Seq(Nonces) /\ more \in Seq(Nonces)
        /\ Inj(rest) /\ Inj(more) /\ Apart(rest, more)
        /\ \A x \in Nonces : In(x, rest) \/ In(x, more)
                               <=> In(x, w.frames) \/ In(x, out)
    BY <1>1, MoveElements DEF LinkOK
  <2>2. s[1] = [w EXCEPT !.frames = rest, !.err = "error"] /\ s[2] = more
    BY <1>4
  <2> HIDE DEF rest, more
  <2>3. s[1] \in Writer /\ s[1].frames = rest
    BY <2>1, <2>2, Zenon DEF Writer
  <2> QED BY <2>1, <2>2, <2>3, <1>4 DEF LinkOK
<1>5. \/ s = <<w, out>>
      \/ s = <<EmptyWriter, out \o w.frames>> /\ w.err = "nil"
      \/ \E k \in 0..Len(w.frames) :
           w.err = "nil" /\
           s = <<[w EXCEPT !.frames = SubSeq(@, k + 1, Len(@)), !.err = "error"],
                 out \o SubSeq(w.frames, 1, k)>>
  <2> DEFINE cut(k) ==
               <<[w EXCEPT !.frames = SubSeq(@, k + 1, Len(@)), !.err = "error"],
                 out \o SubSeq(w.frames, 1, k)>>
             K == IF connUp THEN 0..(Len(w.frames) - 1) ELSE {0}
             whole == <<EmptyWriter, out \o w.frames>>
  <2>1. K \subseteq 0..Len(w.frames)
    BY <1>1
  <2>2. Flushed(w, out) = IF w.err # "nil" \/ w.frames = <<>>
                            THEN {<<w, out>>}
                            ELSE (IF connUp THEN {whole} ELSE {}) \cup {cut(k) : k \in K}
    BY Zenon DEF Flushed
  <2> HIDE DEF cut, K, whole
  <2>3. \/ s = <<w, out>>
        \/ s = whole /\ w.err = "nil"
        \/ \E k \in K : w.err = "nil" /\ s = cut(k)
    BY <2>2
  <2> QED BY <2>1, <2>3, Zenon DEF cut, whole
<1> QED BY <1>2, <1>3, <1>4, <1>5, Zenon

(* Write buffers the frame, puts it on the wire, or fails and drops it. *)
LinkGrows(n, w, out, s) ==
  /\ s[1] \in Writer /\ s[2] \in Seq(Nonces) /\ LinkOK(s[1], s[2])
  /\ s[1].err = "nil" => w.err = "nil"
  /\ \A x \in Nonces : In(x, w.frames) \/ In(x, out)
                         => In(x, s[1].frames) \/ In(x, s[2])
  /\ \A x \in Nonces : In(x, s[1].frames) \/ In(x, s[2])
                         => In(x, w.frames) \/ In(x, out) \/ (x = n /\ s[1].err = "nil")
  /\ s[1].err = "nil" => In(n, s[1].frames) \/ In(n, s[2])

LEMMA PutLink ==
  ASSUME NEW n \in Nonces, NEW len \in FrameLens, NEW w \in Writer,
         NEW out \in Seq(Nonces), LinkOK(w, out),
         ~In(n, w.frames), ~In(n, out), NEW s \in Put(n, len, w, out)
  PROVE  LinkGrows(n, w, out, s)
<1>1. w.frames \in Seq(Nonces) /\ w.buffered \in 0..BufferSize /\ len \in Nat
  BY FrameLensAssumption DEF Writer
<1>2. CASE w.err # "nil" /\ s = <<w, out>>
  <2>1. s[1] = w /\ s[2] = out
    BY <1>2
  <2> QED BY <2>1, <1>2 DEF LinkGrows
<1>3. CASE /\ w.err = "nil" /\ len <= BufferSize - w.buffered
           /\ s = <<[w EXCEPT !.frames = Append(@, n), !.buffered = @ + len], out>>
  <2>1. /\ s[1].frames = Append(w.frames, n) /\ s[2] = out /\ s[1].err = "nil"
        /\ s[1] = [w EXCEPT !.frames = Append(@, n), !.buffered = @ + len]
    BY <1>3, Zenon DEF Writer
  <2>2. /\ Append(w.frames, n) \in Seq(Nonces) /\ Inj(Append(w.frames, n))
        /\ \A y : In(y, Append(w.frames, n)) <=> In(y, w.frames) \/ y = n
    BY <1>1, AppendElements DEF LinkOK
  <2>3. w.buffered + len \in 0..BufferSize
    BY <1>1, <1>3, BufferSizeAssumption
  <2>4. s[1] \in Writer
    BY <2>1, <2>2, <2>3, Zenon DEF Writer
  <2>5. LinkOK(s[1], s[2])
    BY <2>1, <2>2 DEF LinkOK, Apart
  <2> QED BY <2>1, <2>2, <2>4, <2>5, <1>3 DEF LinkGrows
<1>4. CASE w.err = "nil" /\ s = <<w, Append(out, n)>>
  <2>1. s[1] = w /\ s[2] = Append(out, n)
    BY <1>4
  <2>2. /\ Append(out, n) \in Seq(Nonces) /\ Inj(Append(out, n))
        /\ \A y : In(y, Append(out, n)) <=> In(y, out) \/ y = n
    BY AppendElements DEF LinkOK
  <2>3. LinkOK(s[1], s[2])
    BY <2>1, <2>2 DEF LinkOK, Apart
  <2> QED BY <2>1, <2>2, <2>3, <1>4 DEF LinkGrows
<1>5. CASE w.err = "nil" /\ s = <<[w EXCEPT !.err = "error"], out>>
  <2>1. /\ s[1] \in Writer /\ s[1].frames = w.frames /\ s[1].err = "error"
        /\ s[2] = out
    BY <1>5 DEF Writer
  <2> QED BY <2>1, <1>5 DEF LinkGrows, LinkOK
<1> QED BY <1>2, <1>3, <1>4, <1>5 DEF Put

LEMMA SentLink ==
  ASSUME TypeOK, LinkOK(writer, wire), NEW n \in Nonces, NEW len \in FrameLens,
         ~OnLink(n), NEW s \in Sent(n, len)
  PROVE  LinkGrows(n, writer, wire, s)
<1>1. CASE s \in Put(n, len, writer, wire)
  BY <1>1, PutLink, Zenon DEF OnLink, TypeOK
<1>2. ASSUME NEW f \in Flushed(writer, wire), s \in Put(n, len, f[1], f[2])
      PROVE  LinkGrows(n, writer, wire, s)
  <2>1. /\ f[1] \in Writer /\ f[2] \in Seq(Nonces) /\ LinkOK(f[1], f[2])
        /\ f[1].err = "nil" => writer.err = "nil"
        /\ \A x \in Nonces : In(x, f[1].frames) \/ In(x, f[2])
                               <=> In(x, writer.frames) \/ In(x, wire)
    BY FlushedLink, ZenonT(30) DEF TypeOK
  <2>2. LinkGrows(n, f[1], f[2], s)
    BY <1>2, <2>1, PutLink DEF OnLink
  <2> QED BY <2>1, <2>2 DEF LinkGrows
<1> QED BY <1>1, <1>2 DEF Sent

----------------------------------------------------------------------------
(* The window *)

(* Pop hands out what was not handed out before. *)
LEMMA PopElements ==
  ASSUME WindowInv, NEW k \in 0..Size, PopRun(k)
  PROVE  /\ RangeResult(k) \in Seq(Nonces) /\ Inj(RangeResult(k))
         /\ \A x : In(x, popped') <=> In(x, popped) \/ In(x, RangeResult(k))
         /\ \A x : ~(In(x, RangeResult(k)) /\ In(x, popped))
<1> DEFINE L == Len(popped)
           r == RangeResult(k)
<1>1. /\ L \in Nat /\ k \in Nat /\ popped \in Seq(Nonces) /\ popped' \in Seq(Nonces)
      /\ pushed \subseteq Nonces /\ Len(popped') = L + k
  BY PopFacts, LenProperties, SizeAssumption DEF WindowInv, WindowTypeOK
<1>2. DOMAIN popped = 1..L /\ DOMAIN popped' = 1..(L + k)
  BY <1>1, LenProperties
<1>3. /\ \A i \in 1..L : popped'[i] = popped[i]
      /\ \A i \in 1..k : popped'[L + i] = buf[Idx(lastNonce + (i - 1))]
  BY PopFacts, Zenon
<1>4. DOMAIN r = 1..k /\ \A i \in 1..k : r[i] = popped'[L + i]
  BY <1>3 DEF RangeResult
<1>5. \A i \in 1..k : L + i \in 1..(L + k) /\ ~(L + i <= L)
  BY <1>1
<1>6. \A i \in 1..k : r[i] \in Nonces
  BY <1>1, <1>2, <1>4, <1>5
<1>7. r \in Seq(Nonces)
  <2>1. r = [i \in 1..k |-> buf[Idx(lastNonce + (i - 1))]]
    BY DEF RangeResult
  <2>2. \A i \in 1..k : buf[Idx(lastNonce + (i - 1))] \in Nonces
    BY <1>6, <2>1
  <2> QED BY <1>1, <2>1, <2>2, SeqDef
<1> HIDE DEF r, L
<1>8. \A i, j \in 1..(L + k) : popped'[i] = popped'[j] => i = j
  BY PopWindowInv, <1>2, <1>1 DEF WindowInv, PoppedAtMostOnce
<1>9. Inj(r)
  <2> SUFFICES ASSUME NEW i \in 1..k, NEW j \in 1..k, r[i] = r[j] PROVE i = j
    BY <1>4 DEF Inj
  <2>1. L + i = L + j
    BY <1>4, <1>5, <1>8
  <2> QED BY <2>1, <1>1
<1>10. ASSUME NEW x PROVE In(x, popped') <=> In(x, popped) \/ In(x, r)
  <2>1. ASSUME NEW j \in 1..(L + k)
        PROVE  j \in 1..L \/ \E i \in 1..k : j = L + i
    <3>1. j \in 1..L \/ (j - L \in 1..k /\ j = L + (j - L))
      BY <1>1
    <3> QED BY <3>1
  <2>2. \A j \in 1..L : j \in 1..(L + k)
    BY <1>1
  <2>3. ASSUME In(x, popped') PROVE In(x, popped) \/ In(x, r)
    <3>1. PICK j \in 1..(L + k) : popped'[j] = x
      BY <2>3, <1>2 DEF In
    <3>2. CASE j \in 1..L
      BY <3>1, <3>2, <1>2, <1>3 DEF In
    <3>3. ASSUME NEW i \in 1..k, j = L + i PROVE In(x, r)
      BY <3>1, <3>3, <1>4 DEF In
    <3> QED BY <2>1, <3>2, <3>3
  <2>4. ASSUME In(x, popped) PROVE In(x, popped')
    BY <2>4, <2>2, <1>2, <1>3 DEF In
  <2>5. ASSUME In(x, r) PROVE In(x, popped')
    BY <2>5, <1>2, <1>4, <1>5 DEF In
  <2> QED BY <2>3, <2>4, <2>5
<1>11. ASSUME NEW x, In(x, r), In(x, popped) PROVE FALSE
  <2>1. PICK i \in 1..k : r[i] = x
    BY <1>11, <1>4 DEF In
  <2>2. PICK j \in 1..L : popped[j] = x
    BY <1>11, <1>2 DEF In
  <2>3. j \in 1..(L + k) /\ L + i = j
    BY <2>1, <2>2, <1>1, <1>3, <1>4, <1>5, <1>8
  <2> QED BY <2>3, <1>5, <1>1
<1> QED BY <1>7, <1>9, <1>10, <1>11 DEF r

----------------------------------------------------------------------------
(* The invariant *)

LEMMA InitDeliveryInv == Init => DeliveryInv
<1> SUFFICES ASSUME Init PROVE DeliveryInv
  OBVIOUS
<1>1. WindowInv
  BY InitWindowInv DEF Init
<1>2. TypeOK
  <2>1. writer \in Writer
    BY EmptyElements, BufferSizeAssumption DEF Init, Writer, EmptyWriter
  <2>2. Len(jobs) <= JobQueueSize
    BY EmptySeq, JobQueueAssumption DEF Init
  <2>3. messageNonce \in 0..MaxNonce
    BY MaxNonceAssumption DEF Init
  <2>4. /\ call \in [Nonces -> CallState] /\ handler \in [Nonces -> HandlerState]
        /\ batch \in [Nonces -> Seq(Nonces)]
        /\ wire \in Seq(Nonces) /\ jobs \in Seq(Nonces) /\ dispatched \in Seq(Nonces)
    BY EmptyElements DEF Init, CallState, HandlerState
  <2> QED BY <1>1, <2>1, <2>2, <2>3, <2>4, Zenon DEF Init, TypeOK, WindowInv
<1>3. writer.frames = <<>> /\ \A n \in Nonces : ~OnLink(n)
  BY EmptyElements DEF Init, EmptyWriter, OnLink
<1>4. LinkInv
  BY <1>3, EmptyElements DEF Init, LinkInv, LinkOK, Apart
<1>5. PushInv
  BY DEF Init, WindowInit, PushInv
<1>6. SubmitInv
  BY EmptyElements DEF Init, SubmitInv, Popped, Apart
<1>7. KeptBefore
  BY MaxNonceAssumption DEF Init, KeptBefore, Nonces
<1>8. KeptAfter
  BY EmptyElements DEF Init, WindowInit, KeptAfter
<1> QED BY <1>1, <1>2, <1>4, <1>5, <1>6, <1>7, <1>8 DEF DeliveryInv

(* A step that leaves the window alone keeps its invariant. *)
LEMMA SameWindow ==
  ASSUME WindowInv, UNCHANGED windowVars
  PROVE  WindowInv'
BY DEF WindowInv, windowVars, WindowTypeOK, SlotsHoldPushed, PoppedWasPushed,
       SlotsNotPopped, NotStarted, Aligned, AlignedWindow, PoppedAtMostOnce,
       PoppedInOrder, NothingLost, Idx, Slots, Nonces

(* A step of the sender or of the link concerns nothing behind the link. *)
LEMMA SameReceiver ==
  ASSUME DeliveryInv, UNCHANGED <<windowVars, receiverVars>>
  PROVE  WindowInv' /\ PushInv' /\ SubmitInv' /\ KeptAfter'
<1>1. WindowInv'
  BY SameWindow DEF DeliveryInv
<1>2. PushInv'
  BY DEF DeliveryInv, PushInv, windowVars, receiverVars
<1>3. SubmitInv'
  BY Zenon DEF DeliveryInv, SubmitInv, Popped, windowVars, receiverVars
<1>4. KeptAfter'
  BY DEF DeliveryInv, KeptAfter, Popped, windowVars, receiverVars
<1> QED BY <1>1, <1>2, <1>3, <1>4

(* A step behind the window concerns nothing before it. *)
LEMMA SameSender ==
  ASSUME DeliveryInv, UNCHANGED <<messageNonce, call, linkVars, connUp>>,
         \A m \in Nonces : handler'[m] = "none" <=> handler[m] = "none"
  PROVE  LinkInv' /\ KeptBefore'
<1>1. \A x : OnLink(x)' <=> OnLink(x)
  BY DEF OnLink, linkVars
<1>2. LinkInv'
  BY <1>1 DEF DeliveryInv, LinkInv, linkVars
<1>3. KeptBefore'
  BY <1>1 DEF DeliveryInv, KeptBefore, linkVars
<1> QED BY <1>2, <1>3

LEMMA TakeNonceInv ==
  ASSUME DeliveryInv, TakeNonce
  PROVE  DeliveryInv'
<1>1. /\ messageNonce + 1 \in Nonces /\ messageNonce \in Nat
      /\ messageNonce' = messageNonce + 1 /\ call \in [Nonces -> CallState]
      /\ call' = [call EXCEPT ![messageNonce + 1] = "send"]
  BY MaxNonceAssumption DEF TakeNonce, DeliveryInv, TypeOK, Nonces
<1>2. UNCHANGED <<windowVars, linkVars, flushing, connUp, receiverVars>>
  BY DEF TakeNonce
<1>3. TypeOK'
  BY <1>1, <1>2, MaxNonceAssumption
  DEF DeliveryInv, TypeOK, Nonces, CallState, windowVars, linkVars, receiverVars,
      WindowTypeOK, Slots
<1>4. \A x : OnLink(x)' <=> OnLink(x)
  BY <1>2 DEF OnLink, linkVars
<1>5. call[messageNonce + 1] = "none"
  BY <1>1 DEF DeliveryInv, LinkInv
<1>6. /\ call'[messageNonce + 1] = "send"
      /\ \A n \in Nonces : n # messageNonce + 1 => call'[n] = call[n]
      /\ \A n \in Nonces : n > messageNonce + 1 => n > messageNonce
      /\ \A n \in Nonces : n <= messageNonce + 1 => n <= messageNonce \/ n = messageNonce + 1
      /\ ~(messageNonce + 1 > messageNonce + 1)
  BY <1>1 DEF Nonces
<1>7. LinkInv'
  BY <1>1, <1>2, <1>4, <1>5, <1>6
  DEF DeliveryInv, LinkInv, linkVars, receiverVars
<1>8. KeptBefore'
  BY <1>1, <1>2, <1>4, <1>6 DEF DeliveryInv, KeptBefore, linkVars, receiverVars
<1> QED BY <1>2, <1>3, <1>7, <1>8, SameReceiver DEF DeliveryInv

LEMMA SendMessageInv ==
  ASSUME DeliveryInv, NEW n \in Nonces, SendMessage(n)
  PROVE  DeliveryInv'
<1>1. /\ call[n] = "send" /\ call \in [Nonces -> CallState]
      /\ UNCHANGED <<windowVars, messageNonce, flushing, connUp, receiverVars>>
  BY DEF SendMessage, DeliveryInv, TypeOK
<1>2. ~OnLink(n) /\ handler[n] = "none" /\ ~(n > messageNonce)
  BY <1>1 DEF DeliveryInv, LinkInv
<1>3. PICK len \in FrameLens : \E s \in Sent(n, len) :
        /\ writer' = s[1]
        /\ wire' = s[2]
        /\ call' = [call EXCEPT ![n] = IF s[1].err = "nil" THEN "sent" ELSE "failed"]
  BY Zenon DEF SendMessage
<1>4. PICK s \in Sent(n, len) :
        /\ writer' = s[1]
        /\ wire' = s[2]
        /\ call' = [call EXCEPT ![n] = IF s[1].err = "nil" THEN "sent" ELSE "failed"]
  BY <1>3, Zenon
<1>5. LinkGrows(n, writer, wire, s)
  BY <1>2, SentLink DEF DeliveryInv, LinkInv
<1>6. /\ writer' \in Writer /\ wire' \in Seq(Nonces) /\ LinkOK(writer', wire')
      /\ writer'.err = "nil" => writer.err = "nil"
      /\ \A x \in Nonces : OnLink(x) => OnLink(x)'
      /\ \A x \in Nonces : OnLink(x)' => OnLink(x) \/ (x = n /\ writer'.err = "nil")
      /\ writer'.err = "nil" => OnLink(n)'
  BY <1>4, <1>5 DEF LinkGrows, OnLink
<1>7. /\ call' = [call EXCEPT ![n] = IF writer'.err = "nil" THEN "sent" ELSE "failed"]
      /\ call' \in [Nonces -> CallState]
      /\ \A m \in Nonces : m # n => call'[m] = call[m]
      /\ writer'.err = "nil" => call'[n] = "sent"
  BY <1>1, <1>4 DEF CallState
<1>8. TypeOK'
  BY <1>1, <1>6, <1>7, ZenonT(30)
  DEF DeliveryInv, TypeOK, windowVars, receiverVars, WindowTypeOK
<1>9. LinkInv'
  BY <1>1, <1>2, <1>6, <1>7, ZenonT(30) DEF DeliveryInv, LinkInv, receiverVars
<1>10. KeptBefore'
  BY <1>1, <1>6, <1>7, Zenon DEF DeliveryInv, KeptBefore, receiverVars
<1> QED BY <1>1, <1>8, <1>9, <1>10, SameReceiver DEF DeliveryInv

LEMMA FlushLoopInv ==
  ASSUME DeliveryInv, FlushLoop
  PROVE  DeliveryInv'
<1>1. UNCHANGED <<windowVars, messageNonce, call, flushing, connUp, receiverVars>>
  BY DEF FlushLoop
<1>2. PICK s \in Flushed(writer, wire) : writer' = s[1] /\ wire' = s[2]
  BY DEF FlushLoop
<1>3. /\ writer' \in Writer /\ wire' \in Seq(Nonces) /\ LinkOK(writer', wire')
      /\ writer'.err = "nil" => writer.err = "nil"
      /\ \A x \in Nonces : OnLink(x)' <=> OnLink(x)
  BY <1>2, FlushedLink DEF DeliveryInv, TypeOK, LinkInv, OnLink
<1>4. TypeOK'
  BY <1>1, <1>3 DEF DeliveryInv, TypeOK, windowVars, receiverVars, WindowTypeOK
<1>5. LinkInv'
  BY <1>1, <1>3 DEF DeliveryInv, LinkInv, receiverVars
<1>6. KeptBefore'
  BY <1>1, <1>3 DEF DeliveryInv, KeptBefore, receiverVars
<1> QED BY <1>1, <1>4, <1>5, <1>6, SameReceiver DEF DeliveryInv

LEMMA BreakInv ==
  ASSUME DeliveryInv, Break
  PROVE  DeliveryInv'
<1>1. /\ UNCHANGED <<windowVars, messageNonce, call, writer, flushing, receiverVars>>
      /\ connUp' = FALSE
  BY DEF Break
<1>2. PICK k \in 0..Len(wire) : wire' = SubSeq(wire, 1, k)
  BY DEF Break
<1>3. /\ wire' \in Seq(Nonces) /\ LinkOK(writer', wire')
      /\ \A x \in Nonces : OnLink(x)' => OnLink(x)
  BY <1>1, <1>2, CutElements DEF DeliveryInv, TypeOK, LinkInv, LinkOK, OnLink, Apart
<1>4. TypeOK'
  BY <1>1, <1>3, Zenon DEF DeliveryInv, TypeOK, windowVars, receiverVars, WindowTypeOK
<1>5. LinkInv'
  BY <1>1, <1>3 DEF DeliveryInv, LinkInv, receiverVars
<1>6. KeptBefore'
  BY <1>1 DEF KeptBefore
<1> QED BY <1>1, <1>4, <1>5, <1>6, SameReceiver DEF DeliveryInv

(* Kill, ExecutorReturns, CloseClient and a stuttering step. *)
LEMMA SwitchInv ==
  ASSUME DeliveryInv,
         UNCHANGED <<windowVars, messageNonce, call, linkVars, connUp,
                     handler, batch, jobs, dispatched>>,
         flushing' \in BOOLEAN, executing' \in BOOLEAN, closeSignal' \in BOOLEAN,
         closeSignal => closeSignal'
  PROVE  DeliveryInv'
<1>1. TypeOK'
  BY DEF DeliveryInv, TypeOK, windowVars, linkVars, WindowTypeOK
<1>2. WindowInv'
  BY SameWindow DEF DeliveryInv
<1>3. LinkInv' /\ KeptBefore'
  BY SameSender
<1>4. PushInv'
  BY DEF DeliveryInv, PushInv, windowVars
<1>5. SubmitInv'
  BY Zenon DEF DeliveryInv, SubmitInv, Popped, windowVars
<1>6. KeptAfter'
  BY DEF DeliveryInv, KeptAfter, Popped, windowVars
<1> QED BY <1>1, <1>2, <1>3, <1>4, <1>5, <1>6 DEF DeliveryInv

LEMMA ReceiveInv ==
  ASSUME DeliveryInv, Receive
  PROVE  DeliveryInv'
<1> DEFINE n == Head(wire)
<1>1. /\ wire # <<>> /\ wire' = Tail(wire) /\ handler' = [handler EXCEPT ![n] = "push"]
      /\ UNCHANGED <<windowVars, messageNonce, call, writer, flushing, connUp, batch,
                     jobs, closeSignal, executing, dispatched>>
      /\ wire \in Seq(Nonces) /\ handler \in [Nonces -> HandlerState]
  BY DEF Receive, ReceiveMessage, DeliveryInv, TypeOK
<1>2. /\ n \in Nonces /\ wire' \in Seq(Nonces)
      /\ \A y : In(y, wire) <=> y = n \/ In(y, wire')
      /\ Inj(wire') /\ ~In(n, wire')
  BY <1>1, TailElements, Zenon DEF DeliveryInv, LinkInv, LinkOK
<1> HIDE DEF n
<1>3. /\ handler' \in [Nonces -> HandlerState] /\ handler'[n] = "push"
      /\ \A m \in Nonces : m # n => handler'[m] = handler[m]
  BY <1>1, <1>2 DEF HandlerState
<1>4. OnLink(n) /\ handler[n] = "none" /\ call[n] = "sent" /\ n \notin pushed
  BY <1>2 DEF OnLink, DeliveryInv, LinkInv, PushInv
<1>5. ~In(n, writer.frames)
  BY <1>2 DEF DeliveryInv, LinkInv, LinkOK, Apart
<1>6. \A x \in Nonces : OnLink(x)' <=> OnLink(x) /\ x # n
  BY <1>1, <1>2, <1>5 DEF OnLink
<1>7. TypeOK'
  BY <1>1, <1>2, <1>3, Zenon DEF DeliveryInv, TypeOK, windowVars, WindowTypeOK
<1>8. WindowInv'
  BY <1>1, SameWindow DEF DeliveryInv
<1>9. LinkOK(writer', wire')
  BY <1>1, <1>2, Zenon DEF DeliveryInv, LinkInv, LinkOK, Apart
<1>10. LinkInv'
  BY <1>1, <1>3, <1>4, <1>6, <1>9 DEF DeliveryInv, LinkInv
<1>11. PushInv'
  BY <1>1, <1>3, <1>4 DEF DeliveryInv, PushInv, windowVars
<1>12. SubmitInv'
  BY <1>1, <1>3, <1>4, ZenonT(30) DEF DeliveryInv, SubmitInv, Popped, windowVars
<1>13. KeptBefore'
  BY <1>1, <1>3, <1>6, Zenon DEF DeliveryInv, KeptBefore
<1>14. KeptAfter'
  BY <1>1 DEF DeliveryInv, KeptAfter, Popped, windowVars
<1> QED BY <1>7, <1>8, <1>10, <1>11, <1>12, <1>13, <1>14 DEF DeliveryInv

LEMMA HandlerPushInv ==
  ASSUME DeliveryInv, NEW n \in Nonces, HandlerPush(n)
  PROVE  DeliveryInv' /\ n \notin pushed
<1>1. /\ handler[n] = "push" /\ Push(n) /\ handler' = [handler EXCEPT ![n] = "pop"]
      /\ UNCHANGED <<messageNonce, call, linkVars, flushing, connUp, batch, jobs,
                     closeSignal, executing, dispatched>>
      /\ handler \in [Nonces -> HandlerState]
  BY DEF HandlerPush, DeliveryInv, TypeOK
<1>2. n \notin pushed
  BY <1>1 DEF DeliveryInv, PushInv
<1>3. WindowInv'
  BY <1>1, <1>2, PushWindowInv DEF DeliveryInv
<1>4. /\ handler' \in [Nonces -> HandlerState] /\ handler'[n] = "pop"
      /\ \A m \in Nonces : m # n => handler'[m] = handler[m]
  BY <1>1 DEF HandlerState
<1>5. /\ popped' = popped /\ pushed' = pushed \cup {n}
      /\ first' = IF once THEN first ELSE n
  BY <1>1, Zenon DEF Push
<1>6. TypeOK'
  BY <1>1, <1>3, <1>4 DEF DeliveryInv, TypeOK, WindowInv, linkVars
<1>7. LinkInv' /\ KeptBefore'
  BY <1>1, <1>4, SameSender
<1>8. n # 0
  BY MaxNonceAssumption DEF Nonces
<1>9. PushInv'
  BY <1>4, <1>5, <1>8 DEF DeliveryInv, PushInv
<1>10. SubmitInv'
  BY <1>1, <1>4, <1>5, Zenon DEF DeliveryInv, SubmitInv, Popped
<1>11. KeptAfter'
  BY <1>1, <1>5 DEF DeliveryInv, KeptAfter, Popped
<1> QED
  BY <1>2, <1>3, <1>6, <1>7, <1>9, <1>10, <1>11 DEF DeliveryInv

LEMMA HandlerPopInv ==
  ASSUME DeliveryInv, NEW n \in Nonces, HandlerPop(n)
  PROVE  DeliveryInv'
<1>1. /\ handler[n] = "pop" /\ handler' = [handler EXCEPT ![n] = "submit"]
      /\ UNCHANGED <<messageNonce, call, linkVars, flushing, connUp, jobs,
                     closeSignal, executing, dispatched>>
      /\ handler \in [Nonces -> HandlerState] /\ batch \in [Nonces -> Seq(Nonces)]
  BY DEF HandlerPop, DeliveryInv, TypeOK
<1>2. PICK k \in 0..Size : PopRun(k) /\ batch' = [batch EXCEPT ![n] = RangeResult(k)]
  BY Zenon DEF HandlerPop
<1> DEFINE r == RangeResult(k)
<1>3. /\ r \in Seq(Nonces) /\ Inj(r)
      /\ \A x : In(x, popped') <=> In(x, popped) \/ In(x, r)
      /\ \A x : ~(In(x, r) /\ In(x, popped))
  BY <1>2, PopElements DEF DeliveryInv
<1>4. WindowInv'
  BY <1>2, PopWindowInv DEF DeliveryInv
<1>5. UNCHANGED <<once, pushed, first, overrun>>
  BY <1>2 DEF PopRun
<1>6. /\ batch' \in [Nonces -> Seq(Nonces)] /\ batch'[n] = r
      /\ \A m \in Nonces : m # n => batch'[m] = batch[m]
  BY <1>1, <1>2, <1>3
<1> HIDE DEF r
<1>7. /\ handler' \in [Nonces -> HandlerState] /\ handler'[n] = "submit"
      /\ \A m \in Nonces : m # n => handler'[m] = handler[m]
  BY <1>1 DEF HandlerState
<1>8. batch[n] = <<>> /\ \A x : ~In(x, batch[n])
  BY <1>1, EmptyElements, Zenon DEF DeliveryInv, SubmitInv
<1>9. TypeOK'
  BY <1>1, <1>4, <1>6, <1>7 DEF DeliveryInv, TypeOK, WindowInv, linkVars
<1>10. LinkInv' /\ KeptBefore'
  BY <1>1, <1>7, SameSender, ZenonT(30)
<1>11. PushInv'
  BY <1>1, <1>5, <1>7, Zenon DEF DeliveryInv, PushInv
<1>12. \A x \in Nonces : Popped(x)' <=> Popped(x) \/ In(x, r)
  BY <1>1, <1>6, <1>8, ZenonT(30) DEF Popped
<1>13. \A x \in Nonces : In(x, r) => ~Popped(x)
  BY <1>3, ZenonT(30) DEF DeliveryInv, SubmitInv
<1>14. SubmitInv'
  <2>1. \A m \in Nonces : handler'[m] # "submit" => batch'[m] = <<>>
    BY <1>6, <1>7, Zenon DEF DeliveryInv, SubmitInv
  <2>2. ASSUME NEW m \in Nonces
        PROVE  Inj(batch'[m]) /\ Apart(batch'[m], jobs') /\ Apart(batch'[m], dispatched')
    <3>1. CASE m = n
      BY <3>1, <1>1, <1>3, <1>6, <1>13 DEF Apart, Popped
    <3>2. CASE m # n
      BY <3>2, <1>1, <1>6 DEF DeliveryInv, SubmitInv
    <3> QED BY <3>1, <3>2
  <2>3. ASSUME NEW m \in Nonces, NEW l \in Nonces, m # l
        PROVE  Apart(batch'[m], batch'[l])
    <3>1. CASE m = n
      BY <3>1, <2>3, <1>6, <1>13, Zenon DEF Apart, Popped
    <3>2. CASE l = n
      BY <3>2, <2>3, <1>6, <1>13, Zenon DEF Apart, Popped
    <3>3. CASE m # n /\ l # n
      BY <3>3, <2>3, <1>6, Zenon DEF DeliveryInv, SubmitInv
    <3> QED BY <3>1, <3>2, <3>3
  <2>4. Inj(jobs') /\ Inj(dispatched') /\ Apart(jobs', dispatched')
    BY <1>1 DEF DeliveryInv, SubmitInv
  <2>5. \A x \in Nonces : Popped(x)' => In(x, popped')
    BY <1>3, <1>12, Zenon DEF DeliveryInv, SubmitInv
  <2> QED BY <2>1, <2>2, <2>3, <2>4, <2>5, Zenon DEF SubmitInv
<1>15. KeptAfter'
  BY <1>1, <1>3, <1>12 DEF DeliveryInv, KeptAfter
<1> QED BY <1>4, <1>9, <1>10, <1>11, <1>14, <1>15 DEF DeliveryInv

LEMMA HandlerSubmitInv ==
  ASSUME DeliveryInv, NEW n \in Nonces, HandlerSubmit(n)
  PROVE  DeliveryInv'
<1> DEFINE h == Head(batch[n])
<1>1. /\ handler[n] = "submit" /\ batch[n] # <<>>
      /\ batch' = [batch EXCEPT ![n] = Tail(@)]
      /\ UNCHANGED <<windowVars, messageNonce, call, linkVars, flushing, connUp,
                     handler, closeSignal, executing, dispatched>>
      /\ batch \in [Nonces -> Seq(Nonces)]
      /\ jobs \in Seq(Nonces)
  BY DEF HandlerSubmit, DeliveryInv, TypeOK
<1>2. /\ h \in Nonces /\ Tail(batch[n]) \in Seq(Nonces)
      /\ \A y : In(y, batch[n]) <=> y = h \/ In(y, Tail(batch[n]))
      /\ Inj(Tail(batch[n])) /\ ~In(h, Tail(batch[n]))
  BY <1>1, TailElements DEF DeliveryInv, SubmitInv
<1>3. \/ Len(jobs) < JobQueueSize /\ jobs' = Append(jobs, h)
      \/ closeSignal /\ jobs' = jobs
  BY DEF HandlerSubmit
<1> HIDE DEF h
<1>4. /\ batch' \in [Nonces -> Seq(Nonces)] /\ batch'[n] = Tail(batch[n])
      /\ \A m \in Nonces : m # n => batch'[m] = batch[m]
  BY <1>1, <1>2
<1>5. In(h, batch[n]) /\ ~In(h, batch'[n]) /\ ~In(h, jobs) /\ ~In(h, dispatched)
  BY <1>2, <1>4, Zenon DEF DeliveryInv, SubmitInv, Apart
<1>6. \A m \in Nonces : ~In(h, batch'[m])
  BY <1>2, <1>4, <1>5, Zenon DEF DeliveryInv, SubmitInv, Apart
<1>7. \A m \in Nonces : \A x : In(x, batch'[m]) => In(x, batch[m]) /\ x # h
  BY <1>2, <1>4, <1>6, Zenon
<1>8. /\ jobs' \in Seq(Nonces) /\ Len(jobs') <= JobQueueSize /\ Inj(jobs')
      /\ \A y : In(y, jobs') => In(y, jobs) \/ y = h
      /\ \A y : In(y, jobs) => In(y, jobs')
      /\ closeSignal \/ In(h, jobs')
  <2>1. CASE Len(jobs) < JobQueueSize /\ jobs' = Append(jobs, h)
    <3>1. /\ Append(jobs, h) \in Seq(Nonces) /\ Len(Append(jobs, h)) = Len(jobs) + 1
          /\ \A y : In(y, Append(jobs, h)) <=> In(y, jobs) \/ y = h
          /\ Inj(Append(jobs, h))
      BY <1>1, <1>2, <1>5, AppendElements DEF DeliveryInv, SubmitInv
    <3>2. Len(jobs) + 1 <= JobQueueSize
      BY <2>1, <1>1, LenProperties, JobQueueAssumption
    <3> QED BY <3>1, <3>2, <2>1
  <2>2. CASE closeSignal /\ jobs' = jobs
    BY <2>2 DEF DeliveryInv, TypeOK, SubmitInv
  <2> QED BY <1>3, <2>1, <2>2
<1>9. TypeOK'
  BY <1>1, <1>4, <1>8, Zenon DEF DeliveryInv, TypeOK, windowVars, linkVars, WindowTypeOK
<1>10. WindowInv'
  BY <1>1, SameWindow DEF DeliveryInv
<1>11. LinkInv' /\ KeptBefore'
  BY <1>1, SameSender
<1>12. PushInv'
  BY <1>1 DEF DeliveryInv, PushInv, windowVars
<1>13. Popped(h)
  BY <1>5, Zenon DEF Popped
<1>14. \A x \in Nonces : Popped(x)' => Popped(x)
  BY <1>1, <1>7, <1>8, <1>13 DEF Popped
<1>15. SubmitInv'
  <2>1. \A m \in Nonces : handler'[m] # "submit" => batch'[m] = <<>>
    BY <1>1, <1>4 DEF DeliveryInv, SubmitInv
  <2>2. ASSUME NEW m \in Nonces
        PROVE  Inj(batch'[m]) /\ Apart(batch'[m], jobs') /\ Apart(batch'[m], dispatched')
    <3>1. Inj(batch'[m])
      BY <1>2, <1>4, Zenon DEF DeliveryInv, SubmitInv
    <3>2. ASSUME NEW x \in Nonces, In(x, batch'[m])
          PROVE  ~In(x, jobs') /\ ~In(x, dispatched')
      <4>1. In(x, batch[m]) /\ x # h
        BY <3>2, <1>7, Zenon
      <4>2. ~In(x, jobs) /\ ~In(x, dispatched)
        BY <4>1 DEF DeliveryInv, SubmitInv, Apart
      <4> QED BY <4>1, <4>2, <1>1, <1>8
    <3> QED BY <3>1, <3>2 DEF Apart
  <2>3. \A m, l \in Nonces : m # l => Apart(batch'[m], batch'[l])
    BY <1>7, ZenonT(30) DEF DeliveryInv, SubmitInv, Apart
  <2>4. Inj(jobs') /\ Inj(dispatched') /\ Apart(jobs', dispatched')
    BY <1>1, <1>5, <1>8 DEF DeliveryInv, SubmitInv, Apart
  <2>5. \A x \in Nonces : Popped(x)' => In(x, popped')
    BY <1>1, <1>14 DEF DeliveryInv, SubmitInv, windowVars
  <2> QED BY <2>1, <2>2, <2>3, <2>4, <2>5, Zenon DEF SubmitInv
<1>16. KeptAfter'
  <2>1. SUFFICES ASSUME ~closeSignal, NEW x \in Nonces, Popped(x) PROVE Popped(x)'
    BY <1>1 DEF DeliveryInv, KeptAfter, windowVars
  <2>2. CASE x = h
    BY <2>1, <2>2, <1>8 DEF Popped
  <2>3. CASE In(x, jobs) \/ In(x, dispatched)
    BY <2>3, <1>1, <1>8 DEF Popped
  <2>4. ASSUME NEW m \in Nonces, In(x, batch[m]), x # h PROVE Popped(x)'
    <3>1. In(x, batch'[m])
      BY <2>4, <1>2, <1>4, Zenon
    <3> QED BY <3>1 DEF Popped
  <2> QED BY <2>1, <2>2, <2>3, <2>4 DEF Popped
<1> QED BY <1>9, <1>10, <1>11, <1>12, <1>15, <1>16 DEF DeliveryInv

LEMMA HandlerDoneInv ==
  ASSUME DeliveryInv, NEW n \in Nonces, HandlerDone(n)
  PROVE  DeliveryInv'
<1>1. /\ handler[n] = "submit" /\ batch[n] = <<>>
      /\ handler' = [handler EXCEPT ![n] = "done"]
      /\ UNCHANGED <<windowVars, messageNonce, call, linkVars, flushing, connUp,
                     batch, jobs, closeSignal, executing, dispatched>>
      /\ handler \in [Nonces -> HandlerState]
  BY DEF HandlerDone, DeliveryInv, TypeOK
<1>2. /\ handler' \in [Nonces -> HandlerState] /\ handler'[n] = "done"
      /\ \A m \in Nonces : m # n => handler'[m] = handler[m]
  BY <1>1 DEF HandlerState
<1>3. TypeOK'
  BY <1>1, <1>2 DEF DeliveryInv, TypeOK, windowVars, linkVars, WindowTypeOK
<1>4. WindowInv'
  BY <1>1, SameWindow DEF DeliveryInv
<1>5. LinkInv' /\ KeptBefore'
  BY <1>1, <1>2, SameSender
<1>6. PushInv'
  BY <1>1, <1>2 DEF DeliveryInv, PushInv, windowVars
<1>7. SubmitInv'
  BY <1>1, <1>2, ZenonT(30) DEF DeliveryInv, SubmitInv, Popped, windowVars
<1>8. KeptAfter'
  BY <1>1 DEF DeliveryInv, KeptAfter, Popped, windowVars
<1> QED BY <1>3, <1>4, <1>5, <1>6, <1>7, <1>8 DEF DeliveryInv

LEMMA ExecuteInv ==
  ASSUME DeliveryInv, Execute
  PROVE  DeliveryInv'
<1> DEFINE h == Head(jobs)
<1>1. /\ jobs # <<>> /\ jobs' = Tail(jobs) /\ dispatched' = Append(dispatched, h)
      /\ UNCHANGED <<windowVars, messageNonce, call, linkVars, flushing, connUp,
                     handler, batch, closeSignal, executing>>
      /\ jobs \in Seq(Nonces) /\ Len(jobs) <= JobQueueSize /\ dispatched \in Seq(Nonces)
  BY DEF Execute, DeliveryInv, TypeOK
<1>2. /\ h \in Nonces /\ jobs' \in Seq(Nonces) /\ Len(jobs') = Len(jobs) - 1
      /\ \A y : In(y, jobs) <=> y = h \/ In(y, jobs')
      /\ Inj(jobs') /\ ~In(h, jobs')
  BY <1>1, TailElements DEF DeliveryInv, SubmitInv
<1> HIDE DEF h
<1>3. Len(jobs') <= JobQueueSize
  BY <1>1, <1>2, LenProperties, JobQueueAssumption
<1>4. ~In(h, dispatched) /\ \A m \in Nonces : ~In(h, batch[m])
  BY <1>2, ZenonT(30) DEF DeliveryInv, SubmitInv, Apart
<1>5. /\ dispatched' \in Seq(Nonces) /\ Inj(dispatched')
      /\ \A y : In(y, dispatched') <=> In(y, dispatched) \/ y = h
  BY <1>1, <1>2, <1>4, AppendElements, ZenonT(30) DEF DeliveryInv, SubmitInv
<1>6. TypeOK'
  BY <1>1, <1>2, <1>3, <1>5
  DEF DeliveryInv, TypeOK, windowVars, linkVars, WindowTypeOK
<1>7. WindowInv'
  BY <1>1, SameWindow DEF DeliveryInv
<1>8. LinkInv' /\ KeptBefore'
  BY <1>1, SameSender
<1>9. PushInv'
  BY <1>1 DEF DeliveryInv, PushInv, windowVars
<1>10. \A x \in Nonces : Popped(x)' <=> Popped(x)
  BY <1>1, <1>2, <1>5 DEF Popped
<1>11. SubmitInv'
  <2>1. \A m \in Nonces : handler'[m] # "submit" => batch'[m] = <<>>
    BY <1>1, ZenonT(30) DEF DeliveryInv, SubmitInv
  <2>2. \A m \in Nonces : /\ Inj(batch'[m])
                          /\ Apart(batch'[m], jobs') /\ Apart(batch'[m], dispatched')
    BY <1>1, <1>2, <1>4, <1>5, ZenonT(30) DEF DeliveryInv, SubmitInv, Apart
  <2>3. \A m, l \in Nonces : m # l => Apart(batch'[m], batch'[l])
    BY <1>1, ZenonT(30) DEF DeliveryInv, SubmitInv
  <2>4. Inj(jobs') /\ Inj(dispatched') /\ Apart(jobs', dispatched')
    BY <1>2, <1>5, ZenonT(30) DEF DeliveryInv, SubmitInv, Apart
  <2>5. \A x \in Nonces : Popped(x)' => In(x, popped')
    BY <1>1, <1>10, Zenon DEF DeliveryInv, SubmitInv, windowVars
  <2> QED BY <2>1, <2>2, <2>3, <2>4, <2>5, ZenonT(30) DEF SubmitInv
<1>12. KeptAfter'
  BY <1>1, <1>10 DEF DeliveryInv, KeptAfter, windowVars
<1> QED BY <1>6, <1>7, <1>8, <1>9, <1>11, <1>12 DEF DeliveryInv

(* Every step keeps the invariant. *)
LEMMA NextDeliveryInv == DeliveryInv /\ [Next]_vars => DeliveryInv'
<1> SUFFICES ASSUME DeliveryInv, [Next]_vars PROVE DeliveryInv'
  OBVIOUS
<1>1. flushing \in BOOLEAN /\ executing \in BOOLEAN /\ closeSignal \in BOOLEAN
  BY DEF DeliveryInv, TypeOK
<1>2. CASE Kill
  BY <1>1, <1>2, SwitchInv, Zenon DEF Kill, receiverVars
<1>3. CASE ExecutorReturns
  BY <1>1, <1>3, SwitchInv, Zenon DEF ExecutorReturns
<1>4. CASE CloseClient
  BY <1>1, <1>4, SwitchInv DEF CloseClient
<1>5. CASE UNCHANGED vars
  BY <1>1, <1>5, SwitchInv DEF vars, receiverVars
<1>6. ASSUME NEW n \in Nonces, Handler(n) PROVE DeliveryInv'
  BY <1>6, HandlerPushInv, HandlerPopInv, HandlerSubmitInv, HandlerDoneInv DEF Handler
<1> QED
  BY <1>2, <1>3, <1>4, <1>5, <1>6, TakeNonceInv, SendMessageInv, FlushLoopInv,
     BreakInv, ReceiveInv, ExecuteInv
  DEF Next

LEMMA DeliveryInvAlways == Spec => []DeliveryInv
BY InitDeliveryInv, NextDeliveryInv, PTL DEF Spec

----------------------------------------------------------------------------
(* What the invariant says of the copies of a message *)

(* The stages of a message exclude each other. *)
LEMMA StagesExclude ==
  ASSUME DeliveryInv, NEW n \in Nonces
  PROVE  /\ call[n] = "send" => ~OnLink(n) /\ handler[n] = "none"
         /\ OnLink(n) => handler[n] = "none"
         /\ ~(In(n, writer.frames) /\ In(n, wire))
         /\ handler[n] \in {"none", "push"} => ~In(n, buf) /\ ~Popped(n)
         /\ In(n, buf) => ~Popped(n)
<1>1. n # Nil /\ buf \in [Slots -> Nonces \cup {Nil}] /\ popped \in Seq(Nonces)
  BY NilAssumption, MaxNonceAssumption
  DEF Nonces, DeliveryInv, WindowInv, WindowTypeOK
<1>2. DOMAIN popped = 1..Len(popped)
  BY <1>1, LenProperties
<1>3. In(n, buf) => n \in pushed
  BY <1>1 DEF In, DeliveryInv, WindowInv, SlotsHoldPushed
<1>4. In(n, popped) => n \in pushed
  BY <1>2 DEF In, DeliveryInv, WindowInv, PoppedWasPushed
<1>5. In(n, buf) => ~In(n, popped)
  BY <1>1, <1>2 DEF In, DeliveryInv, WindowInv, SlotsNotPopped
<1>6. Popped(n) => In(n, popped)
  BY DEF DeliveryInv, SubmitInv
<1>7. n \in pushed => handler[n] \notin {"none", "push"}
  BY DEF DeliveryInv, PushInv
<1> QED BY <1>3, <1>4, <1>5, <1>6, <1>7 DEF DeliveryInv, LinkInv, LinkOK, Apart

(* A message has one slot of the window. *)
LEMMA OneSlot ==
  ASSUME DeliveryInv, NEW n \in Nonces, NEW i \in Positions(buf, n),
         NEW j \in Positions(buf, n)
  PROVE  i = j
<1>1. n # Nil /\ buf \in [Slots -> Nonces \cup {Nil}]
  BY NilAssumption, MaxNonceAssumption DEF Nonces, DeliveryInv, WindowInv, WindowTypeOK
<1> QED BY <1>1 DEF Positions, DeliveryInv, WindowInv, SlotsHoldPushed

(* Two positions of a message in a sequence without repetition are one. *)
LEMMA OnePosition ==
  ASSUME NEW place, NEW s, NEW n, Inj(s), NEW a \in At(place, s, n), NEW b \in At(place, s, n)
  PROVE  a = b /\ In(n, s)
BY DEF At, Positions, In, Inj

LEMMA OneBatch ==
  ASSUME DeliveryInv, NEW n \in Nonces, NEW a \in InBatch(n), NEW b \in InBatch(n)
  PROVE  a = b /\ \E m \in Nonces : In(n, batch[m])
<1>1. PICK m \in Nonces : \E i \in Positions(batch[m], n) : a = <<"batch", m, i>>
  BY DEF InBatch
<1>2. PICK i \in Positions(batch[m], n) : a = <<"batch", m, i>>
  BY <1>1
<1>3. PICK l \in Nonces : \E j \in Positions(batch[l], n) : b = <<"batch", l, j>>
  BY DEF InBatch
<1>4. PICK j \in Positions(batch[l], n) : b = <<"batch", l, j>>
  BY <1>3
<1>5. /\ i \in DOMAIN batch[m] /\ batch[m][i] = n
      /\ j \in DOMAIN batch[l] /\ batch[l][j] = n
  BY DEF Positions
<1>6. In(n, batch[m]) /\ In(n, batch[l])
  BY <1>5 DEF In
<1>7. m = l
  BY <1>6, ZenonT(30) DEF DeliveryInv, SubmitInv, Apart
<1>8. i = j
  BY <1>5, <1>7, ZenonT(30) DEF DeliveryInv, SubmitInv, Inj
<1> QED BY <1>2, <1>4, <1>6, <1>7, <1>8

(* The sets that make up Copies have one element at most, and all but one  *)
(* of them are empty.                                                      *)
LEMMA OneCopy ==
  ASSUME DeliveryInv, NEW n \in Nonces, NEW x \in Copies(n), NEW y \in Copies(n)
  PROVE  x = y
<1>1. \A a, b \in InCall(n) : a = b /\ call[n] = "send"
  BY DEF InCall
<1>2. \A a, b \in At("writer", writer.frames, n) : a = b /\ In(n, writer.frames)
  BY OnePosition DEF DeliveryInv, LinkInv, LinkOK
<1>3. \A a, b \in At("wire", wire, n) : a = b /\ In(n, wire)
  BY OnePosition DEF DeliveryInv, LinkInv, LinkOK
<1>4. \A a, b \in InHandler(n) : a = b /\ handler[n] = "push"
  BY DEF InHandler
<1>5. \A a, b \in At("window", buf, n) : a = b /\ In(n, buf)
  <2>1. \A i \in Positions(buf, n) : In(n, buf)
    BY DEF Positions, In
  <2> QED BY <2>1, OneSlot, Zenon DEF At
<1>6. \A a, b \in InBatch(n) : a = b /\ \E m \in Nonces : In(n, batch[m])
  BY OneBatch
<1>7. \A a, b \in At("jobs", jobs, n) : a = b /\ In(n, jobs)
  BY OnePosition, ZenonT(30) DEF DeliveryInv, SubmitInv
<1>8. \A a, b \in At("dispatched", dispatched, n) : a = b /\ In(n, dispatched)
  BY OnePosition, ZenonT(30) DEF DeliveryInv, SubmitInv
<1>9. /\ ~(In(n, jobs) /\ In(n, dispatched))
      /\ \A m \in Nonces : In(n, batch[m]) => ~In(n, jobs) /\ ~In(n, dispatched)
  BY Zenon DEF DeliveryInv, SubmitInv, Apart
<1> QED
  BY <1>1, <1>2, <1>3, <1>4, <1>5, <1>6, <1>7, <1>8, <1>9, StagesExclude, Zenon
  DEF Copies, OnLink, Popped

LEMMA CopiesCounted == DeliveryInv => NeverDuplicated
<1> SUFFICES ASSUME DeliveryInv, NEW n \in Nonces, NEW a \in Copies(n), NEW b \in Copies(n)
             PROVE  a = b
  BY DEF NeverDuplicated
<1>1. Copies(n) = {a}
  BY OneCopy
<1> QED BY <1>1

(* What has a place has a copy. *)
LEMMA CopyThere ==
  ASSUME NEW n \in Nonces,
         call[n] = "send" \/ OnLink(n) \/ handler[n] = "push" \/ In(n, buf) \/ Popped(n)
  PROVE  Copies(n) # {}
<1>1. call[n] = "send" => InCall(n) # {}
  BY Zenon DEF InCall
<1>2. handler[n] = "push" => InHandler(n) # {}
  BY DEF InHandler
<1>3. ASSUME NEW place, NEW s, In(n, s) PROVE At(place, s, n) # {}
  BY <1>3, Zenon DEF In, At, Positions
<1>4. ASSUME NEW m \in Nonces, In(n, batch[m]) PROVE InBatch(n) # {}
  <2>1. PICK i \in Positions(batch[m], n) : TRUE
    BY <1>4 DEF In, Positions
  <2>2. <<"batch", m, i>> \in {<<"batch", m, j>> : j \in Positions(batch[m], n)}
    OBVIOUS
  <2>3. {<<"batch", m, j>> : j \in Positions(batch[m], n)} \subseteq InBatch(n)
    BY DEF InBatch
  <2> QED BY <2>2, <2>3, Zenon
<1>5. OnLink(n) => At("writer", writer.frames, n) # {} \/ At("wire", wire, n) # {}
  BY <1>3, Zenon DEF OnLink
<1>6. In(n, buf) => At("window", buf, n) # {}
  BY <1>3
<1>7. Popped(n) => \/ InBatch(n) # {} \/ At("jobs", jobs, n) # {}
                   \/ At("dispatched", dispatched, n) # {}
  BY <1>3, <1>4, Zenon DEF Popped
<1> QED BY <1>1, <1>2, <1>5, <1>6, <1>7, ZenonT(30) DEF Copies

LEMMA CopiesKept == DeliveryInv => LossHasACause
<1> SUFFICES ASSUME DeliveryInv, NEW n \in 1..messageNonce,
                    connUp, writer.err = "nil", ~closeSignal, ~Misaligned
             PROVE  Copies(n) # {}
  BY DEF LossHasACause
<1>1. n \in Nonces /\ n \in Nat /\ n <= messageNonce
  BY MaxNonceAssumption DEF DeliveryInv, TypeOK, Nonces
<1>2. call[n] = "send" \/ OnLink(n) \/ handler[n] # "none"
  BY <1>1 DEF DeliveryInv, KeptBefore
<1>3. ASSUME handler[n] \notin {"none", "push"} PROVE In(n, buf) \/ Popped(n)
  <2>1. n \in pushed
    BY <1>1, <1>3 DEF DeliveryInv, PushInv
  <2>2. first # 0 /\ first \in Nonces \cup {0} /\ ~(first > 1) /\ ~overrun
    BY <2>1
    DEF DeliveryInv, PushInv, WindowInv, NotStarted, WindowTypeOK, Misaligned
  <2>3. Aligned
    BY <2>2, MaxNonceAssumption DEF Aligned, Nonces
  <2>4. CASE buf[Idx(n)] = n
    <3>1. Idx(n) \in DOMAIN buf
      BY <1>1, IdxDivision DEF DeliveryInv, WindowInv, WindowTypeOK
    <3> QED BY <2>4, <3>1 DEF In
  <2>5. CASE n <= Len(popped)
    <3>1. popped \in Seq(Nonces) /\ n \in 1..Len(popped)
      BY <2>5, <1>1, LenProperties DEF DeliveryInv, WindowInv, WindowTypeOK, Nonces
    <3>2. n \in DOMAIN popped /\ popped[n] = n
      BY <2>3, <3>1, LenProperties DEF DeliveryInv, WindowInv, PoppedInOrder
    <3>3. In(n, popped)
      BY <3>2 DEF In
    <3> QED BY <3>3, <1>1 DEF DeliveryInv, KeptAfter
  <2> QED BY <2>1, <2>3, <2>4, <2>5 DEF DeliveryInv, WindowInv, NothingLost
<1> QED BY <1>1, <1>2, <1>3, CopyThere

----------------------------------------------------------------------------
(***************************************************************************)
(* The types of the sender's, the link's and the receiver's state hold for *)
(* every number of messages and every size of window, buffer and queue; in *)
(* particular the job queue never exceeds its capacity and the buffer its  *)
(* size.                                                                   *)
(***************************************************************************)
THEOREM DeliveryTypeCorrect == Spec => []TypeOK
<1>1. DeliveryInv => TypeOK
  BY DEF DeliveryInv
<1> QED BY <1>1, DeliveryInvAlways, PTL

(***************************************************************************)
(* A message is in one place at a time on its way from Write to            *)
(* dispatchMessage and is never dispatched twice, however the goroutines   *)
(* of Accept interleave and however writes fail.                           *)
(***************************************************************************)
THEOREM DeliveredAtMostOnce == Spec => []NeverDuplicated
BY CopiesCounted, DeliveryInvAlways, PTL

(***************************************************************************)
(* A message disappears only with a broken connection, a failed writer, a  *)
(* closed client or a misaligned window: no interleaving of Write,         *)
(* flushLoop, Accept's goroutines and executeJobs loses one by itself.     *)
(***************************************************************************)
THEOREM LossesHaveACause == Spec => []LossHasACause
BY CopiesKept, DeliveryInvAlways, PTL

(***************************************************************************)
(* Accept's goroutines use the window as RecvWindow specifies it: none     *)
(* pushes a nonce that was pushed before.                                  *)
(***************************************************************************)
THEOREM UsesWindowAsSpecified == Spec => WindowSpec
<1>1. Init => WindowInit
  BY DEF Init
<1>2. ASSUME DeliveryInv, [Next]_vars PROVE [WindowNext]_windowVars
  <2>1. ASSUME NEW n \in Nonces, HandlerPush(n) PROVE WindowNext
    BY <1>2, <2>1, HandlerPushInv, Zenon DEF HandlerPush, WindowNext
  <2>2. ASSUME NEW n \in Nonces, HandlerPop(n) PROVE WindowNext
    BY <2>2 DEF HandlerPop, WindowNext, Pop
  <2>3. ASSUME NEW n \in Nonces,
               SendMessage(n) \/ HandlerSubmit(n) \/ HandlerDone(n)
        PROVE  UNCHANGED windowVars
    BY <2>3 DEF SendMessage, HandlerSubmit, HandlerDone
  <2>4. ASSUME \/ TakeNonce \/ FlushLoop \/ Kill \/ Break \/ Receive \/ Execute
               \/ ExecutorReturns \/ CloseClient
        PROVE  UNCHANGED windowVars
    BY <2>4, Zenon
    DEF TakeNonce, FlushLoop, Kill, Break, Receive, Execute, ExecutorReturns, CloseClient
  <2>5. ASSUME UNCHANGED vars PROVE UNCHANGED windowVars
    BY <2>5 DEF vars
  <2> QED BY <1>2, <2>1, <2>2, <2>3, <2>4, <2>5 DEF Next, Handler
<1> QED BY <1>1, <1>2, DeliveryInvAlways, PTL DEF Spec, WindowSpec
=============================================================================
