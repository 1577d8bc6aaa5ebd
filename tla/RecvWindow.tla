----------------------------- MODULE RecvWindow -----------------------------
(***************************************************************************)
(* The receive window of one connection (network/recv_window.go): a ring   *)
(* of Size slots in which messages are put under their nonce, in any       *)
(* order, and taken out as the run of filled slots that starts at          *)
(* lastNonce.                                                              *)
(*                                                                         *)
(* Network.Write gives every message of a connection a nonce of its own    *)
(* (1, 2, 3 ...), so the message is identified with its nonce: buf holds   *)
(* nonces.  Push and Pop each run under the window's mutex and are one     *)
(* action each; the goroutines that call them are in module Delivery.      *)
(*                                                                         *)
(* pushed, popped, first and overrun are history: they record what the     *)
(* callers did and saw, and no action of the code depends on them.         *)
(***************************************************************************)
EXTENDS Naturals, Sequences

CONSTANTS
  Size,        \* number of slots (RecvWindow.size; 4096 by default)
  MaxNonce,    \* bound: messages sent over the connection
  Nil          \* Go's nil in an empty slot

ASSUME SizeAssumption == Size \in Nat \ {0}
ASSUME MaxNonceAssumption == MaxNonce \in Nat
ASSUME NilAssumption == Nil \notin Nat

VARIABLES
  lastNonce,   \* where the next run starts; Range keeps it modulo Size
  buf,         \* the slots
  once,        \* has the sync.Once run: was there a first Push?
  pushed,      \* history: every nonce pushed so far
  popped,      \* history: every nonce popped so far, in the order of the pops
  first,       \* history: the nonce of the first Push, 0 before it
  overrun      \* history: was a nonce pushed Size or more past the next one?

windowVars == <<lastNonce, buf, once, pushed, popped, first, overrun>>

Nonces == 1..MaxNonce
Slots == 0..(Size - 1)

WindowTypeOK ==
  /\ lastNonce \in Nat
  /\ buf \in [Slots -> Nonces \cup {Nil}]
  /\ once \in BOOLEAN
  /\ pushed \in SUBSET Nonces
  /\ popped \in Seq(Nonces)
  /\ first \in Nonces \cup {0}
  /\ overrun \in BOOLEAN

WindowInit ==
  /\ lastNonce = 0
  /\ buf = [j \in Slots |-> Nil]
  /\ once = FALSE
  /\ pushed = {}
  /\ popped = <<>>
  /\ first = 0
  /\ overrun = FALSE

Idx(id) == id % Size

----------------------------------------------------------------------------
(* Faulty variants, for checking that the properties notice them. *)

PushOnceDropped(nonce) ==
  /\ lastNonce' = lastNonce
  /\ buf' = [buf EXCEPT ![Idx(nonce)] = nonce]
  /\ once' = TRUE
  /\ pushed' = pushed \cup {nonce}
  /\ first' = IF once THEN first ELSE nonce
  /\ overrun' = (overrun \/ nonce > Len(popped) + Size)
  /\ UNCHANGED popped

AdvancePastFullWindow(k) == Idx(lastNonce + k + 1)

KeepSlots(k) == buf

ClearRing(k) == [j \in Slots |-> Nil]

AnySlot(id, v) == TRUE

StopOneEarly(k) ==
  /\ \A i \in 0..(k - 1) : buf[Idx(lastNonce + i)] # Nil
  /\ k < Size - 1 => buf[Idx(lastNonce + k)] = Nil

----------------------------------------------------------------------------
(***************************************************************************)
(* Push: the first nonce pushed is where the window starts, whichever      *)
(* message of the connection that is; the slot is overwritten whatever it  *)
(* holds.                                                                  *)
(***************************************************************************)
Push(nonce) ==
  /\ lastNonce' = IF once THEN lastNonce ELSE nonce
  /\ buf' = [buf EXCEPT ![Idx(nonce)] = nonce]
  /\ once' = TRUE
  /\ pushed' = pushed \cup {nonce}
  /\ first' = IF once THEN first ELSE nonce
  /\ overrun' = (overrun \/ nonce > Len(popped) + Size)
  /\ UNCHANGED popped

(* The function that Pop calls Range with. *)
NotNil(id, v) == v # Nil

(* Range's loop leaves after k slots: the function accepted the first k,   *)
(* and refused the next one unless the loop went round the whole ring.     *)
RangeStops(k) ==
  /\ \A i \in 0..(k - 1) : NotNil(lastNonce + i, buf[Idx(lastNonce + i)])
  /\ k < Size => ~ NotNil(lastNonce + k, buf[Idx(lastNonce + k)])

(* lastNonce is assigned, as a slot number, only where the loop breaks. *)
RangeLast(k) == IF k < Size THEN Idx(lastNonce + k) ELSE lastNonce

RangeBuf(k) ==
  [j \in Slots |->
     IF \E i \in 0..(k - 1) : j = Idx(lastNonce + i) THEN Nil ELSE buf[j]]

RangeResult(k) == [i \in 1..k |-> buf[Idx(lastNonce + (i - 1))]]

(* Pop takes the run of filled slots; k is determined by the state. *)
PopRun(k) ==
  /\ RangeStops(k)
  /\ lastNonce' = RangeLast(k)
  /\ buf' = RangeBuf(k)
  /\ popped' = popped \o RangeResult(k)
  /\ UNCHANGED <<once, pushed, first, overrun>>

Pop == \E k \in 0..Size : PopRun(k)

(* The callers push every nonce once and may pop at any time. *)
WindowNext ==
  \/ \E nonce \in Nonces \ pushed : Push(nonce)
  \/ Pop

WindowSpec == WindowInit /\ [][WindowNext]_windowVars

----------------------------------------------------------------------------
(* The condition under which the window promises order: the first Push was *)
(* the connection's first message, and no Push was a whole ring ahead.     *)
Aligned == first = 1 /\ ~overrun

(***************************************************************************)
(* No message leaves the window twice, whatever the order of the pushes    *)
(* (Range sets every slot it returns to nil).                              *)
(***************************************************************************)
PoppedAtMostOnce ==
  \A i, j \in 1..Len(popped) : popped[i] = popped[j] => i = j

(***************************************************************************)
(* An aligned window hands out 1, 2, 3 ... without a gap: the arithmetic   *)
(* of Range (slot numbers modulo Size, lastNonce kept modulo Size and left *)
(* alone when the ring was full) is that of an unbounded queue.            *)
(***************************************************************************)
PoppedInOrder == Aligned => \A i \in 1..Len(popped) : popped[i] = i

(***************************************************************************)
(* An aligned window loses nothing: a message pushed and not yet popped is *)
(* in its slot.                                                            *)
(***************************************************************************)
NothingLost ==
  Aligned => \A n \in pushed : n <= Len(popped) \/ buf[Idx(n)] = n

(***************************************************************************)
(* A Pop leaves no message behind that it could have returned: after it    *)
(* the message that is next in line has not been pushed yet.               *)
(***************************************************************************)
PopIsMaximal ==
  [][(Pop /\ first = 1 /\ ~overrun) => Len(popped') + 1 \notin pushed]_windowVars
=============================================================================
