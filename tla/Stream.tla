------------------------------- MODULE Stream -------------------------------
(***************************************************************************)
(* The byte stream of a PeerClient: handleBytes, called by the executor    *)
(* for every message with Bytes, and Read, Write, the deadlines and Close  *)
(* of net.Conn, called by any goroutines.                                  *)
(*                                                                         *)
(* StreamState.buffered is a channel without room: the executor's send     *)
(* succeeds only if a reader stands in its select at that moment.  Whether *)
(* and in which order packets reach the executor is the subject of module  *)
(* Delivery.                                                               *)
(***************************************************************************)
EXTENDS Naturals, Sequences, FiniteSets

CONSTANTS
  Bytes,        \* bytes
  Packets,      \* the packets that may come in, sequences of bytes
  Readers,      \* goroutines that call Read
  Sizes,        \* lengths of the slices that each of them reads into
  Deadlines,    \* the times that deadlines may be set to; 0 is the zero time
  MaxTime,      \* bound: the clock
  MaxPackets    \* bound: packets that come in

ASSUME StreamAssumption ==
  /\ Packets \subseteq Seq(Bytes)
  /\ Sizes \in [Readers -> SUBSET Nat] /\ Deadlines \subseteq Nat
  /\ MaxTime \in Nat \ {0} /\ MaxPackets \in Nat

VARIABLES
  buffer,         \* StreamState.buffer
  isClosed,       \* StreamState.isClosed
  readDeadline,   \* StreamState.readDeadline
  writeDeadline,  \* StreamState.writeDeadline
  now,            \* time.Now()
  executor,       \* handleBytes: idle, or about to signal an empty buffer
  pc,             \* where each Read stands
  size,           \* its len(out)
  copied,         \* its n
  sawClosed,      \* its isClosed
  sawDeadline,    \* its readDeadline
  writing,        \* Write: idle, or past the check of its deadline
  packets,        \* bound: packets that came in
  received,       \* history: all bytes that handleBytes was given
  taken,          \* history: all bytes copied out of the buffer
  inHand,         \* history: the places in taken of the bytes each Read holds
  returned        \* history: the places in taken of the bytes reported

streamVars == <<buffer, isClosed, readDeadline, writeDeadline, now>>
readVars == <<pc, size, copied, sawClosed, sawDeadline, inHand, returned>>
vars == <<streamVars, readVars, executor, writing, packets, received, taken>>

TypeOK ==
  /\ buffer \in Seq(Bytes) /\ received \in Seq(Bytes) /\ taken \in Seq(Bytes)
  /\ isClosed \in {"open", "closed"}
  /\ readDeadline \in Deadlines \cup {0}
  /\ writeDeadline \in Deadlines \cup {0}
  /\ now \in 1..MaxTime
  /\ executor \in {"idle", "signal"}
  /\ pc \in [Readers -> {"idle", "copy", "check", "wait"}]
  /\ size \in [Readers -> Nat]
  /\ copied \in [Readers -> Nat]
  /\ sawClosed \in [Readers -> {"open", "closed"}]
  /\ sawDeadline \in [Readers -> Deadlines \cup {0}]
  /\ writing \in {"idle", "tell"}
  /\ packets \in 0..MaxPackets
  /\ inHand \in [Readers -> SUBSET Nat]
  /\ returned \subseteq Nat

(* createPeerClient *)
Init ==
  /\ buffer = <<>>
  /\ isClosed = "open"
  /\ readDeadline = 0 /\ writeDeadline = 0
  /\ now = 1
  /\ executor = "idle"
  /\ pc = [r \in Readers |-> "idle"]
  /\ size = [r \in Readers |-> 0]
  /\ copied = [r \in Readers |-> 0]
  /\ sawClosed = [r \in Readers |-> "open"]
  /\ sawDeadline = [r \in Readers |-> 0]
  /\ writing = "idle"
  /\ packets = 0
  /\ received = <<>> /\ taken = <<>>
  /\ inHand = [r \in Readers |-> {}]
  /\ returned = {}

Step(r, here, there) == pc[r] = here /\ pc' = [pc EXCEPT ![r] = there]

(* The local variables of an iteration are gone. *)
Forget(r) ==
  /\ copied' = [copied EXCEPT ![r] = 0]
  /\ sawClosed' = [sawClosed EXCEPT ![r] = "open"]
  /\ sawDeadline' = [sawDeadline EXCEPT ![r] = 0]
  /\ inHand' = [inHand EXCEPT ![r] = {}]

Passed(deadline) == deadline # 0 /\ now > deadline
----------------------------------------------------------------------------
(* Faulty variants, for checking that the properties notice them. *)

(* The first bytes stay in the buffer. *)
CopyAndKeep(r) ==
  LET n == IF size[r] < Len(buffer) THEN size[r] ELSE Len(buffer)
  IN  /\ Step(r, "copy", "check")
      /\ copied' = [copied EXCEPT ![r] = n]
      /\ taken' = taken \o SubSeq(buffer, 1, n)
      /\ sawClosed' = [sawClosed EXCEPT ![r] = isClosed]
      /\ sawDeadline' = [sawDeadline EXCEPT ![r] = readDeadline]
      /\ inHand' = [inHand EXCEPT ![r] = Len(taken) + 1 .. Len(taken) + n]
      /\ UNCHANGED <<streamVars, size, returned, executor, writing, packets,
                     received>>

(* A Read that fails reports no bytes. *)
ReturnNothing(r) ==
  /\ Step(r, "check", "idle")
  /\ sawClosed[r] = "closed" \/ Passed(sawDeadline[r]) \/ copied[r] # 0
  /\ returned' = IF sawClosed[r] = "closed" \/ Passed(sawDeadline[r])
                   THEN returned ELSE returned \cup inHand[r]
  /\ Forget(r) /\ size' = [size EXCEPT ![r] = 0]
  /\ UNCHANGED <<streamVars, executor, writing, packets, received, taken>>

(* The select has no timeout. *)
NoTimeout(r) ==
  /\ Step(r, "wait", "copy")
  /\ now > MaxTime
  /\ UNCHANGED <<streamVars, size, copied, sawClosed, sawDeadline, inHand, returned,
                 executor, writing, packets, received, taken>>

----------------------------------------------------------------------------
(* handleBytes *)

AppendBytes(pkt) ==
  /\ executor = "idle"
  /\ packets < MaxPackets /\ packets' = packets + 1
  /\ buffer' = buffer \o pkt
  /\ received' = received \o pkt
  /\ executor' = IF buffer = <<>> THEN "signal" ELSE "idle"
  /\ UNCHANGED <<isClosed, readDeadline, writeDeadline, now, readVars, writing,
                 taken>>

(* The send on buffered goes to one of the readers in the select ... *)
Signal(r) ==
  /\ executor = "signal"
  /\ Step(r, "wait", "copy")
  /\ executor' = "idle"
  /\ UNCHANGED <<streamVars, size, copied, sawClosed, sawDeadline, inHand, returned,
                 writing, packets, received, taken>>

(* ... or to nobody. *)
SignalNobody ==
  /\ executor = "signal"
  /\ \A r \in Readers : pc[r] # "wait"
  /\ executor' = "idle"
  /\ UNCHANGED <<streamVars, readVars, writing, packets, received, taken>>

----------------------------------------------------------------------------
(* Read *)

Read(r, n) ==
  /\ Step(r, "idle", "copy")
  /\ size' = [size EXCEPT ![r] = n]
  /\ UNCHANGED <<streamVars, copied, sawClosed, sawDeadline, inHand, returned, executor,
                 writing, packets, received, taken>>

(* Under the lock. *)
Copy(r) ==
  LET n == IF size[r] < Len(buffer) THEN size[r] ELSE Len(buffer)
  IN  /\ Step(r, "copy", "check")
      /\ copied' = [copied EXCEPT ![r] = n]
      /\ taken' = taken \o SubSeq(buffer, 1, n)
      /\ buffer' = SubSeq(buffer, n + 1, Len(buffer))
      /\ sawClosed' = [sawClosed EXCEPT ![r] = isClosed]
      /\ sawDeadline' = [sawDeadline EXCEPT ![r] = readDeadline]
      /\ inHand' = [inHand EXCEPT ![r] = Len(taken) + 1 .. Len(taken) + n]
      /\ UNCHANGED <<isClosed, readDeadline, writeDeadline, now, size, returned,
                     executor, writing, packets, received>>

(* What was copied is returned, with an error if the stream was closed or *)
(* the deadline is over.                                                  *)
Return(r) ==
  /\ Step(r, "check", "idle")
  /\ sawClosed[r] = "closed" \/ Passed(sawDeadline[r]) \/ copied[r] # 0
  /\ returned' = returned \cup inHand[r]
  /\ Forget(r) /\ size' = [size EXCEPT ![r] = 0]
  /\ UNCHANGED <<streamVars, executor, writing, packets, received, taken>>

Select(r) ==
  /\ Step(r, "check", "wait")
  /\ sawClosed[r] = "open" /\ ~Passed(sawDeadline[r]) /\ copied[r] = 0
  /\ Forget(r)
  /\ UNCHANGED <<streamVars, size, returned, executor, writing, packets, received,
                 taken>>

(* time.After(1 * time.Second) *)
Timeout(r) ==
  /\ Step(r, "wait", "copy")
  /\ UNCHANGED <<streamVars, size, copied, sawClosed, sawDeadline, inHand, returned,
                 executor, writing, packets, received, taken>>

----------------------------------------------------------------------------
(* Write reads its deadline under the lock, and tells the peer if it is not *)
(* over; whether Tell succeeds or not changes nothing here.                 *)
Write ==
  /\ writing = "idle"
  /\ writing' = IF Passed(writeDeadline) THEN "idle" ELSE "tell"
  /\ UNCHANGED <<streamVars, readVars, executor, packets, received, taken>>

Tell ==
  /\ writing = "tell"
  /\ writing' = "idle"
  /\ UNCHANGED <<streamVars, readVars, executor, packets, received, taken>>

SetDeadline(t) ==
  /\ readDeadline' = t /\ writeDeadline' = t
  /\ UNCHANGED <<buffer, isClosed, now, readVars, executor, writing, packets,
                 received, taken>>

SetReadDeadline(t) ==
  /\ readDeadline' = t
  /\ UNCHANGED <<buffer, isClosed, writeDeadline, now, readVars, executor, writing,
                 packets, received, taken>>

SetWriteDeadline(t) ==
  /\ writeDeadline' = t
  /\ UNCHANGED <<buffer, isClosed, readDeadline, now, readVars, executor, writing,
                 packets, received, taken>>

(* The part of Close that is about the stream. *)
Close ==
  /\ isClosed = "open"
  /\ isClosed' = "closed"
  /\ UNCHANGED <<buffer, readDeadline, writeDeadline, now, readVars, executor,
                 writing, packets, received, taken>>

Tick ==
  /\ now < MaxTime /\ now' = now + 1
  /\ UNCHANGED <<buffer, isClosed, readDeadline, writeDeadline, readVars, executor,
                 writing, packets, received, taken>>

----------------------------------------------------------------------------
ReadStep(r) == Copy(r) \/ Return(r) \/ Select(r) \/ Timeout(r)

Next ==
  \/ \E pkt \in Packets : AppendBytes(pkt)
  \/ SignalNobody
  \/ \E r \in Readers :
       \/ Signal(r) \/ ReadStep(r)
       \/ \E n \in Sizes[r] : Read(r, n)
  \/ Write \/ Tell \/ Close \/ Tick
  \/ \E t \in Deadlines :
       SetDeadline(t) \/ SetReadDeadline(t) \/ SetWriteDeadline(t)

Spec == Init /\ [][Next]_vars

(* A goroutine in Read goes on, by the timeout of its select if need be. *)
FairSpec == Spec /\ \A r \in Readers : WF_vars(ReadStep(r))

----------------------------------------------------------------------------
BS == INSTANCE ByteStream WITH in <- received, out <- taken

(***************************************************************************)
(* The stream is a ByteStream: whichever readers take the bytes, and       *)
(* whenever packets come in, the bytes copied out of the buffer are those  *)
(* that came in, in order, none twice and none left out.                   *)
(***************************************************************************)
ByteStreamSpec == BS!Spec

(***************************************************************************)
(* No byte is lost and none is delivered twice: a byte that came in is in  *)
(* the buffer, in the hand of one Read, or it was reported to a caller of  *)
(* Read, once.  That includes a Read that fails because the stream is      *)
(* closed or the deadline is over: it returns n together with the error.   *)
(***************************************************************************)
NoByteDropped ==
  /\ received = taken \o buffer
  /\ 1 .. Len(taken) = returned \cup UNION {inHand[r] : r \in Readers}
  /\ \A r \in Readers :
       /\ Cardinality(inHand[r]) = copied[r]
       /\ inHand[r] \cap returned = {}
       /\ \A q \in Readers \ {r} : inHand[r] \cap inHand[q] = {}

(***************************************************************************)
(* A Read of at least one byte returns once there are bytes, unless others *)
(* take them, also if the signal of handleBytes met nobody in the select;  *)
(* and every Read returns once the stream is closed.                       *)
(***************************************************************************)
ReadersWakeUp ==
  \A r \in Readers :
    /\ (pc[r] # "idle" /\ size[r] > 0 /\ buffer # <<>>)
          ~> (pc[r] = "idle" \/ buffer = <<>>)
    /\ (pc[r] # "idle" /\ isClosed = "closed") ~> (pc[r] = "idle")
=============================================================================
