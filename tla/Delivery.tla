------------------------------ MODULE Delivery ------------------------------
(***************************************************************************)
(* One direction of a connection between two nodes, from the calls of      *)
(* Network.Write on the sender to dispatchMessage on the receiver:         *)
(*                                                                         *)
(*   Write -> bufio writer -> (flush) -> wire -> Accept loop               *)
(*         -> one goroutine per message: Push, Pop, Submit -> jobs         *)
(*         -> executeJobs -> dispatchMessage                               *)
(*                                                                         *)
(* A message is named by its nonce.  The receive window is the state of    *)
(* module RecvWindow.  All messages of the connection carry the sender's   *)
(* one identity, so the goroutine's ID check passes and is left out.       *)
(***************************************************************************)
EXTENDS RecvWindow

CONSTANTS
  FrameLens,      \* possible lengths of a frame (length prefix and message)
  BufferSize,     \* capacity of the bufio writer (writeBufferSize)
  JobQueueSize    \* capacity of the channel PeerClient.jobs

ASSUME FrameLensAssumption == FrameLens \subseteq Nat \ {0}
ASSUME BufferSizeAssumption == BufferSize \in Nat \ {0}
ASSUME JobQueueAssumption == JobQueueSize \in Nat \ {0}

VARIABLES
  messageNonce,   \* ConnState.messageNonce
  call,           \* where the Write call that took a nonce stands
  writer,         \* ConnState.writer: buffered frames, Buffered(), sticky error
  flushing,       \* flushLoop has not seen kill
  connUp,         \* the transport connection is up
  wire,           \* frames written to the connection and not yet read
  handler,        \* where the goroutine that Accept spawned for a message stands
  batch,          \* the run that goroutine popped and has yet to submit
  jobs,           \* PeerClient.jobs
  closeSignal,    \* PeerClient.closeSignal is closed
  executing,      \* executeJobs has not returned
  dispatched      \* history: the calls of dispatchMessage, in order

linkVars == <<writer, wire>>
receiverVars == <<handler, batch, jobs, closeSignal, executing, dispatched>>
vars == <<windowVars, messageNonce, call, linkVars, flushing, connUp, receiverVars>>

CallState == {"none", "send", "sent", "failed"}
HandlerState == {"none", "push", "pop", "submit", "done"}
Writer == [frames : Seq(Nonces), buffered : 0..BufferSize, err : {"nil", "error"}]
EmptyWriter == [frames |-> <<>>, buffered |-> 0, err |-> "nil"]

TypeOK ==
  /\ WindowTypeOK
  /\ messageNonce \in 0..MaxNonce
  /\ call \in [Nonces -> CallState]
  /\ writer \in Writer
  /\ flushing \in BOOLEAN
  /\ connUp \in BOOLEAN
  /\ wire \in Seq(Nonces)
  /\ handler \in [Nonces -> HandlerState]
  /\ batch \in [Nonces -> Seq(Nonces)]
  /\ jobs \in Seq(Nonces) /\ Len(jobs) <= JobQueueSize
  /\ closeSignal \in BOOLEAN
  /\ executing \in BOOLEAN
  /\ dispatched \in Seq(Nonces)

Init ==
  /\ WindowInit
  /\ messageNonce = 0
  /\ call = [n \in Nonces |-> "none"]
  /\ writer = EmptyWriter
  /\ flushing = TRUE
  /\ connUp = TRUE
  /\ wire = <<>>
  /\ handler = [n \in Nonces |-> "none"]
  /\ batch = [n \in Nonces |-> <<>>]
  /\ jobs = <<>>
  /\ closeSignal = FALSE
  /\ executing = TRUE
  /\ dispatched = <<>>

----------------------------------------------------------------------------
(* The sender.  Flushed and Put are the outcomes, as pairs of a writer and *)
(* a wire, of bufio's Flush and Write: when the connection is down or the  *)
(* write deadline passes, some first frames are out, the rest stay behind, *)
(* and the error is sticky.                                                *)

Flushed(w, out) ==
  IF w.err # "nil" \/ w.frames = <<>>
    THEN {<<w, out>>}
    ELSE (IF connUp THEN {<<EmptyWriter, out \o w.frames>>} ELSE {})
         \cup
         {<<[w EXCEPT !.frames = SubSeq(@, k + 1, Len(@)), !.err = "error"],
            out \o SubSeq(w.frames, 1, k)>> :
            k \in IF connUp THEN 0..(Len(w.frames) - 1) ELSE {0}}

(* A frame larger than an empty buffer goes straight to the connection. *)
Put(n, len, w, out) ==
  IF w.err # "nil" THEN {<<w, out>>}
  ELSE IF len <= BufferSize - w.buffered
    THEN {<<[w EXCEPT !.frames = Append(@, n), !.buffered = @ + len], out>>}
    ELSE (IF connUp THEN {<<w, Append(out, n)>>} ELSE {})
         \cup {<<[w EXCEPT !.err = "error"], out>>}

(* sendMessage flushes first when the frame does not fit behind others. *)
Sent(n, len) ==
  IF writer.buffered > 0 /\ BufferSize - writer.buffered < len
    THEN UNION {Put(n, len, s[1], s[2]) : s \in Flushed(writer, wire)}
    ELSE Put(n, len, writer, wire)

(* Write takes the nonce before, and outside, the writer's mutex. *)
TakeNonce ==
  /\ messageNonce < MaxNonce
  /\ messageNonce' = messageNonce + 1
  /\ call' = [call EXCEPT ![messageNonce + 1] = "send"]
  /\ UNCHANGED <<windowVars, linkVars, flushing, connUp, receiverVars>>

(* sendMessage's critical section, for the call that took nonce n. *)
SendMessage(n) ==
  /\ call[n] = "send"
  /\ \E len \in FrameLens : \E s \in Sent(n, len) :
       /\ writer' = s[1]
       /\ wire' = s[2]
       /\ call' = [call EXCEPT ![n] = IF s[1].err = "nil" THEN "sent" ELSE "failed"]
  /\ UNCHANGED <<windowVars, messageNonce, flushing, connUp, receiverVars>>

(* One tick of flushLoop for this connection. *)
FlushLoop ==
  /\ flushing
  /\ writer.err = "nil" /\ writer.frames # <<>>
  /\ \E s \in Flushed(writer, wire) : writer' = s[1] /\ wire' = s[2]
  /\ UNCHANGED <<windowVars, messageNonce, call, flushing, connUp, receiverVars>>

(* Network.Close on the sender closes kill; flushLoop returns. *)
Kill ==
  /\ flushing
  /\ flushing' = FALSE
  /\ UNCHANGED <<windowVars, messageNonce, call, linkVars, connUp, receiverVars>>

(* The connection breaks or is closed; a tail of what is in flight is lost. *)
Break ==
  /\ connUp
  /\ connUp' = FALSE
  /\ \E k \in 0..Len(wire) : wire' = SubSeq(wire, 1, k)
  /\ UNCHANGED <<windowVars, messageNonce, call, writer, flushing, receiverVars>>

----------------------------------------------------------------------------
(* Faulty variants, for checking that the properties notice them. *)

(* A frame is read again. *)
ReceiveAgain ==
  /\ wire # <<>>
  /\ wire' \in {wire, Tail(wire)}
  /\ handler' = [handler EXCEPT ![Head(wire)] = "push"]
  /\ UNCHANGED <<windowVars, messageNonce, call, writer, flushing, connUp, batch,
                 jobs, closeSignal, executing, dispatched>>

(* The channel has no capacity limit. *)
SubmitUnbounded(n) ==
  /\ handler[n] = "submit"
  /\ batch[n] # <<>>
  /\ jobs' = Append(jobs, Head(batch[n]))
  /\ batch' = [batch EXCEPT ![n] = Tail(@)]
  /\ UNCHANGED <<windowVars, messageNonce, call, linkVars, flushing, connUp,
                 handler, closeSignal, executing, dispatched>>

(* The select has a default branch. *)
SubmitOrDrop(n) ==
  /\ handler[n] = "submit"
  /\ batch[n] # <<>>
  /\ jobs' = IF Len(jobs) < JobQueueSize THEN Append(jobs, Head(batch[n])) ELSE jobs
  /\ batch' = [batch EXCEPT ![n] = Tail(@)]
  /\ UNCHANGED <<windowVars, messageNonce, call, linkVars, flushing, connUp,
                 handler, closeSignal, executing, dispatched>>

(* The goroutine pops at most one message. *)
PopOne(n) ==
  /\ handler[n] = "pop"
  /\ \E k \in 0..1 :
       /\ k = 0 => buf[Idx(lastNonce)] = Nil
       /\ k = 1 => buf[Idx(lastNonce)] # Nil
       /\ lastNonce' = Idx(lastNonce + k)
       /\ buf' = [buf EXCEPT ![Idx(lastNonce)] = Nil]
       /\ batch' = [batch EXCEPT ![n] = [i \in 1..k |-> buf[Idx(lastNonce)]]]
       /\ popped' = popped \o batch'[n]
  /\ handler' = [handler EXCEPT ![n] = "submit"]
  /\ UNCHANGED <<once, pushed, first, overrun, messageNonce, call, linkVars,
                 flushing, connUp, jobs, closeSignal, executing, dispatched>>

----------------------------------------------------------------------------
(* The receiver. *)

(* receiveMessage: the next whole frame.  What a node of this code sent     *)
(* passes the checks of the header fields and of the signature.            *)
ReceiveMessage == Head(wire)

(* One round of Accept's loop: read a message, spawn its goroutine. *)
Receive ==
  /\ wire # <<>>
  /\ wire' = Tail(wire)
  /\ handler' = [handler EXCEPT ![ReceiveMessage] = "push"]
  /\ UNCHANGED <<windowVars, messageNonce, call, writer, flushing, connUp, batch,
                 jobs, closeSignal, executing, dispatched>>

HandlerPush(n) ==
  /\ handler[n] = "push"
  /\ Push(n)
  /\ handler' = [handler EXCEPT ![n] = "pop"]
  /\ UNCHANGED <<messageNonce, call, linkVars, flushing, connUp, batch, jobs,
                 closeSignal, executing, dispatched>>

HandlerPop(n) ==
  /\ handler[n] = "pop"
  /\ \E k \in 0..Size :
       /\ PopRun(k)
       /\ batch' = [batch EXCEPT ![n] = RangeResult(k)]
  /\ handler' = [handler EXCEPT ![n] = "submit"]
  /\ UNCHANGED <<messageNonce, call, linkVars, flushing, connUp, jobs,
                 closeSignal, executing, dispatched>>

(* Submit blocks while the queue is full, and gives up on closeSignal;     *)
(* with both ready, select takes either.                                   *)
HandlerSubmit(n) ==
  /\ handler[n] = "submit"
  /\ batch[n] # <<>>
  /\ \/ /\ Len(jobs) < JobQueueSize
        /\ jobs' = Append(jobs, Head(batch[n]))
     \/ /\ closeSignal
        /\ UNCHANGED jobs
  /\ batch' = [batch EXCEPT ![n] = Tail(@)]
  /\ UNCHANGED <<windowVars, messageNonce, call, linkVars, flushing, connUp,
                 handler, closeSignal, executing, dispatched>>

HandlerDone(n) ==
  /\ handler[n] = "submit"
  /\ batch[n] = <<>>
  /\ handler' = [handler EXCEPT ![n] = "done"]
  /\ UNCHANGED <<windowVars, messageNonce, call, linkVars, flushing, connUp,
                 batch, jobs, closeSignal, executing, dispatched>>

(* executeJobs runs one job, which is one call of dispatchMessage. *)
Execute ==
  /\ executing
  /\ jobs # <<>>
  /\ jobs' = Tail(jobs)
  /\ dispatched' = Append(dispatched, Head(jobs))
  /\ UNCHANGED <<windowVars, messageNonce, call, linkVars, flushing, connUp,
                 handler, batch, closeSignal, executing>>

ExecutorReturns ==
  /\ executing
  /\ closeSignal
  /\ executing' = FALSE
  /\ UNCHANGED <<windowVars, messageNonce, call, linkVars, flushing, connUp,
                 handler, batch, jobs, closeSignal, dispatched>>

(* PeerClient.Close on the receiver, from Network.Close or an Accept that ended. *)
CloseClient ==
  /\ ~closeSignal
  /\ closeSignal' = TRUE
  /\ UNCHANGED <<windowVars, messageNonce, call, linkVars, flushing, connUp,
                 handler, batch, jobs, executing, dispatched>>

Handler(n) ==
  HandlerPush(n) \/ HandlerPop(n) \/ HandlerSubmit(n) \/ HandlerDone(n)

Next ==
  \/ TakeNonce
  \/ \E n \in Nonces : SendMessage(n)
  \/ FlushLoop
  \/ Kill
  \/ Break
  \/ Receive
  \/ \E n \in Nonces : Handler(n)
  \/ Execute
  \/ ExecutorReturns
  \/ CloseClient

Spec == Init /\ [][Next]_vars

(***************************************************************************)
(* Every goroutine that can run is run: the Go scheduler, the ticker of    *)
(* flushLoop and the blocking read of Accept.  Nothing is assumed about    *)
(* new calls of Write, failures or shutdown.                               *)
(***************************************************************************)
Fairness ==
  /\ \A n \in Nonces : WF_vars(SendMessage(n)) /\ WF_vars(Handler(n))
  /\ WF_vars(FlushLoop)
  /\ WF_vars(Receive)
  /\ WF_vars(Execute)

FairSpec == Spec /\ Fairness

----------------------------------------------------------------------------
(* The copies of message n between TakeNonce and dispatchMessage. *)
Positions(s, n) == {i \in DOMAIN s : s[i] = n}

At(place, s, n) == {<<place, i>> : i \in Positions(s, n)}
InCall(n) == IF call[n] = "send" THEN {<<"call">>} ELSE {}
InHandler(n) == IF handler[n] = "push" THEN {<<"handler">>} ELSE {}
InBatch(n) == UNION {{<<"batch", m, i>> : i \in Positions(batch[m], n)} : m \in Nonces}

Copies(n) ==
  InCall(n) \cup At("writer", writer.frames, n) \cup At("wire", wire, n)
  \cup InHandler(n) \cup At("window", buf, n) \cup InBatch(n)
  \cup At("jobs", jobs, n) \cup At("dispatched", dispatched, n)

(***************************************************************************)
(* A message is never in two places of the pipeline and never dispatched   *)
(* twice, although the goroutine that submits it is not, in general, the   *)
(* one that was spawned for it.                                            *)
(***************************************************************************)
NeverDuplicated == \A n \in Nonces : \A a, b \in Copies(n) : a = b

(* The window was started by a later message, or pushed a ring ahead. *)
Misaligned == first > 1 \/ overrun

(***************************************************************************)
(* A message whose nonce was taken disappears from the pipeline only if    *)
(* the connection broke, the writer failed or the client was closed, or if *)
(* the receive window overwrote it while misaligned.                       *)
(***************************************************************************)
LossHasACause ==
  \A n \in 1..messageNonce :
    Copies(n) = {} => ~connUp \/ writer.err # "nil" \/ closeSignal \/ Misaligned

(***************************************************************************)
(* While the connection works and the window is aligned, every message     *)
(* whose nonce was taken is dispatched: nobody waits forever on the full   *)
(* job queue, on the buffer or on the window.                              *)
(***************************************************************************)
Undisturbed ==
  connUp /\ writer.err = "nil" /\ flushing /\ ~closeSignal /\ ~Misaligned

EventuallyDispatched ==
  \A n \in Nonces :
    (messageNonce >= n) ~> (~Undisturbed \/ Positions(dispatched, n) # {})

(***************************************************************************)
(* The bytes of a stream are handed to the reader in the order of the      *)
(* writes (PeerClient's Read and Write implement net.Conn): dispatchMessage*)
(* is called in the order of the nonces.                                   *)
(***************************************************************************)
DispatchedInOrder ==
  \A i, j \in DOMAIN dispatched : i < j => dispatched[i] < dispatched[j]
=============================================================================
