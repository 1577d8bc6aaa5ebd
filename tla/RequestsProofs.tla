--------------------------- MODULE RequestsProofs ---------------------------
(***************************************************************************)
(* Proofs about module Requests, for any set of calls and any bounds, and  *)
(* about module Opcodes, the registry that a request's message type is     *)
(* looked up in, for any number of registrars and any wishes.              *)
(*                                                                         *)
(* SameSessionReply is a fact about what calls returned, and so about      *)
(* every place a reply passes on its way there: the Requests map, the      *)
(* executor and the channel.  At each of them the call that gets the reply *)
(* has the nonce of the call that was answered and belongs to the session  *)
(* the reply came in (Answers); nonces of one session are unique, so in    *)
(* one session both calls are the same.                                    *)
(***************************************************************************)
EXTENDS Requests, Opcodes, TLAPS

(* Reply r is one that the client of call c may take for c's. *)
Answers(r, c) ==
  /\ r.session = sess[c]
  /\ nonce[r.call] = nonce[c]
  /\ nonce[c] # 0

IdleHasNoNonce == \A c \in Calls : pc[c] = "idle" => nonce[c] = 0

BusyHasNonce ==
  \A c \in Calls :
    pc[c] \in {"write", "track", "wait", "untrack"} \/ c \in asked => nonce[c] # 0

NonceBelowCounter == \A c \in Calls : nonce[c] <= requestNonce[sess[c]]

NonceUnique ==
  \A c, d \in Calls :
    nonce[c] = nonce[d] /\ sess[c] = sess[d] /\ nonce[c] # 0 => c = d

EntriesOwn ==
  \A s \in Sessions, n \in Nonces : requests[s][n] # None =>
    /\ sess[requests[s][n]] = s
    /\ nonce[requests[s][n]] = n

InFlightAsked == \A r \in inFlight : nonce[r.call] # 0

HandoverOwn ==
  \A s \in Sessions : executor[s] # None =>
    Answers(executor[s].reply, executor[s].call)

DataOwn == \A c \in Calls : data[c] # None => Answers(data[c], c)

ResultOwn == \A c \in Calls : result[c] # None => Answers(result[c], c)

NonceInv ==
  TypeOK /\ IdleHasNoNonce /\ BusyHasNonce /\ NonceBelowCounter /\ NonceUnique

ReplyInv == InFlightAsked /\ HandoverOwn /\ DataOwn /\ ResultOwn

RequestInv == NonceInv /\ EntriesOwn /\ TrackedWhileWaiting /\ ReplyInv

----------------------------------------------------------------------------
(* The invariant holds before the first call. *)
LEMMA InitRequestInv == Init => RequestInv
<1> SUFFICES ASSUME Init PROVE RequestInv
  OBVIOUS
<1> USE BoundsAssumption, NoneAssumption DEF Init
<1>1. TypeOK
  BY DEF TypeOK, PC, Sessions, Nonces
<1>2. IdleHasNoNonce /\ BusyHasNonce /\ NonceBelowCounter /\ NonceUnique
  BY DEF IdleHasNoNonce, BusyHasNonce, NonceBelowCounter, NonceUnique, Sessions
<1>3. EntriesOwn /\ TrackedWhileWaiting
  BY DEF EntriesOwn, TrackedWhileWaiting
<1>4. ReplyInv
  BY DEF ReplyInv, InFlightAsked, HandoverOwn, DataOwn, ResultOwn
<1> QED BY <1>1, <1>2, <1>3, <1>4 DEF RequestInv, NonceInv

(* Every step of every goroutine keeps variables in their types. *)
LEMMA StepTypeOK == RequestInv /\ [Next]_vars => TypeOK'
<1> SUFFICES ASSUME RequestInv, [Next]_vars PROVE TypeOK'
  OBVIOUS
<1> USE BoundsAssumption, NoneAssumption
       DEF RequestInv, NonceInv, TypeOK, PC, Sessions, Nonces, Step, callVars, peerVars
<1>1. ASSUME NEW c \in Calls, Refuse(c) PROVE TypeOK'
  BY <1>1, Zenon DEF Refuse
<1>2. ASSUME NEW c \in Calls, TakeNonce(c) PROVE TypeOK'
  BY <1>2, SMTT(30) DEF TakeNonce
<1>3. ASSUME NEW c \in Calls, WriteRequest(c) PROVE TypeOK'
  BY <1>3, Zenon DEF WriteRequest
<1>4. ASSUME NEW c \in Calls, WriteFails(c) PROVE TypeOK'
  BY <1>4, Zenon DEF WriteFails
<1>5. ASSUME NEW c \in Calls, Track(c) PROVE TypeOK'
  BY <1>5, Zenon DEF Track, BusyHasNonce
<1>6. ASSUME NEW c \in Calls, TakeReply(c) PROVE TypeOK'
  BY <1>6, Zenon DEF TakeReply
<1>7. ASSUME NEW c \in Calls, ContextDone(c) PROVE TypeOK'
  BY <1>7, Zenon DEF ContextDone
<1>8. ASSUME NEW c \in Calls, Untrack(c) PROVE TypeOK'
  BY <1>8, Zenon DEF Untrack, BusyHasNonce
<1>9. ASSUME NEW c \in Calls, Release(c) PROVE TypeOK'
  BY <1>9, Zenon DEF Release
<1>10. ASSUME NEW c \in Calls, SendReply(c) PROVE TypeOK'
  <2>1. replies[c] + 1 \in 1..MaxReplies
    BY <1>10 DEF SendReply
  <2> QED BY <1>10, <2>1, SMTT(30) DEF SendReply, Reply
<1>11. CASE Reconnect
  BY <1>11 DEF Reconnect
<1>12. ASSUME NEW r \in inFlight, LoseReply(r) PROVE TypeOK'
  BY <1>12 DEF LoseReply
<1>13. ASSUME NEW r \in inFlight, DispatchReply(r) PROVE TypeOK'
  <2>1. r.session \in Sessions /\ r.call \in Calls /\ nonce[r.call] \in Nonces
    BY DEF Reply, ReplyInv, InFlightAsked
  <2>2. requests[r.session][nonce[r.call]] \in Calls \cup {None}
    <3>1. requests \in [Sessions -> [Nonces -> Calls \cup {None}]]
      BY Zenon
    <3> HIDE DEF RequestInv, NonceInv, TypeOK, Sessions, Nonces
    <3> QED BY <2>1, <3>1, Zenon
  <2>3. executor' \in [Sessions -> Handover \cup {None}]
    <3> DEFINE waiter == requests[r.session][nonce[r.call]]
    <3>1. CASE waiter = None
      BY <1>13, <3>1 DEF DispatchReply
    <3>2. CASE waiter # None
      <4>1. waiter \in Calls /\ r \in Reply
        BY <2>2, <3>2
      <4>2. [reply |-> r, call |-> waiter] \in Handover
        BY <4>1 DEF Handover
      <4>3. executor' = [executor EXCEPT ![r.session] = [reply |-> r, call |-> waiter]]
        BY <1>13, <3>2 DEF DispatchReply
      <4> HIDE DEF waiter
      <4> QED BY <4>2, <4>3, Zenon
    <3> QED BY <3>1, <3>2, Zenon
  <2> QED BY <1>13, <2>3, SMTT(30) DEF DispatchReply
<1>14. ASSUME NEW s \in Sessions, HandOver(s) PROVE TypeOK'
  BY <1>14, Zenon DEF HandOver, Handover
<1>15. ASSUME NEW s \in Sessions, GiveUp(s) PROVE TypeOK'
  BY <1>15, Zenon DEF GiveUp
<1>16. CASE UNCHANGED vars
  BY <1>16 DEF vars
<1> QED
  BY <1>1, <1>2, <1>3, <1>4, <1>5, <1>6, <1>7, <1>8, <1>9, <1>10, <1>11, <1>12,
     <1>13, <1>14, <1>15, <1>16, Zenon DEF Next, Request

(* Only TakeNonce changes a call's client and nonce, and only those of a    *)
(* call that had none: the nonces taken so far stay as they are.           *)
LEMMA NoncesStay ==
  ASSUME RequestInv, [Next]_vars, NEW c \in Calls, nonce[c] # 0
  PROVE  nonce'[c] = nonce[c] /\ sess'[c] = sess[c]
<1> USE DEF RequestInv, NonceInv, TypeOK, callVars, peerVars
<1>1. CASE UNCHANGED <<nonce, sess>>
  BY <1>1
<1>2. ASSUME NEW d \in Calls, TakeNonce(d)
      PROVE nonce'[c] = nonce[c] /\ sess'[c] = sess[c]
  <2>1. d # c
    BY <1>2 DEF TakeNonce, Step, IdleHasNoNonce
  <2> QED BY <1>2, <2>1 DEF TakeNonce
<1>3. (\E d \in Calls : TakeNonce(d)) \/ UNCHANGED <<nonce, sess>>
  BY Zenon DEF Next, Request, Refuse, WriteRequest, WriteFails, Track, TakeReply,
         ContextDone, Untrack, Release, SendReply, Reconnect, LoseReply,
         DispatchReply, HandOver, GiveUp, vars
<1> QED BY <1>1, <1>2, <1>3

(* What may be taken for the reply to a call can be in every later state. *)
LEMMA AnswersStay ==
  ASSUME RequestInv, [Next]_vars, NEW c \in Calls, NEW r \in Reply, Answers(r, c)
  PROVE  Answers(r, c)'
<1>1. r.call \in Calls /\ nonce[r.call] # 0
  BY DEF Reply, Answers
<1>2. nonce'[r.call] = nonce[r.call]
  BY <1>1, NoncesStay
<1>3. nonce'[c] = nonce[c] /\ sess'[c] = sess[c]
  BY NoncesStay DEF Answers
<1> QED BY <1>2, <1>3 DEF Answers

(* AddUint64 gives each call of a client a nonce no other call has. *)
LEMMA StepNonceInv == RequestInv /\ [Next]_vars => NonceInv'
<1> SUFFICES ASSUME RequestInv, [Next]_vars PROVE NonceInv'
  OBVIOUS
<1>1. TypeOK'
  BY StepTypeOK
<1> USE DEF RequestInv, NonceInv, TypeOK, Step, callVars, peerVars, IdleHasNoNonce,
            BusyHasNonce, NonceBelowCounter, NonceUnique
<1>2. ASSUME NEW c \in Calls, TakeNonce(c) PROVE NonceInv'
  <2>1. PICK s \in 1..session :
           /\ sess' = [sess EXCEPT ![c] = s]
           /\ requestNonce' = [requestNonce EXCEPT ![s] = @ + 1]
           /\ nonce' = [nonce EXCEPT ![c] = requestNonce[s] + 1]
    BY <1>2, Zenon DEF TakeNonce
  <2>2. pc[c] = "idle" /\ pc' = [pc EXCEPT ![c] = "write"] /\ asked' = asked
    BY <1>2 DEF TakeNonce
  <2>3. s \in Sessions
    BY BoundsAssumption DEF Sessions
  <2>4. requestNonce[s] \in Nat /\ \A t \in Sessions : requestNonce[t] \in Nat
    BY <2>3, BoundsAssumption
  <2>5. \A d \in Calls : nonce[d] \in Nat
    BY BoundsAssumption DEF Nonces
  <2>6. IdleHasNoNonce' /\ BusyHasNonce'
    BY <2>1, <2>2, <2>4
  <2>7. NonceBelowCounter'
    BY <2>1, <2>3, <2>4, <2>5
  <2>8. \A d \in Calls : sess[d] = s => nonce[d] # requestNonce[s] + 1
    BY <2>3, <2>4, <2>5
  <2>9. NonceUnique'
    BY <2>1, <2>8
  <2> QED BY <1>1, <2>6, <2>7, <2>9
<1>3. CASE ~ \E c \in Calls : TakeNonce(c)
  <2>1. UNCHANGED <<nonce, sess, requestNonce>>
    BY <1>3, Zenon DEF Next, Request, Refuse, WriteRequest, WriteFails, Track, TakeReply,
         ContextDone, Untrack, Release, SendReply, Reconnect, LoseReply,
         DispatchReply, HandOver, GiveUp, vars
  <2>2. \/ pc' = pc
        \/ \E c \in Calls, x \in {"release", "done"} : pc' = [pc EXCEPT ![c] = x]
        \/ \E c \in Calls, x \in {"track", "wait", "untrack"} :
             pc[c] \in {"write", "track", "wait"} /\ pc' = [pc EXCEPT ![c] = x]
    BY <1>3, Zenon DEF Next, Request, Refuse, WriteRequest, WriteFails, Track, TakeReply,
         ContextDone, Untrack, Release, SendReply, Reconnect, LoseReply,
         DispatchReply, HandOver, GiveUp, vars
  <2>3. \A c \in Calls :
          /\ pc'[c] = "idle" => pc[c] = "idle"
          /\ pc'[c] \in {"write", "track", "wait", "untrack"} =>
               pc[c] \in {"write", "track", "wait", "untrack"}
    BY <2>2
  <2>4. \A c \in asked' : c \in asked \/ pc[c] = "write"
    BY <1>3, Zenon DEF Next, Request, Refuse, WriteRequest, WriteFails, Track, TakeReply,
         ContextDone, Untrack, Release, SendReply, Reconnect, LoseReply,
         DispatchReply, HandOver, GiveUp, vars
  <2> QED BY <1>1, <2>1, <2>3, <2>4
<1> QED BY <1>2, <1>3

(* The Requests maps change only by Track and Untrack. *)
LEMMA RequestsChange ==
  ASSUME RequestInv, [Next]_vars
  PROVE  \/ \E c \in Calls : Track(c) \/ Untrack(c)
         \/ /\ requests' = requests
            /\ \A c \in Calls : pc'[c] = "wait" => pc[c] = "wait"
<1> SUFFICES ASSUME ~ \E c \in Calls : Track(c) \/ Untrack(c)
    PROVE  /\ requests' = requests
           /\ \A c \in Calls : pc'[c] = "wait" => pc[c] = "wait"
  OBVIOUS
<1>1. requests' = requests
  BY Zenon DEF Next, Request, Refuse, TakeNonce, WriteRequest, WriteFails, TakeReply,
         ContextDone, Release, SendReply, Reconnect, LoseReply,
         DispatchReply, HandOver, GiveUp, vars, callVars, peerVars
<1>2. \/ pc' = pc
      \/ \E c \in Calls, x \in {"write", "track", "untrack", "done"} :
           pc' = [pc EXCEPT ![c] = x]
  BY Zenon DEF Next, Request, Refuse, TakeNonce, WriteRequest, WriteFails, TakeReply,
         ContextDone, Release, SendReply, Reconnect, LoseReply,
         DispatchReply, HandOver, GiveUp, vars, callVars, peerVars, Step
<1>3. \A c \in Calls : pc'[c] = "wait" => pc[c] = "wait"
  BY <1>2 DEF RequestInv, NonceInv, TypeOK
<1> QED BY <1>1, <1>3

(* The entry of a nonce is the call that took it in that client. *)
LEMMA StepEntriesOwn == RequestInv /\ [Next]_vars => EntriesOwn'
<1> SUFFICES ASSUME RequestInv, [Next]_vars,
                    NEW s \in Sessions, NEW n \in Nonces, requests'[s][n] # None
             PROVE  sess'[requests'[s][n]] = s /\ nonce'[requests'[s][n]] = n
  BY DEF EntriesOwn
<1> USE DEF RequestInv, NonceInv, TypeOK
<1>0. n # 0
  BY BoundsAssumption DEF Nonces
<1>1. CASE requests'[s][n] = requests[s][n]
  <2>1. /\ requests[s][n] \in Calls
        /\ sess[requests[s][n]] = s
        /\ nonce[requests[s][n]] = n
    BY <1>1 DEF EntriesOwn
  <2> QED BY <1>0, <1>1, <2>1, NoncesStay
<1>2. ASSUME NEW c \in Calls, Track(c)
      PROVE  \/ requests'[s][n] = requests[s][n]
             \/ sess[c] = s /\ nonce[c] = n /\ requests'[s][n] = c
  BY <1>2 DEF Track
<1>3. ASSUME NEW c \in Calls, Untrack(c)
      PROVE requests'[s][n] = requests[s][n]
  BY <1>3 DEF Untrack
<1>4. ASSUME NEW c \in Calls, sess[c] = s, nonce[c] = n, requests'[s][n] = c
      PROVE sess'[requests'[s][n]] = s /\ nonce'[requests'[s][n]] = n
  BY <1>0, <1>4, NoncesStay
<1> QED BY <1>1, <1>2, <1>3, <1>4, RequestsChange

(* A waiting call keeps its entry while others come and go. *)
LEMMA StepTracked == RequestInv /\ [Next]_vars => TrackedWhileWaiting'
<1> SUFFICES ASSUME RequestInv, [Next]_vars, NEW c \in Calls, pc'[c] = "wait"
             PROVE  requests'[sess'[c]][nonce'[c]] = c
  BY DEF TrackedWhileWaiting
<1> USE DEF RequestInv, NonceInv, TypeOK
<1>1. ASSUME pc[c] = "wait" \/ Track(c)
      PROVE  /\ nonce[c] \in Nonces /\ nonce'[c] = nonce[c]
             /\ sess[c] \in Sessions /\ sess'[c] = sess[c]
  <2>1. pc[c] \in {"wait", "track"}
    BY <1>1 DEF Track, Step
  <2>2. nonce[c] # 0
    BY <2>1 DEF BusyHasNonce
  <2> QED BY <2>2, NoncesStay
<1>2. CASE pc[c] = "wait" /\ requests' = requests
  BY <1>1, <1>2 DEF TrackedWhileWaiting
<1>3. CASE Track(c)
  <2>1. requests' = [requests EXCEPT ![sess[c]][nonce[c]] = c]
    BY <1>3 DEF Track
  <2> QED BY <1>1, <1>3, <2>1
<1>4. ASSUME NEW d \in Calls, d # c, Track(d) \/ Untrack(d)
      PROVE  requests'[sess'[c]][nonce'[c]] = c
  <2>1. pc[c] = "wait"
    BY <1>4 DEF Track, Untrack, Step
  <2>2. requests[sess[c]][nonce[c]] = c
    BY <2>1 DEF TrackedWhileWaiting
  <2>3. nonce[c] # 0
    BY <2>1 DEF BusyHasNonce
  <2>4. sess[d] # sess[c] \/ nonce[d] # nonce[c]
    BY <1>4, <2>3 DEF NonceUnique
  <2>5. requests'[sess[c]][nonce[c]] = requests[sess[c]][nonce[c]]
    BY <1>1, <1>4, <2>1, <2>4 DEF Track, Untrack
  <2> QED BY <1>1, <2>1, <2>2, <2>5
<1>5. ~ Untrack(c)
  BY DEF Untrack, Step
<1> QED BY <1>2, <1>3, <1>4, <1>5, RequestsChange

(* On its way from the connection to the caller a reply stays one that     *)
(* carries the caller's nonce in the caller's session.                     *)
LEMMA StepReplyInv == RequestInv /\ [Next]_vars => ReplyInv'
<1> SUFFICES ASSUME RequestInv, [Next]_vars PROVE ReplyInv'
  OBVIOUS
<1> USE DEF RequestInv, NonceInv, TypeOK, ReplyInv
<1>1. InFlightAsked'
  <2>1. ASSUME NEW r \in inFlight', r \notin inFlight PROVE r.call \in asked
    <3>1. PICK c \in Calls : SendReply(c)
      BY <2>1, Zenon DEF Next, Request, Refuse, TakeNonce, WriteRequest, WriteFails, Track,
         TakeReply, ContextDone, Untrack, Release, Reconnect, LoseReply,
         DispatchReply, HandOver, GiveUp, vars, callVars, peerVars
    <3> QED BY <2>1, <3>1 DEF SendReply
  <2>2. ASSUME NEW r \in inFlight' PROVE r.call \in Calls /\ nonce[r.call] # 0
    BY <2>1 DEF InFlightAsked, BusyHasNonce, Reply
  <2> QED BY <2>2, NoncesStay DEF InFlightAsked
<1>2. HandoverOwn'
  <2> SUFFICES ASSUME NEW s \in Sessions, executor'[s] # None
               PROVE  Answers(executor[s].reply, executor[s].call)'
    BY DEF HandoverOwn
  <2>1. CASE executor'[s] = executor[s]
    <3>1. Answers(executor[s].reply, executor[s].call)
      BY <2>1 DEF HandoverOwn
    <3>2. executor[s].reply \in Reply /\ executor[s].call \in Calls
      BY <2>1 DEF Handover
    <3> QED BY <2>1, <3>1, <3>2, AnswersStay DEF Answers
  <2>2. CASE executor'[s] # executor[s]
    <3>1. PICK r \in inFlight : DispatchReply(r)
      BY <2>2, Zenon DEF Next, Request, Refuse, TakeNonce, WriteRequest, WriteFails, Track,
         TakeReply, ContextDone, Untrack, Release, SendReply, Reconnect, LoseReply,
         HandOver, GiveUp, vars, callVars, peerVars
    <3> DEFINE waiter == requests[r.session][nonce[r.call]]
    <3>2. r \in Reply /\ r.session \in Sessions /\ r.call \in Calls
      BY DEF Reply
    <3>3. nonce[r.call] \in Nonces
      BY <3>2 DEF InFlightAsked
    <3>4. r.session = s /\ waiter # None /\ executor'[s] = [reply |-> r, call |-> waiter]
      BY <2>2, <3>1, <3>2 DEF DispatchReply
    <3>5. waiter \in Calls /\ sess[waiter] = s /\ nonce[waiter] = nonce[r.call]
      BY <3>2, <3>3, <3>4 DEF EntriesOwn
    <3>6. Answers(r, waiter)
      BY <3>3, <3>4, <3>5, BoundsAssumption DEF Answers, Nonces
    <3>7. /\ r.session = sess'[waiter]
          /\ nonce'[r.call] = nonce'[waiter] /\ nonce'[waiter] # 0
      BY <3>2, <3>5, <3>6, AnswersStay DEF Answers
    <3>8. executor'[s].reply = r /\ executor'[s].call = waiter
      BY <3>4
    <3> HIDE DEF waiter
    <3> QED BY <3>7, <3>8 DEF Answers
  <2> QED BY <2>1, <2>2
<1>3. DataOwn'
  <2> SUFFICES ASSUME NEW c \in Calls, data'[c] # None PROVE Answers(data[c], c)'
    BY DEF DataOwn
  <2>1. CASE data'[c] = data[c]
    <3>1. Answers(data[c], c) /\ data[c] \in Reply
      BY <2>1 DEF DataOwn
    <3> QED BY <2>1, <3>1, AnswersStay DEF Answers
  <2>2. CASE data'[c] # data[c]
    <3>1. PICK s \in Sessions : HandOver(s)
      BY <2>2, Zenon DEF Next, Request, Refuse, TakeNonce, WriteRequest, WriteFails, Track,
         TakeReply, ContextDone, Untrack, Release, SendReply, Reconnect, LoseReply,
         DispatchReply, GiveUp, vars, callVars, peerVars
    <3>2. executor[s].call = c /\ data'[c] = executor[s].reply /\ executor[s] # None
      BY <2>2, <3>1 DEF HandOver
    <3>3. Answers(executor[s].reply, c) /\ executor[s].reply \in Reply
      BY <3>2 DEF HandoverOwn, Handover
    <3> QED BY <3>2, <3>3, AnswersStay DEF Answers
  <2> QED BY <2>1, <2>2
<1>4. ResultOwn'
  <2> SUFFICES ASSUME NEW c \in Calls, result'[c] # None PROVE Answers(result[c], c)'
    BY DEF ResultOwn
  <2>1. CASE result'[c] = result[c]
    <3>1. Answers(result[c], c) /\ result[c] \in Reply
      BY <2>1 DEF ResultOwn
    <3> QED BY <2>1, <3>1, AnswersStay DEF Answers
  <2>2. CASE result'[c] # result[c]
    <3>0. PICK d \in Calls : TakeReply(d)
      BY <2>2, Zenon DEF Next, Request, Refuse, TakeNonce, WriteRequest, WriteFails, Track,
         ContextDone, Untrack, Release, SendReply, Reconnect, LoseReply,
         DispatchReply, HandOver, GiveUp, vars, callVars, peerVars
    <3>1. result'[c] = data[c]
      BY <2>2, <3>0 DEF TakeReply
    <3>2. Answers(data[c], c) /\ data[c] \in Reply
      BY <3>1 DEF DataOwn
    <3> QED BY <3>1, <3>2, AnswersStay DEF Answers
  <2> QED BY <2>1, <2>2
<1> QED BY <1>1, <1>2, <1>3, <1>4

----------------------------------------------------------------------------
(* The invariant holds in every reachable state. *)
LEMMA RequestInvInvariant == Spec => []RequestInv
<1>1. RequestInv /\ [Next]_vars => RequestInv'
  BY StepNonceInv, StepEntriesOwn, StepTracked, StepReplyInv DEF RequestInv
<1> QED BY <1>1, InitRequestInv, PTL DEF Spec

(***************************************************************************)
(* Type correctness of the request machinery.                              *)
(***************************************************************************)
THEOREM RequestTypeCorrect == Spec => []TypeOK
<1>1. RequestInv => TypeOK
  BY DEF RequestInv, NonceInv
<1> QED BY <1>1, RequestInvInvariant, PTL

(***************************************************************************)
(* However calls interleave, a call that waits in Request is what its      *)
(* client finds under its nonce.                                           *)
(***************************************************************************)
THEOREM WaitingIsTracked == Spec => []TrackedWhileWaiting
<1>1. RequestInv => TrackedWhileWaiting
  BY DEF RequestInv
<1> QED BY <1>1, RequestInvInvariant, PTL

(***************************************************************************)
(* A reply that comes back in the session its request was made in is       *)
(* returned, if it is returned at all, by the call it answers.             *)
(***************************************************************************)
THEOREM RepliesMatchInSession == Spec => []SameSessionReply
<1>1. RequestInv => SameSessionReply
  <2> SUFFICES ASSUME RequestInv, NEW c \in Calls, result[c] # None,
                      result[c].session = sess[result[c].call]
               PROVE  result[c].call = c
    BY DEF SameSessionReply
  <2>1. Answers(result[c], c) /\ result[c].call \in Calls
    BY DEF RequestInv, NonceInv, TypeOK, ReplyInv, ResultOwn, Reply
  <2> QED BY <2>1, Zenon DEF Answers, RequestInv, NonceInv, NonceUnique
<1> QED BY <1>1, RequestInvInvariant, PTL

(***************************************************************************)
(* dispatchMessage never gives the plugins a reply that a call of its      *)
(* client is waiting for.                                                  *)
(***************************************************************************)
THEOREM RepliesNotMissed == Spec => NotMissed
<1> DEFINE A == \A r \in unclaimed' \ unclaimed :
                  ~(pc[r.call] = "wait" /\ sess[r.call] = r.session)
<1>1. RequestInv /\ [Next]_vars => A
  <2> SUFFICES ASSUME RequestInv, [Next]_vars,
                      NEW r \in unclaimed', r \notin unclaimed,
                      pc[r.call] = "wait", sess[r.call] = r.session
               PROVE  FALSE
    OBVIOUS
  <2>1. r \in inFlight /\ requests[r.session][nonce[r.call]] = None
    BY Zenon DEF Next, Request, Refuse, TakeNonce, WriteRequest, WriteFails, Track,
         TakeReply, ContextDone, Untrack, Release, SendReply, Reconnect, LoseReply,
         DispatchReply, HandOver, GiveUp, vars, callVars, peerVars
  <2>2. r.call \in Calls
    BY <2>1 DEF RequestInv, NonceInv, TypeOK, Reply
  <2>3. requests[r.session][nonce[r.call]] = r.call
    BY <2>2 DEF RequestInv, TrackedWhileWaiting
  <2> QED BY <2>1, <2>2, <2>3, NoneAssumption
<1> QED BY <1>1, RequestInvInvariant, PTL DEF Spec, NotMissed

-----------------------------------------------------------------------------
(* The registry of message types.                                          *)

(***************************************************************************)
(* The invariant: the predefined opcodes are in both tables, and a         *)
(* registrar between its two stores holds an opcode that is its own type's *)
(* in opcodeTbl already.                                                   *)
(***************************************************************************)
RegistrarType ==
  registrar \in [Registrars -> [pc : {"idle", "store", "done"}, code : Nat,
                                type : {""} \cup {w.type : w \in Wanted}]]

\* The registrar r between its two stores.
HoldsItsOpcode(r) ==
  registrar[r].pc = "store" =>
    /\ registrar[r].code \in DOMAIN opcodeTbl
    /\ opcodeTbl[registrar[r].code] = registrar[r].type
    /\ registrar[r].type \notin Range(Predefined)

RegistryInv ==
  /\ RegistrarType
  /\ DOMAIN Predefined \subseteq DOMAIN opcodeTbl
  /\ Range(Predefined) \subseteq DOMAIN msgTbl
  /\ \A r \in Registrars : HoldsItsOpcode(r)
  /\ RegistryConsistent

\* What package opcode's init stores under each opcode.
LEMMA PredefinedTypes ==
  /\ DOMAIN Predefined = {1, 10, 11, 12, 13}
  /\ Range(Predefined) = {"Bytes", "Ping", "Pong", "LookupNodeRequest", "LookupNodeResponse"}
  /\ \A c, d \in DOMAIN Predefined : Predefined[c] = Predefined[d] => c = d
BY DEF Predefined, Range, BytesCode, PingCode, PongCode, LookupNodeRequestCode, LookupNodeResponseCode

\* The tables that init and the earlier registrations leave.
LEMMA RegistryStarts ==
  RegistryInit => RegistryInv
<1> SUFFICES ASSUME RegistryInit PROVE RegistryInv
  OBVIOUS
<1>1. opcodeTbl = [c \in DOMAIN Predefined \cup DOMAIN Registered |->
                     IF c \in DOMAIN Predefined THEN Predefined[c] ELSE Registered[c]]
  BY DEF RegistryInit
<1>2. /\ DOMAIN msgTbl = Range(opcodeTbl)
      /\ \A t \in DOMAIN msgTbl : msgTbl[t] \in DOMAIN opcodeTbl /\ opcodeTbl[msgTbl[t]] = t
  BY Zenon DEF RegistryInit, AntiFunction, Inverse, Range
<1>3. \A c \in DOMAIN Predefined : c \in DOMAIN opcodeTbl /\ opcodeTbl[c] = Predefined[c]
  BY <1>1
<1>4. \A c \in DOMAIN opcodeTbl : c \notin DOMAIN Predefined => opcodeTbl[c] \notin Range(Predefined)
  BY <1>1, RegisteredAssumption DEF Range
<1>5. Range(Predefined) \subseteq DOMAIN msgTbl
  BY <1>2, <1>3 DEF Range
<1>6. \A c \in DOMAIN Predefined : msgTbl[Predefined[c]] = c
  <2> SUFFICES ASSUME NEW c \in DOMAIN Predefined PROVE msgTbl[Predefined[c]] = c
    OBVIOUS
  <2>1. Predefined[c] \in Range(Predefined)
    BY DEF Range
  <2>2. msgTbl[Predefined[c]] \in DOMAIN opcodeTbl /\ opcodeTbl[msgTbl[Predefined[c]]] = Predefined[c]
    BY <2>1, <1>2, <1>5
  <2>3. msgTbl[Predefined[c]] \in DOMAIN Predefined
    BY <2>1, <2>2, <1>4
  <2> QED
    BY <2>2, <2>3, <1>3, PredefinedTypes
<1>7. RegistrarType /\ \A r \in Registrars : registrar[r].pc = "idle"
  BY DEF RegistryInit, Done, RegistrarType
<1> QED
  BY <1>2, <1>3, <1>5, <1>6, <1>7 DEF RegistryInv, RegistryConsistent, HoldsItsOpcode

\* A registrar that is done, and tables that still hold what the others need.
LEMMA RegistrarDone ==
  ASSUME RegistryInv, NEW r \in Registrars, registrar' = [registrar EXCEPT ![r] = Done],
         UNCHANGED opcodeTbl
  PROVE  RegistrarType' /\ \A q \in Registrars : HoldsItsOpcode(q)'
<1>1. /\ registrar'[r].pc = "done"
      /\ \A q \in Registrars : q # r => registrar'[q] = registrar[q]
  BY DEF RegistryInv, RegistrarType, Done
<1>2. RegistrarType'
  BY Done \in [pc : {"idle", "store", "done"}, code : Nat, type : {""} \cup {w.type : w \in Wanted}]
     DEF RegistryInv, RegistrarType, Done
<1>3. ASSUME NEW q \in Registrars
      PROVE  HoldsItsOpcode(q)'
  <2>1. CASE q = r
    BY <1>1, <2>1 DEF HoldsItsOpcode
  <2>2. CASE q # r
    BY <1>1, <2>2 DEF RegistryInv, HoldsItsOpcode
  <2> QED
    BY <2>1, <2>2
<1> QED
  BY <1>2, <1>3

\* RegisterMessageType up to LoadOrStore keeps the invariant.
LEMMA RegisterKeeps ==
  ASSUME RegistryInv, NEW r \in Registrars, NEW w \in Wanted, NEW empty \in BOOLEAN,
         Register(r, w, empty)
  PROVE  RegistryInv'
<1>1. CASE w.code < 1000 \/ ~empty \/ w.code \in DOMAIN opcodeTbl
  <2>1. registrar' = [registrar EXCEPT ![r] = Done] /\ UNCHANGED <<opcodeTbl, msgTbl>>
    BY <1>1 DEF Register
  <2> QED
    BY <2>1, RegistrarDone, Zenon DEF RegistryInv, RegistryConsistent
<1>2. CASE ~(w.code < 1000 \/ ~empty \/ w.code \in DOMAIN opcodeTbl)
  <2> DEFINE own == [pc |-> "store", code |-> w.code, type |-> w.type]
  <2>1. /\ DOMAIN opcodeTbl' = DOMAIN opcodeTbl \cup {w.code}
        /\ opcodeTbl'[w.code] = w.type
        /\ \A c \in DOMAIN opcodeTbl : opcodeTbl'[c] = opcodeTbl[c]
        /\ msgTbl' = msgTbl
    BY <1>2 DEF Register, Extend
  <2>2. registrar' = [registrar EXCEPT ![r] = own]
    BY <1>2 DEF Register
  <2>3. w.code \in Nat /\ w.type \notin Range(Predefined)
    BY WantedAssumption
  <2>4. RegistrarType'
    BY <2>2, <2>3 DEF RegistryInv, RegistrarType
  <2>5. \A q \in Registrars : registrar'[q] = IF q = r THEN own ELSE registrar[q]
    BY <2>2 DEF RegistryInv, RegistrarType
  <2>6. \A q \in Registrars : HoldsItsOpcode(q)'
    BY <2>1, <2>3, <2>5 DEF RegistryInv, HoldsItsOpcode
  <2>7. RegistryConsistent'
    BY <2>1 DEF RegistryInv, RegistryConsistent
  <2> QED
    BY <2>1, <2>4, <2>6, <2>7 DEF RegistryInv
<1> QED
  BY <1>1, <1>2

\* msgTbl.Store keeps the invariant.
LEMMA RegisterStoreKeeps ==
  ASSUME RegistryInv, NEW r \in Registrars, RegisterStore(r)
  PROVE  RegistryInv'
<1>1. /\ DOMAIN msgTbl' = DOMAIN msgTbl \cup {registrar[r].type}
      /\ msgTbl'[registrar[r].type] = registrar[r].code
      /\ \A t \in DOMAIN msgTbl : t # registrar[r].type => msgTbl'[t] = msgTbl[t]
      /\ opcodeTbl' = opcodeTbl
  BY DEF RegisterStore, Extend
<1>2. /\ registrar[r].code \in DOMAIN opcodeTbl
      /\ opcodeTbl[registrar[r].code] = registrar[r].type
      /\ registrar[r].type \notin Range(Predefined)
  BY DEF RegisterStore, RegistryInv, HoldsItsOpcode
<1>3. \A t \in DOMAIN msgTbl' : msgTbl'[t] \in DOMAIN opcodeTbl' /\ opcodeTbl'[msgTbl'[t]] = t
  BY <1>1, <1>2 DEF RegistryInv, RegistryConsistent
<1>4. \A c \in DOMAIN Predefined :
        opcodeTbl'[c] = Predefined[c] /\ msgTbl'[Predefined[c]] = c
  BY <1>1, <1>2 DEF RegistryInv, RegistryConsistent, Range
<1>5. RegistrarType' /\ \A q \in Registrars : HoldsItsOpcode(q)'
  BY <1>1, RegistrarDone, Zenon DEF RegisterStore
<1> QED
  BY <1>1, <1>3, <1>4, <1>5 DEF RegistryInv, RegistryConsistent

LEMMA RegistryStep ==
  RegistryInv /\ [RegistryNext]_registry => RegistryInv'
<1> SUFFICES ASSUME RegistryInv, [RegistryNext]_registry PROVE RegistryInv'
  OBVIOUS
<1>1. CASE UNCHANGED registry
  BY <1>1 DEF registry, RegistryInv, RegistryConsistent, RegistrarType, HoldsItsOpcode
<1>2. CASE RegistryNext
  BY <1>2, RegisterKeeps, RegisterStoreKeeps DEF RegistryNext
<1> QED
  BY <1>1, <1>2

\* The two tables of package opcode agree and the predefined types keep
\* their opcodes, for any number of goroutines in RegisterMessageType.
THEOREM RegistryAgrees ==
  RegistrySpec => []RegistryConsistent
<1>1. RegistryInv => RegistryConsistent
  BY DEF RegistryInv
<1> QED
  BY <1>1, RegistryStarts, RegistryStep, PTL DEF RegistrySpec

(***************************************************************************)
(* RegisterMessageType's LoadOrStore never rebinds an opcode: a receiver   *)
(* that asks GetMessageType later than the message was sent gets the type  *)
(* it would have got then.                                                 *)
(***************************************************************************)
OpcodesKept ==
  \A c \in DOMAIN opcodeTbl : c \in DOMAIN opcodeTbl' /\ opcodeTbl'[c] = opcodeTbl[c]

THEOREM OpcodesAreKept ==
  RegistrySpec => [][OpcodesKept]_registry
<1>1. ASSUME NEW r \in Registrars, NEW w \in Wanted, NEW empty \in BOOLEAN,
             Register(r, w, empty)
      PROVE  OpcodesKept
  BY <1>1 DEF Register, Extend, OpcodesKept
<1>2. ASSUME NEW r \in Registrars, RegisterStore(r)
      PROVE  OpcodesKept
  BY <1>2 DEF RegisterStore, OpcodesKept
<1>3. RegistryNext => OpcodesKept
  BY <1>1, <1>2 DEF RegistryNext
<1> QED
  BY <1>3, PTL DEF RegistrySpec
=============================================================================
