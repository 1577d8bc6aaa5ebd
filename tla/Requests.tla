------------------------------ MODULE Requests ------------------------------
(***************************************************************************)
(* Requests from one node to a peer and the peer's replies:                *)
(* PeerClient.Request, PeerClient.Reply and the reply branch of            *)
(* Network.dispatchMessage.                                                *)
(*                                                                         *)
(* Each session is one PeerClient object of the requesting node, with its  *)
(* own Requests map, RequestNonce and job executor; a reconnection starts  *)
(* the next one.  Messages travel over the connection that is registered   *)
(* for the peer's address when they are written, so a goroutine that still *)
(* holds a client of an earlier session writes into the current one.  The  *)
(* order of messages does not matter here (module Delivery): what is in    *)
(* flight is a set.                                                        *)
(***************************************************************************)
EXTENDS Naturals

CONSTANTS
  Calls,        \* calls of Request
  Background,   \* those whose context is never done (context.Background())
  MaxSessions,  \* bound: PeerClients the node has for the peer, one by one
  MaxNonce,     \* bound: requests made on one PeerClient
  MaxReplies,   \* bound: replies the peer's plugins send to one request
  None          \* no call, no reply

Sessions == 1..MaxSessions
Nonces == 1..MaxNonce

ASSUME BoundsAssumption ==
  MaxSessions \in Nat \ {0} /\ MaxNonce \in Nat /\ MaxReplies \in Nat

VARIABLES
  session,       \* the session whose client is registered in peers
  requestNonce,  \* PeerClient.RequestNonce of each session
  requests,      \* PeerClient.Requests of each session: nonce -> call
  pc,            \* where each call of Request stands
  sess,          \* the client a call was made on
  nonce,         \* the RequestNonce a call took
  data,          \* RequestState.data, a channel of capacity 1
  released,      \* calls whose RequestState.closeSignal is closed
  result,        \* what a call returned: a reply, or None for an error
  asked,         \* requests delivered to the peer or on the way to it
  replies,       \* how many replies the peer wrote to a request
  inFlight,      \* replies on the way back
  executor,      \* the reply that a session's executor is handing over
  unclaimed      \* history: replies handed to the plugins instead

vars == <<session, requestNonce, requests, pc, sess, nonce, data, released,
          result, asked, replies, inFlight, executor, unclaimed>>

(* A reply: to which call, its number, and the session it arrives in. *)
Reply == [call : Calls, number : 1..MaxReplies, session : Sessions]

(* What an executor is at: a reply and the call it hands it to. *)
Handover == [reply : Reply, call : Calls]

ASSUME NoneAssumption == None \notin Calls \cup Reply \cup Handover

PC == {"idle", "write", "track", "wait", "untrack", "release", "done"}

TypeOK ==
  /\ session \in Sessions
  /\ requestNonce \in [Sessions -> 0..MaxNonce]
  /\ requests \in [Sessions -> [Nonces -> Calls \cup {None}]]
  /\ pc \in [Calls -> PC]
  /\ sess \in [Calls -> Sessions]
  /\ nonce \in [Calls -> Nonces \cup {0}]
  /\ data \in [Calls -> Reply \cup {None}]
  /\ released \in SUBSET Calls
  /\ result \in [Calls -> Reply \cup {None}]
  /\ asked \in SUBSET Calls
  /\ replies \in [Calls -> 0..MaxReplies]
  /\ inFlight \in SUBSET Reply
  /\ executor \in [Sessions -> Handover \cup {None}]
  /\ unclaimed \in SUBSET Reply

Init ==
  /\ session = 1
  /\ requestNonce = [s \in Sessions |-> 0]
  /\ requests = [s \in Sessions |-> [n \in Nonces |-> None]]
  /\ pc = [c \in Calls |-> "idle"]
  /\ sess = [c \in Calls |-> 1]
  /\ nonce = [c \in Calls |-> 0]
  /\ data = [c \in Calls |-> None]
  /\ released = {}
  /\ result = [c \in Calls |-> None]
  /\ asked = {}
  /\ replies = [c \in Calls |-> 0]
  /\ inFlight = {}
  /\ executor = [s \in Sessions |-> None]
  /\ unclaimed = {}

Step(c, from, to) == pc[c] = from /\ pc' = [pc EXCEPT ![c] = to]

callVars == <<session, asked, replies, inFlight, executor, unclaimed>>
peerVars == <<session, requestNonce, requests, pc, sess, nonce, data, released,
              result>>

----------------------------------------------------------------------------
(* Faulty variants, for checking that the properties notice them. *)

(* The counter is read by the call, and counted up when the next one reads. *)
TakeNonceShared(c) ==
  \E s \in 1..session :
    /\ Step(c, "idle", "write")
    /\ sess' = [sess EXCEPT ![c] = s]
    /\ nonce' = [nonce EXCEPT ![c] = requestNonce[s] + 1]
    /\ \E n \in {requestNonce[s], requestNonce[s] + 1} :
         requestNonce' = [requestNonce EXCEPT ![s] = n]
    /\ UNCHANGED <<callVars, requests, data, released, result>>

(* The reply is sent with what came with it. *)
HandOverAll(s) ==
  /\ executor[s] # None
  /\ data[executor[s].call] = None
  /\ data' = [data EXCEPT ![executor[s].call] = executor[s]]
  /\ executor' = [executor EXCEPT ![s] = None]
  /\ UNCHANGED <<session, requestNonce, requests, pc, sess, nonce, released,
                 result, asked, replies, inFlight, unclaimed>>

(* closeSignal stays open. *)
ReleaseMissing(c) ==
  /\ Step(c, "release", "done")
  /\ UNCHANGED <<callVars, requestNonce, requests, sess, nonce, data, released,
                 result>>

(* The first reply removes the entry. *)
DispatchOnce(r) ==
  /\ r \in inFlight
  /\ executor[r.session] = None
  /\ LET waiter == requests[r.session][nonce[r.call]]
     IN  IF waiter # None
           THEN /\ executor' = [executor EXCEPT ![r.session] =
                                  [reply |-> r, call |-> waiter]]
                /\ requests' = [requests EXCEPT ![r.session][nonce[r.call]] = None]
                /\ UNCHANGED unclaimed
           ELSE /\ unclaimed' = unclaimed \cup {r}
                /\ UNCHANGED <<executor, requests>>
  /\ inFlight' = inFlight \ {r}
  /\ UNCHANGED <<session, requestNonce, pc, sess, nonce, data, released, result,
                 asked, replies>>

----------------------------------------------------------------------------
(* PeerClient.Request *)

(* The context is done before the call starts, or the message is not signed. *)
Refuse(c) ==
  /\ Step(c, "idle", "done")
  /\ UNCHANGED <<callVars, requestNonce, requests, sess, nonce, data, released,
                 result>>

(* The caller holds the client of this session or still an earlier one. *)
TakeNonce(c) ==
  \E s \in 1..session :
    /\ requestNonce[s] < MaxNonce
    /\ Step(c, "idle", "write")
    /\ sess' = [sess EXCEPT ![c] = s]
    /\ requestNonce' = [requestNonce EXCEPT ![s] = @ + 1]
    /\ nonce' = [nonce EXCEPT ![c] = requestNonce[s] + 1]
    /\ UNCHANGED <<callVars, requests, data, released, result>>

(* The request is on its way before it is tracked. *)
WriteRequest(c) ==
  /\ Step(c, "write", "track")
  /\ asked' = asked \cup {c}
  /\ UNCHANGED <<session, requestNonce, requests, sess, nonce, data, released,
                 result, replies, inFlight, executor, unclaimed>>

WriteFails(c) ==
  /\ Step(c, "write", "done")
  /\ UNCHANGED <<callVars, requestNonce, requests, sess, nonce, data, released,
                 result>>

Track(c) ==
  /\ Step(c, "track", "wait")
  /\ requests' = [requests EXCEPT ![sess[c]][nonce[c]] = c]
  /\ UNCHANGED <<callVars, requestNonce, sess, nonce, data, released, result>>

TakeReply(c) ==
  /\ Step(c, "wait", "untrack")
  /\ data[c] # None
  /\ result' = [result EXCEPT ![c] = data[c]]
  /\ data' = [data EXCEPT ![c] = None]
  /\ UNCHANGED <<callVars, requestNonce, requests, sess, nonce, released>>

ContextDone(c) ==
  /\ c \notin Background
  /\ Step(c, "wait", "untrack")
  /\ UNCHANGED <<callVars, requestNonce, requests, sess, nonce, data, released,
                 result>>

(* The deferred calls, last one first. *)
Untrack(c) ==
  /\ Step(c, "untrack", "release")
  /\ requests' = [requests EXCEPT ![sess[c]][nonce[c]] = None]
  /\ UNCHANGED <<callVars, requestNonce, sess, nonce, data, released, result>>

Release(c) ==
  /\ Step(c, "release", "done")
  /\ released' = released \cup {c}
  /\ UNCHANGED <<callVars, requestNonce, requests, sess, nonce, data, result>>

Request(c) ==
  \/ Refuse(c) \/ TakeNonce(c) \/ WriteRequest(c) \/ WriteFails(c) \/ Track(c)
  \/ TakeReply(c) \/ ContextDone(c) \/ Untrack(c) \/ Release(c)

----------------------------------------------------------------------------
(* The peer's plugins, the connection, and dispatchMessage *)

(* ctx.Reply, as often as plugins call it, into the current connection. *)
SendReply(c) ==
  /\ c \in asked
  /\ replies[c] < MaxReplies
  /\ replies' = [replies EXCEPT ![c] = @ + 1]
  /\ inFlight' = inFlight \cup
       {[call |-> c, number |-> replies[c] + 1, session |-> session]}
  /\ UNCHANGED <<peerVars, asked, executor, unclaimed>>

(* The old client is closed and a new one takes its place. *)
Reconnect ==
  /\ session < MaxSessions
  /\ session' = session + 1
  /\ UNCHANGED <<requestNonce, requests, pc, sess, nonce, data, released, result,
                 asked, replies, inFlight, executor, unclaimed>>

(* Lost with its connection, or dropped by dispatchMessage because its       *)
(* opcode is not registered or its body cannot be unmarshalled.            *)
LoseReply(r) ==
  /\ r \in inFlight
  /\ inFlight' = inFlight \ {r}
  /\ UNCHANGED <<peerVars, asked, replies, executor, unclaimed>>

(* dispatchMessage looks the nonce up in the client of the connection. *)
DispatchReply(r) ==
  /\ r \in inFlight
  /\ executor[r.session] = None
  /\ LET waiter == requests[r.session][nonce[r.call]]
     IN  IF waiter # None
           THEN /\ executor' = [executor EXCEPT ![r.session] =
                                  [reply |-> r, call |-> waiter]]
                /\ UNCHANGED unclaimed
           ELSE /\ unclaimed' = unclaimed \cup {r}
                /\ UNCHANGED executor
  /\ inFlight' = inFlight \ {r}
  /\ UNCHANGED <<peerVars, asked, replies>>

(* Its select: the channel has room, or the call has gone. *)
HandOver(s) ==
  /\ executor[s] # None
  /\ data[executor[s].call] = None
  /\ data' = [data EXCEPT ![executor[s].call] = executor[s].reply]
  /\ executor' = [executor EXCEPT ![s] = None]
  /\ UNCHANGED <<session, requestNonce, requests, pc, sess, nonce, released,
                 result, asked, replies, inFlight, unclaimed>>

GiveUp(s) ==
  /\ executor[s] # None
  /\ executor[s].call \in released
  /\ executor' = [executor EXCEPT ![s] = None]
  /\ UNCHANGED <<peerVars, asked, replies, inFlight, unclaimed>>

Next ==
  \/ \E c \in Calls : Request(c) \/ SendReply(c)
  \/ Reconnect
  \/ \E r \in inFlight : LoseReply(r) \/ DispatchReply(r)
  \/ \E s \in Sessions : HandOver(s) \/ GiveUp(s)

Spec == Init /\ [][Next]_vars

(* A call goes on once it can, and so do the executors.  Neither the       *)
(* peer's replies nor the end of a context is assumed to come.             *)
Fairness ==
  /\ \A c \in Calls :
       WF_vars(Track(c) \/ TakeReply(c) \/ Untrack(c) \/ Release(c))
  /\ \A s \in Sessions : WF_vars(HandOver(s) \/ GiveUp(s))

FairSpec == Spec /\ Fairness

----------------------------------------------------------------------------
(***************************************************************************)
(* While a call waits, its client's Requests map leads from its nonce to   *)
(* it: no other call of the same client takes or deletes its entry.        *)
(***************************************************************************)
TrackedWhileWaiting ==
  \A c \in Calls : pc[c] = "wait" => requests[sess[c]][nonce[c]] = c

(***************************************************************************)
(* A call that returns a reply which came back over the session it was     *)
(* asked in returns the reply to its own request, whatever other calls,    *)
(* second replies and late replies do.                                     *)
(***************************************************************************)
SameSessionReply ==
  \A c \in Calls :
    result[c] # None /\ result[c].session = sess[result[c].call]
      => result[c].call = c

(***************************************************************************)
(* dispatchMessage hands a reply to the plugins only when the call it      *)
(* answers is not waiting on that client: it is past, or not tracked yet.  *)
(***************************************************************************)
NotMissed ==
  [][\A r \in unclaimed' \ unclaimed :
       ~(pc[r.call] = "wait" /\ sess[r.call] = r.session)]_vars

(***************************************************************************)
(* The executor of a client is never held up for good by a reply that      *)
(* nobody takes (a second reply to the same request, a reply that races    *)
(* the end of the context).                                                *)
(***************************************************************************)
ExecutorFreed == \A s \in Sessions : (executor[s] # None) ~> (executor[s] = None)

(***************************************************************************)
(* request_nonce "is the request/response ID": what Request returns is a   *)
(* reply to its own request.                                               *)
(***************************************************************************)
ReplyMatches == \A c \in Calls : result[c] # None => result[c].call = c
=============================================================================
