------------------------------ MODULE Discovery ------------------------------
(***************************************************************************)
(* The discovery plugin of one node: its callbacks Startup, Receive and    *)
(* PeerDisconnect working on one routing table.                            *)
(*                                                                         *)
(* dispatchMessage runs Receive in a goroutine per message, and Close runs *)
(* PeerDisconnect in whatever goroutine calls it, so they interleave at    *)
(* every lock of a bucket.  A Receive that has been started goes on after  *)
(* its session is closed.  What FindNode does is modelled in module Lookup *)
(* and is any set of peers here.                                           *)
(***************************************************************************)
EXTENDS RoutingTable

CONSTANTS
  Contacts,    \* peer.IDs of others; one Id may occur with several addresses
  Reported,    \* peers that the answers to FindNode may name
  Targets,     \* targets that the requests of others may name
  Handlers,    \* bound: goroutines in Receive at a time
  Disabled,    \* the kinds of message switched off by Disable...
  Count,       \* how many peers a lookup asks for
  MaxLearned,  \* bound: peers that FindNode returns
  MaxSessions, \* bound: sessions that come up
  MaxMessages  \* bound: messages that are dispatched

Kinds == {"ping", "pong", "lookup"}

Peers == Contacts \cup Reported \cup Targets \cup {Self}

ASSUME IdAssumption ==
  /\ BucketSize \in Nat /\ Count \in Nat
  /\ Self.Id \in Seq(Bit) /\ Self.Id # <<>>
  /\ \A p \in Peers : p.Id \in Seq(Bit) /\ Len(p.Id) = Len(Self.Id)
  /\ \A c \in Contacts : ~Equals(c, Self)

VARIABLES
  buckets,     \* RoutingTable.buckets
  session,     \* the PeerClient of a contact: down, up, or in PeerDisconnect
  pc,          \* where each Receive stands
  from,        \* its sender
  todo,        \* peers from FindNode that are still to be put in the table
  target,      \* the target of its LookupNodeRequest
  radius,      \* FindClosestPeers: i
  found,       \* FindClosestPeers: peers
  sessions,    \* bound: sessions so far
  messages,    \* bound: messages so far
  stable,      \* history: peers in the table since FindClosestPeers began
  strangers    \* history: peers entered without a session of their own

tableVars == <<buckets, stable>>
taskVars == <<pc, from, todo, target, radius, found>>
bounds == <<sessions, messages>>
vars == <<buckets, session, pc, from, todo, target, radius, found, sessions,
          messages, stable, strangers>>

PC == {"idle", "update", "find", "learn", "first", "down", "up", "sort"}

Known(table) == UNION {Range(table[b]) : b \in BucketIds}

Reading(h) == pc[h] \in {"down", "up", "sort"}

TypeOK ==
  /\ buckets \in [BucketIds -> Seq(Peers)]
  /\ session \in [Contacts -> {"down", "up", "removing"}]
  /\ pc \in [Handlers -> PC]
  /\ from \in [Handlers -> Peers]
  /\ todo \in [Handlers -> SUBSET Peers]
  /\ target \in [Handlers -> Peers]
  /\ radius \in [Handlers -> 0..Len(Self.Id)]
  /\ found \in [Handlers -> Seq(Peers)]
  /\ sessions \in 0..MaxSessions /\ messages \in 0..MaxMessages
  /\ stable \in [Handlers -> SUBSET Peers]
  /\ strangers \in SUBSET Peers

(* Startup creates the table for net.ID. *)
Init ==
  /\ buckets = CreateRoutingTable
  /\ session = [c \in Contacts |-> "down"]
  /\ pc = [h \in Handlers |-> "idle"]
  /\ from = [h \in Handlers |-> Self]
  /\ todo = [h \in Handlers |-> {}]
  /\ target = [h \in Handlers |-> Self]
  /\ radius = [h \in Handlers |-> 0]
  /\ found = [h \in Handlers |-> <<>>]
  /\ sessions = 0 /\ messages = 0
  /\ stable = [h \in Handlers |-> {}]
  /\ strangers = {}

Step(h, here, there) == pc[h] = here /\ pc' = [pc EXCEPT ![h] = there]

(* A change of the table, and what it means for those who are reading it. *)
SetTable(table) ==
  /\ buckets' = table
  /\ stable' = [h \in Handlers |-> IF Reading(h) THEN stable[h] \cap Known(table)
                                   ELSE stable[h]]

HasSession(p) == p \in Contacts /\ session[p] # "down"

Enter(p) ==
  /\ SetTable(Updated(buckets, p))
  /\ strangers' = IF HasSession(p) THEN strangers ELSE strangers \cup {p}

----------------------------------------------------------------------------
(* Sessions, by what discovery sees of them *)

(* Accept has set client.ID. *)
Connect(c) ==
  /\ session[c] = "down"
  /\ sessions < MaxSessions /\ sessions' = sessions + 1
  /\ session' = [session EXCEPT ![c] = "up"]
  /\ UNCHANGED <<tableVars, taskVars, messages, strangers>>

(* PeerDisconnect looks for the peer ... *)
Disconnect(c) ==
  /\ session[c] = "up"
  /\ session' = [session EXCEPT ![c] = IF PeerExists(buckets, c) THEN "removing"
                                       ELSE "down"]
  /\ UNCHANGED <<tableVars, taskVars, bounds, strangers>>

(* ... and removes it, if it is still there. *)
DisconnectRemove(c) ==
  /\ session[c] = "removing"
  /\ session' = [session EXCEPT ![c] = "down"]
  /\ SetTable(RemovePeer(buckets, c))
  /\ strangers' = {p \in strangers : ~Equals(p, c)}
  /\ UNCHANGED <<taskVars, bounds>>

----------------------------------------------------------------------------
(* Receive *)

(* dispatchMessage starts it for a message of a session. *)
Dispatch(h, c) ==
  /\ session[c] = "up"
  /\ Step(h, "idle", "update")
  /\ messages < MaxMessages /\ messages' = messages + 1
  /\ from' = [from EXCEPT ![h] = c]
  /\ UNCHANGED <<tableVars, session, sessions, todo, target, radius, found, strangers>>

(* Every message updates the table; Ping and what is switched off ends there. *)
Receive(h, kind) ==
  /\ Step(h, "update", CASE kind \in Disabled \cup {"ping"} -> "idle"
                         [] kind = "pong" -> "find"
                         [] OTHER -> "first")
  /\ Enter(from[h])
  /\ \E p \in IF kind = "lookup" THEN Targets ELSE {Self} :
       target' = [target EXCEPT ![h] = p]
  /\ from' = [from EXCEPT ![h] = Self]
  /\ UNCHANGED <<session, bounds, todo, radius, found>>

(* FindNode has returned. *)
FindNode(h) ==
  /\ Step(h, "find", "learn")
  /\ \E peers \in SUBSET Reported :
       /\ Cardinality(peers) <= MaxLearned
       /\ todo' = [todo EXCEPT ![h] = peers]
  /\ UNCHANGED <<tableVars, session, bounds, from, target, radius, found, strangers>>

Learn(h) ==
  \E p \in todo[h] :
    /\ Step(h, "learn", "learn")
    /\ Enter(p)
    /\ todo' = [todo EXCEPT ![h] = @ \ {p}]
    /\ UNCHANGED <<session, bounds, from, target, radius, found>>

LearnEnd(h) ==
  /\ todo[h] = {}
  /\ Step(h, "learn", "idle")
  /\ UNCHANGED <<tableVars, session, bounds, from, todo, target, radius, found, strangers>>

----------------------------------------------------------------------------
(* FindClosestPeers: one bucket at a time, outwards from the target's *)

(* The condition of the loop for the next i. *)
Goes(peers, b, i) == Len(peers) < Count /\ (i <= b \/ b + i \in BucketIds)

ReadFirst(h) ==
  /\ LET b == BucketID(target[h])
         peers == IF Len(target[h].Id) # Len(Self.Id) THEN <<>> ELSE buckets[b]
         more == Len(target[h].Id) = Len(Self.Id) /\ Goes(peers, b, 1)
     IN  /\ Step(h, "first", IF more THEN "down" ELSE "sort")
         /\ found' = [found EXCEPT ![h] = peers]
  /\ radius' = [radius EXCEPT ![h] = 1]
  /\ stable' = [stable EXCEPT ![h] = Known(buckets)]
  /\ UNCHANGED <<buckets, session, bounds, from, todo, target, strangers>>

ReadDown(h) ==
  /\ Step(h, "down", "up")
  /\ LET b == BucketID(target[h])
     IN  found' = [found EXCEPT ![h] =
                     @ \o IF radius[h] <= b THEN buckets[b - radius[h]] ELSE <<>>]
  /\ UNCHANGED <<tableVars, session, bounds, from, todo, target, radius, strangers>>

ReadUp(h) ==
  /\ LET b == BucketID(target[h])
         i == radius[h]
         peers == found[h] \o IF b + i \in BucketIds THEN buckets[b + i] ELSE <<>>
     IN  /\ Step(h, "up", IF Goes(peers, b, i + 1) THEN "down" ELSE "sort")
         /\ found' = [found EXCEPT ![h] = peers]
         /\ radius' = [radius EXCEPT ![h] = i + 1]
  /\ UNCHANGED <<tableVars, session, bounds, from, todo, target, strangers>>

Response(h) == Closest(found[h], target[h], Count)

(* The response is sorted, cut off and sent. *)
Respond(h) ==
  /\ Step(h, "sort", "idle")
  /\ found' = [found EXCEPT ![h] = <<>>]
  /\ radius' = [radius EXCEPT ![h] = 0]
  /\ target' = [target EXCEPT ![h] = Self]
  /\ stable' = [stable EXCEPT ![h] = {}]
  /\ UNCHANGED <<buckets, session, bounds, from, todo, strangers>>

----------------------------------------------------------------------------
Next ==
  \/ \E c \in Contacts : Connect(c) \/ Disconnect(c) \/ DisconnectRemove(c)
  \/ \E h \in Handlers :
       \/ \E c \in Contacts : Dispatch(h, c)
       \/ \E kind \in Kinds : Receive(h, kind)
       \/ FindNode(h) \/ Learn(h) \/ LearnEnd(h)
       \/ ReadFirst(h) \/ ReadDown(h) \/ ReadUp(h) \/ Respond(h)

Spec == Init /\ [][Next]_vars

----------------------------------------------------------------------------
(***************************************************************************)
(* Whatever the order of Update and RemovePeer from several goroutines, a  *)
(* peer stands in the bucket of its distance and nowhere else, no Id       *)
(* stands there twice, a bucket holds at most BucketSize + 1 peers         *)
(* (Bucket.Len() <= BucketSize lets one more in), and the node's own entry *)
(* from CreateRoutingTable is still there.                                 *)
(***************************************************************************)
BucketsWellFormed ==
  /\ \A b \in BucketIds :
       /\ Len(buckets[b]) <= BucketSize + 1
       /\ \A i \in DOMAIN buckets[b] : BucketID(buckets[b][i]) = b
       /\ \A i, j \in DOMAIN buckets[b] :
            Equals(buckets[b][i], buckets[b][j]) => i = j
  /\ PeerExists(buckets, Self)

(***************************************************************************)
(* A peer leaves the table only because a session with that Id is closed:  *)
(* Update, also of a full bucket, never drops a peer, and RemovePeer drops *)
(* no other.                                                               *)
(***************************************************************************)
OnlyDisconnectForgets ==
  [][\A p \in Known(buckets) \ Known(buckets') :
       \E c \in Contacts : Equals(c, p) /\ session[c] = "removing"
                           /\ session'[c] = "down"]_vars

(***************************************************************************)
(* An entry of the table, with the address it has there, belongs to a      *)
(* session that is not closed, unless it was entered without one: by a     *)
(* Receive that was still running, or from another node's answer.  This is *)
(* what is left of the comment on Close, that it cleans up the nodes in    *)
(* the routing table, when sessions overlap: Update keeps the old address  *)
(* of a peer that comes back under a new one, and PeerDisconnect removes   *)
(* by Id.                                                                  *)
(***************************************************************************)
GoneAfterDisconnect ==
  \A p \in Known(buckets) : p = Self \/ HasSession(p) \/ p \in strangers

(***************************************************************************)
(* FindClosestPeers reads the buckets one after the other while they       *)
(* change.  Its answer has no peer twice, and a peer that was in the table *)
(* all the time is left out only for Count others; if its bucket was among *)
(* those searched, for Count peers that are nearer to the target.          *)
(***************************************************************************)
ClosestOfStable ==
  \A h \in Handlers : pc[h] = "sort" =>
    LET b == BucketID(target[h])
        searched == {k \in BucketIds : k < b + radius[h] /\ b < k + radius[h]}
        distance(p) == XorID(p, target[h])
        answer == Response(h)
    IN  /\ \A i, j \in DOMAIN answer : Equals(answer[i], answer[j]) => i = j
        /\ \A p \in stable[h] : ~Holds(answer, p) =>
             /\ Len(answer) = Count
             /\ BucketID(p) \in searched =>
                  \A q \in Range(answer) : Less(distance(q), distance(p))
=============================================================================
