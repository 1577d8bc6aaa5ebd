---------------------------- MODULE PeerClients ----------------------------
(***************************************************************************)
(* The life of PeerClient objects on one node: Network.Client (called by   *)
(* Bootstrap, lookups, backoff, applications and Accept), Network.Accept,  *)
(* PeerClient.Close and Network.Close, over the maps peers and connections.*)
(* Close is called by Accept, by Network.Close, and, being a method of     *)
(* net.Conn, by any program or plugin that was handed the client, at any   *)
(* time (the smux sessions of examples/stream do so).                      *)
(*                                                                         *)
(* Every goroutine makes one call of Client; the PeerClient and the        *)
(* ConnState that the call creates are named by that goroutine.  sync.Map  *)
(* operations, channel closes and atomic swaps are one step each, so two   *)
(* goroutines interleave wherever they can in the code.                    *)
(***************************************************************************)
EXTENDS Naturals

CONSTANTS
  Addrs,      \* unified addresses of peers
  Callers,    \* goroutines that only call Client
  Incoming,   \* goroutines running Accept, one per accepted connection
  Users,      \* goroutines of programs and plugins that close a client
  Shutdown,   \* the goroutine running Network.Close
  Target,     \* the address each goroutine calls Client with
  None        \* no client, no connection

Clients == Callers \cup Incoming    \* they are named by who creates them
Goroutines == Clients \cup Users \cup {Shutdown}
Closers == Incoming \cup Users \cup {Shutdown}

ASSUME TargetAssumption == Target \in [Clients -> Addrs]
ASSUME NamesAssumption == /\ None \notin Goroutines
                          /\ Shutdown \notin Clients \cup Users
                          /\ Users \cap Clients = {}
                          /\ Callers \cap Incoming = {}

VARIABLES
  peers,          \* Network.peers
  connections,    \* Network.connections
  pc,             \* where each goroutine stands
  held,           \* the client a goroutine holds
  obj,            \* the fields of the client objects
  toVisit         \* addresses Network.Close has yet to visit

vars == <<peers, connections, pc, held, obj, toVisit>>

CallPC == {"call", "wait", "dial", "undo", "store", "init", "ready", "fail",
           "ok", "err"}
ClosePC == {"close", "notify", "hangup", "unpeer", "unlink", "end"}
PC == CallPC \cup ClosePC \cup {"check", "serve", "running", "visit"}

Channel == {"open", "closed"}

PeerClient ==
  [outgoingReady : Channel,
   incomingReady : Channel,
   id            : {"nil", "set"},
   once          : {"new", "running", "done"},
   plugins       : {"new", "connected"},       \* did Init run PeerConnect?
   closed        : {0, 1},
   disconnects   : Nat,                        \* calls of PeerDisconnect
   socket        : {"none", "open", "shut"},   \* of the client's dial
   closer        : Closers \cup {None},        \* history: who ran Close
   kept          : {0, 1}]                     \* history: did Close find no ID?

(* Faulty variant: a channel is not made. *)
NewClientNilChannel ==
  [outgoingReady |-> "open", incomingReady |-> "nil", id |-> "nil",
   once |-> "new", plugins |-> "new", closed |-> 0,
   disconnects |-> 0, socket |-> "none", closer |-> None, kept |-> 0]

NewClient ==
  [outgoingReady |-> "open", incomingReady |-> "open", id |-> "nil",
   once |-> "new", plugins |-> "new", closed |-> 0,
   disconnects |-> 0, socket |-> "none", closer |-> None, kept |-> 0]

TypeOK ==
  /\ peers \in [Addrs -> Clients \cup {None}]
  /\ connections \in [Addrs -> Clients \cup {None}]
  /\ pc \in [Goroutines -> PC]
  /\ held \in [Goroutines -> Clients \cup {None}]
  /\ obj \in [Clients -> PeerClient]
  /\ toVisit \in SUBSET Addrs

Init ==
  /\ peers = [a \in Addrs |-> None]
  /\ connections = [a \in Addrs |-> None]
  /\ pc = [g \in Goroutines |-> IF g \in Clients THEN "call" ELSE "running"]
  /\ held = [g \in Goroutines |-> None]
  /\ obj = [c \in Clients |-> NewClient]
  /\ toVisit = {}

Step(g, from, to) == pc[g] = from /\ pc' = [pc EXCEPT ![g] = to]

----------------------------------------------------------------------------
(* Faulty variants, for checking that the properties notice them. *)

(* The cached client is returned whether it is ready or not. *)
WaitNot(g) ==
  /\ Step(g, "wait", "ok")
  /\ UNCHANGED <<peers, connections, held, obj, toVisit>>

(* Every Accept runs what client.Do runs once. *)
EnterEvery(g) ==
  /\ Step(g, "ok", "check")
  /\ obj' = [obj EXCEPT ![held[g]].once = "running", ![held[g]].id = "set"]
  /\ UNCHANGED <<peers, connections, held, toVisit>>

(* client.Do does not set the ID. *)
EnterOnceNameless(g) ==
  /\ Step(g, "ok", "check")
  /\ obj[held[g]].once = "new"
  /\ obj' = [obj EXCEPT ![held[g]].once = "running"]
  /\ UNCHANGED <<peers, connections, held, toVisit>>

(* The result of SwapUint32 is not looked at. *)
SwapUnchecked(g) ==
  /\ Step(g, "close", "notify")
  /\ obj' = [obj EXCEPT ![held[g]].closed = 1, ![held[g]].closer = g]
  /\ UNCHANGED <<peers, connections, held, toVisit>>

DeletePeerMissing(g) ==
  /\ Step(g, "unpeer", "unlink")
  /\ UNCHANGED <<peers, connections, held, obj, toVisit>>

DeleteConnectionMissing(g) ==
  /\ Step(g, "unlink", IF g = Shutdown THEN "visit" ELSE "end")
  /\ UNCHANGED <<peers, connections, held, obj, toVisit>>

----------------------------------------------------------------------------
(* Network.Client *)

(* The address does not parse or is the node's own. *)
RefuseAddress(g) ==
  /\ Step(g, "call", "err")
  /\ UNCHANGED <<peers, connections, held, obj, toVisit>>

(* peers.LoadOrStore: wait for the client that is there, or dial. *)
LoadOrStore(g) ==
  /\ IF peers[Target[g]] # None
       THEN /\ Step(g, "call", "wait")
            /\ held' = [held EXCEPT ![g] = peers[Target[g]]]
            /\ UNCHANGED peers
       ELSE /\ Step(g, "call", "dial")
            /\ held' = [held EXCEPT ![g] = g]
            /\ peers' = [peers EXCEPT ![Target[g]] = g]
  /\ UNCHANGED <<connections, obj, toVisit>>

(* IsOutgoingReady of the cached client: the channel, or one second. *)
WaitReady(g) ==
  /\ Step(g, "wait", "ok")
  /\ obj[held[g]].outgoingReady = "closed"
  /\ UNCHANGED <<peers, connections, held, obj, toVisit>>

WaitTimeout(g) ==
  /\ Step(g, "wait", "err")
  /\ obj[held[g]].outgoingReady = "open"
  /\ held' = [held EXCEPT ![g] = None]
  /\ UNCHANGED <<peers, connections, obj, toVisit>>

DialSucceeds(g) ==
  /\ Step(g, "dial", "store")
  /\ obj' = [obj EXCEPT ![g].socket = "open"]
  /\ UNCHANGED <<peers, connections, held, toVisit>>

DialFails(g) ==
  /\ Step(g, "dial", "undo")
  /\ UNCHANGED <<peers, connections, held, obj, toVisit>>

UndoPeer(g) ==
  /\ Step(g, "undo", "fail")
  /\ peers' = [peers EXCEPT ![Target[g]] = None]
  /\ UNCHANGED <<connections, held, obj, toVisit>>

StoreConnection(g) ==
  /\ Step(g, "store", "init")
  /\ connections' = [connections EXCEPT ![Target[g]] = g]
  /\ UNCHANGED <<peers, held, obj, toVisit>>

(* PeerClient.Init: PeerConnect of every plugin, then the job executor. *)
InitClient(g) ==
  /\ Step(g, "init", "ready")
  /\ obj' = [obj EXCEPT ![g].plugins = "connected"]
  /\ UNCHANGED <<peers, connections, held, toVisit>>

(* The deferred setOutgoingReady runs on both ways out of the dial. *)
SetOutgoingReady(g) ==
  /\ \/ Step(g, "ready", "ok") /\ UNCHANGED held
     \/ Step(g, "fail", "err") /\ held' = [held EXCEPT ![g] = None]
  /\ obj' = [obj EXCEPT ![g].outgoingReady = "closed"]
  /\ UNCHANGED <<peers, connections, toVisit>>

Client(g) ==
  \/ RefuseAddress(g) \/ LoadOrStore(g) \/ WaitReady(g) \/ WaitTimeout(g)
  \/ DialSucceeds(g) \/ DialFails(g) \/ UndoPeer(g)
  \/ StoreConnection(g) \/ InitClient(g) \/ SetOutgoingReady(g)

----------------------------------------------------------------------------
(* Network.Accept, from the return of its call of Client *)

AcceptFailed(g) ==
  /\ Step(g, "err", "end")
  /\ UNCHANGED <<peers, connections, held, obj, toVisit>>

(* client.Do: the first caller sets the ID; a caller that comes while it   *)
(* runs waits for it.                                                      *)
EnterOnce(g) ==
  /\ Step(g, "ok", "check")
  /\ obj[held[g]].once = "new"
  /\ obj' = [obj EXCEPT ![held[g]].once = "running", ![held[g]].id = "set"]
  /\ UNCHANGED <<peers, connections, held, toVisit>>

PassOnce(g) ==
  /\ Step(g, "ok", "serve")
  /\ obj[held[g]].once = "done"
  /\ UNCHANGED <<peers, connections, held, obj, toVisit>>

(* Without a connection Accept gives up, but is ready all the same. *)
SetIncomingReady(g) ==
  /\ Step(g, "check",
          IF connections[Target[held[g]]] # None THEN "serve" ELSE "close")
  /\ obj' = [obj EXCEPT ![held[g]].once = "done",
                        ![held[g]].incomingReady = "closed"]
  /\ UNCHANGED <<peers, connections, held, toVisit>>

(* The incoming connection ends: receiveMessage returns an error. *)
Disconnect(g) ==
  /\ Step(g, "serve", "close")
  /\ UNCHANGED <<peers, connections, held, obj, toVisit>>

----------------------------------------------------------------------------
(* PeerClient.Close, called by the deferred part of Accept, by             *)
(* Network.Close and by users for the client that the goroutine holds      *)

(* PeerConnect gave the client to the plugins, or Client to its caller. *)
HandedOut(c) ==
  \/ obj[c].plugins = "connected"
  \/ \E g \in Callers : pc[g] = "ok" /\ held[g] = c

CallClose(g) ==
  /\ Step(g, "running", "close")
  /\ \E c \in Clients : HandedOut(c) /\ held' = [held EXCEPT ![g] = c]
  /\ UNCHANGED <<peers, connections, obj, toVisit>>

Return(g) == IF g = Shutdown THEN "visit" ELSE "end"

CloseAgain(g) ==
  /\ Step(g, "close", Return(g))
  /\ obj[held[g]].closed = 1
  /\ UNCHANGED <<peers, connections, held, obj, toVisit>>

SwapClosed(g) ==
  /\ Step(g, "close", "notify")
  /\ obj[held[g]].closed = 0
  /\ obj' = [obj EXCEPT ![held[g]].closed = 1, ![held[g]].closer = g]
  /\ UNCHANGED <<peers, connections, held, toVisit>>

(* PeerDisconnect of every plugin; then the test of ID. *)
PeerDisconnect(g) ==
  /\ Step(g, "notify", "hangup")
  /\ obj' = [obj EXCEPT ![held[g]].disconnects = @ + 1]
  /\ UNCHANGED <<peers, connections, held, toVisit>>

KeepEntries(g) ==
  /\ Step(g, "hangup", Return(g))
  /\ obj[held[g]].id = "nil"
  /\ obj' = [obj EXCEPT ![held[g]].kept = 1]
  /\ UNCHANGED <<peers, connections, held, toVisit>>

CloseConnection(g) ==
  /\ Step(g, "hangup", "unpeer")
  /\ obj[held[g]].id = "set"
  /\ obj' = [c \in Clients |->
               IF c = connections[Target[held[g]]]
                 THEN [obj[c] EXCEPT !.socket = "shut"] ELSE obj[c]]
  /\ UNCHANGED <<peers, connections, held, toVisit>>

DeletePeer(g) ==
  /\ Step(g, "unpeer", "unlink")
  /\ peers' = [peers EXCEPT ![Target[held[g]]] = None]
  /\ UNCHANGED <<connections, held, obj, toVisit>>

DeleteConnection(g) ==
  /\ Step(g, "unlink", Return(g))
  /\ connections' = [connections EXCEPT ![Target[held[g]]] = None]
  /\ UNCHANGED <<peers, held, obj, toVisit>>

Close(g) ==
  \/ CloseAgain(g) \/ SwapClosed(g) \/ PeerDisconnect(g) \/ KeepEntries(g)
  \/ CloseConnection(g) \/ DeletePeer(g) \/ DeleteConnection(g)

Accept(g) ==
  \/ AcceptFailed(g) \/ EnterOnce(g) \/ PassOnce(g) \/ SetIncomingReady(g)
  \/ Close(g)

----------------------------------------------------------------------------
(* Network.Close *)

CloseNetwork ==
  /\ Step(Shutdown, "running", "visit")
  /\ toVisit' = Addrs
  /\ UNCHANGED <<peers, connections, held, obj>>

(* peers.Range visits every address once, at some moment. *)
Visit(a) ==
  /\ a \in toVisit
  /\ toVisit' = toVisit \ {a}
  /\ IF peers[a] = None
       THEN Step(Shutdown, "visit", "visit") /\ UNCHANGED held
       ELSE /\ Step(Shutdown, "visit", "close")
            /\ held' = [held EXCEPT ![Shutdown] = peers[a]]
  /\ UNCHANGED <<peers, connections, obj>>

Next ==
  \/ \E g \in Clients : Client(g)
  \/ \E g \in Incoming : Accept(g) \/ Disconnect(g)
  \/ CloseNetwork
  \/ \E a \in Addrs : Visit(a)
  \/ \E g \in Users : CallClose(g)
  \/ \E g \in Users \cup {Shutdown} : Close(g)

Spec == Init /\ [][Next]_vars

(* Goroutines that can run are run, Dial and the plugins return; nothing   *)
(* makes an incoming connection end, a user call Close or the network shut *)
(* down.                                                                   *)
Fairness ==
  /\ \A g \in Clients : WF_vars(Client(g))
  /\ \A g \in Incoming : WF_vars(Accept(g))
  /\ \A g \in Users \cup {Shutdown} : WF_vars(Close(g))
  /\ \A a \in Addrs : WF_vars(Visit(a))

FairSpec == Spec /\ Fairness

----------------------------------------------------------------------------
(* Client returned an error to the goroutine that created c. *)
DialFailed(c) == obj[c].outgoingReady = "closed" /\ obj[c].socket = "none"

(***************************************************************************)
(* No goroutine is about to close a channel that is closed already, which  *)
(* would panic: the deferred setOutgoingReady runs once per client, and    *)
(* setIncomingReady once although several Accepts share the client.        *)
(***************************************************************************)
NoDoubleClose ==
  /\ \A g \in Clients : pc[g] \in {"ready", "fail"} => obj[g].outgoingReady = "open"
  /\ \A g \in Incoming : pc[g] = "check" => obj[held[g]].incomingReady = "open"

(***************************************************************************)
(* Plugins hear of the end of a client at most once, however many Accepts, *)
(* users and Network.Close close it.                                       *)
(***************************************************************************)
DisconnectedOnce == \A c \in Clients : obj[c].disconnects <= 1

(***************************************************************************)
(* PeerDisconnect without a PeerConnect before it reaches the plugins only *)
(* for a client whose dial failed, or which Network.Close closed while it  *)
(* was being dialled.                                                      *)
(***************************************************************************)
DisconnectAfterConnect ==
  \A c \in Clients :
    obj[c].disconnects > 0 =>
      \/ obj[c].plugins = "connected" \/ DialFailed(c)
      \/ obj[c].closer = Shutdown

(***************************************************************************)
(* A connection that Write finds in connections has an open socket, unless *)
(* some Close for the address is just about to delete the entry.           *)
(***************************************************************************)
RegisteredSocketOpen ==
  \A a \in Addrs :
    connections[a] # None =>
      \/ obj[connections[a]].socket = "open"
      \/ \E g \in Closers :
           pc[g] \in {"unpeer", "unlink"} /\ Target[held[g]] = a

(***************************************************************************)
(* A closed client does not stay in peers, where Client would hand it out  *)
(* again, unless Close found it without an ID.                             *)
(***************************************************************************)
ClosedLeavesPeers ==
  \A c \in Clients :
    (obj[c].closed = 1) ~> (peers[Target[c]] # c \/ obj[c].kept = 1)

(***************************************************************************)
(* Close finds a client without an ID, and leaves its entries, only if     *)
(* Network.Close or a user of the client calls it: whichever Accept of the *)
(* peer comes to Close first, some Accept has set the ID by then.          *)
(***************************************************************************)
AcceptCleansUp ==
  \A c \in Clients : obj[c].kept = 1 => obj[c].closer \notin Incoming

(***************************************************************************)
(* peers is kept "so that the Network doesn't dial multiple times to the   *)
(* same ip": two calls never dial the same address at the same time.       *)
(***************************************************************************)
SingleDial ==
  \A g, h \in Clients :
    pc[g] = "dial" /\ pc[h] = "dial" /\ Target[g] = Target[h] => g = h
=============================================================================
