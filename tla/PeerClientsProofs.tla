------------------------- MODULE PeerClientsProofs -------------------------
(***************************************************************************)
(* Proofs about module PeerClients, for any addresses, any number of       *)
(* callers, of incoming connections and of users that close their clients, *)
(* and whatever they dial.                                                 *)
(*                                                                         *)
(* The inductive invariant ClientInv adds to the properties what ties a    *)
(* goroutine's position to the client it works on: who owns a client that  *)
(* is being dialled, who runs its sync.Once, who runs its Close.           *)
(***************************************************************************)
EXTENDS PeerClients, TLAPS

Dialling == {"dial", "undo", "store", "init", "ready", "fail"}
Serving == {"ok", "check", "serve"}
Closing == {"close", "notify", "hangup", "unpeer", "unlink"}

(* Whose client a goroutine holds where it uses it. *)
HeldOK ==
  \A g \in Goroutines :
    /\ pc[g] \in Dialling => g \in Clients /\ held[g] = g
    /\ pc[g] \in Serving \cup Closing \cup {"wait"} => held[g] \in Clients

(* Client returns a client, which Accept may serve and close then, only    *)
(* after its creator closed outgoingReady; plugins get it a little earlier.*)
ReadyOK ==
  /\ \A g \in Clients :
       pc[g] \in Dialling \cup {"call", "wait"} => obj[g].outgoingReady = "open"
  /\ \A g \in Clients :
       pc[g] \in Serving \cup Closing => obj[held[g]].outgoingReady = "closed"
  /\ \A g \in Users :
       pc[g] \in Closing => \/ obj[held[g]].outgoingReady = "closed"
                           \/ obj[held[g]].plugins = "connected"

(* One Accept runs the sync.Once of a client, and closes incomingReady. *)
OnceOK ==
  /\ \A g \in Incoming : pc[g] = "check" => obj[held[g]].once = "running"
  /\ \A g, h \in Incoming :
       pc[g] = "check" /\ pc[h] = "check" /\ held[g] = held[h] => g = h
  /\ \A c \in Clients : obj[c].once # "done" => obj[c].incomingReady = "open"

(* The ID is set by the first Accept, before any Accept serves or closes. *)
NamedOK ==
  /\ \A c \in Clients : obj[c].once # "new" => obj[c].id = "set"
  /\ \A g \in Incoming :
       pc[g] \in {"check", "serve"} \cup Closing => obj[held[g]].id = "set"

(* One goroutine gets past the swap of closed. *)
CloseOK ==
  /\ \A g \in Closers :
       /\ pc[g] = "notify" => obj[held[g]].disconnects = 0
       /\ pc[g] \in {"notify", "hangup"} => /\ obj[held[g]].closed = 1
                                            /\ obj[held[g]].closer = g
  /\ \A g, h \in Closers :
       pc[g] = "notify" /\ pc[h] = "notify" /\ held[g] = held[h] => g = h
  /\ \A c \in Clients : obj[c].closed = 0 => obj[c].disconnects = 0 /\ obj[c].kept = 0

(* What the dial has done so far. *)
DialOK ==
  \A c \in Clients :
    /\ pc[c] \in {"call", "wait", "dial", "undo", "fail"} => obj[c].socket = "none"
    /\ pc[c] = "store" => obj[c].socket = "open"
    /\ pc[c] = "ready" => obj[c].plugins = "connected"
    /\ obj[c].outgoingReady = "closed" =>
         obj[c].plugins = "connected" \/ obj[c].socket = "none"

(* A registered connection was dialled, by a client of that address. *)
RegisteredOK ==
  \A a \in Addrs : connections[a] # None =>
    /\ Target[connections[a]] = a
    /\ obj[connections[a]].socket # "none"
    /\ pc[connections[a]] \notin {"call", "wait", "dial", "undo", "store", "fail"}

ClientInv ==
  /\ TypeOK /\ HeldOK /\ ReadyOK /\ OnceOK /\ NamedOK /\ CloseOK /\ DialOK
  /\ RegisteredOK /\ DisconnectedOnce /\ DisconnectAfterConnect
  /\ RegisteredSocketOpen /\ AcceptCleansUp

----------------------------------------------------------------------------
(* The invariant holds before any goroutine has run. *)
LEMMA InitClientInv == Init => ClientInv
<1> SUFFICES ASSUME Init PROVE ClientInv
  OBVIOUS
<1> USE NamesAssumption DEF Init, NewClient
<1>1. TypeOK
  BY DEF TypeOK, PC, CallPC, ClosePC, Goroutines, PeerClient, Channel
<1>2. \A g \in Goroutines : pc[g] \in {"call", "running"}
  BY DEF Goroutines
<1>3. HeldOK /\ ReadyOK /\ OnceOK /\ NamedOK /\ CloseOK /\ RegisteredOK
  BY <1>2 DEF HeldOK, ReadyOK, OnceOK, NamedOK, CloseOK, RegisteredOK, Dialling, Serving,
              Closing, Goroutines, Closers, Clients
<1>4. DialOK
  BY <1>2 DEF DialOK, Goroutines
<1>5. DisconnectedOnce /\ DisconnectAfterConnect /\ RegisteredSocketOpen /\ AcceptCleansUp
  BY DEF DisconnectedOnce, DisconnectAfterConnect, RegisteredSocketOpen, AcceptCleansUp
<1> QED BY <1>1, <1>3, <1>4, <1>5 DEF ClientInv

(* No step of any goroutine leaves the types. *)
LEMMA StepTypeOK == ClientInv /\ [Next]_vars => TypeOK'
<1> SUFFICES ASSUME ClientInv, [Next]_vars PROVE TypeOK'
  OBVIOUS
<1> USE TargetAssumption, NamesAssumption
       DEF ClientInv, TypeOK, Step, PC, CallPC, ClosePC, Goroutines, Clients, Closers,
           HeldOK, Dialling, Serving, Closing, PeerClient,
           Channel
<1>1. ASSUME NEW g \in Clients, RefuseAddress(g) PROVE TypeOK'
  BY <1>1 DEF RefuseAddress
<1>2. ASSUME NEW g \in Clients, LoadOrStore(g) PROVE TypeOK'
  BY <1>2 DEF LoadOrStore
<1>3. ASSUME NEW g \in Clients, WaitReady(g) PROVE TypeOK'
  BY <1>3 DEF WaitReady
<1>4. ASSUME NEW g \in Clients, WaitTimeout(g) PROVE TypeOK'
  BY <1>4 DEF WaitTimeout
<1>5. ASSUME NEW g \in Clients, DialSucceeds(g) PROVE TypeOK'
  BY <1>5 DEF DialSucceeds
<1>6. ASSUME NEW g \in Clients, DialFails(g) PROVE TypeOK'
  BY <1>6 DEF DialFails
<1>7. ASSUME NEW g \in Clients, UndoPeer(g) PROVE TypeOK'
  BY <1>7 DEF UndoPeer
<1>8. ASSUME NEW g \in Clients, StoreConnection(g) PROVE TypeOK'
  BY <1>8 DEF StoreConnection
<1>9. ASSUME NEW g \in Clients, InitClient(g) PROVE TypeOK'
  BY <1>9 DEF InitClient
<1>10. ASSUME NEW g \in Clients, SetOutgoingReady(g) PROVE TypeOK'
  BY <1>10 DEF SetOutgoingReady
<1>11. ASSUME NEW g \in Incoming, AcceptFailed(g) PROVE TypeOK'
  BY <1>11 DEF AcceptFailed
<1>12. ASSUME NEW g \in Incoming, EnterOnce(g) PROVE TypeOK'
  BY <1>12 DEF EnterOnce
<1>13. ASSUME NEW g \in Incoming, PassOnce(g) PROVE TypeOK'
  BY <1>13 DEF PassOnce
<1>14. ASSUME NEW g \in Incoming, SetIncomingReady(g) PROVE TypeOK'
  BY <1>14 DEF SetIncomingReady
<1>15. ASSUME NEW g \in Incoming, Disconnect(g) PROVE TypeOK'
  BY <1>15 DEF Disconnect
<1>16. ASSUME NEW g \in Closers, CloseAgain(g) PROVE TypeOK'
  BY <1>16 DEF CloseAgain, Return
<1>17. ASSUME NEW g \in Closers, SwapClosed(g) PROVE TypeOK'
  BY <1>17 DEF SwapClosed
<1>18. ASSUME NEW g \in Closers, PeerDisconnect(g) PROVE TypeOK'
  BY <1>18 DEF PeerDisconnect
<1>19. ASSUME NEW g \in Closers, KeepEntries(g) PROVE TypeOK'
  BY <1>19 DEF KeepEntries, Return
<1>20. ASSUME NEW g \in Closers, CloseConnection(g) PROVE TypeOK'
  BY <1>20 DEF CloseConnection
<1>21. ASSUME NEW g \in Closers, DeletePeer(g) PROVE TypeOK'
  BY <1>21 DEF DeletePeer
<1>22. ASSUME NEW g \in Closers, DeleteConnection(g) PROVE TypeOK'
  BY <1>22 DEF DeleteConnection, Return
<1>23. CASE CloseNetwork
  BY <1>23 DEF CloseNetwork
<1>24. ASSUME NEW a \in Addrs, Visit(a) PROVE TypeOK'
  BY <1>24 DEF Visit
<1>25. CASE UNCHANGED vars
  BY <1>25 DEF vars
<1>26. ASSUME NEW g \in Users, CallClose(g) PROVE TypeOK'
  BY <1>26 DEF CallClose, HandedOut
<1> QED
  BY <1>1, <1>2, <1>3, <1>4, <1>5, <1>6, <1>7, <1>8, <1>9, <1>10, <1>11, <1>12,
     <1>13, <1>14, <1>15, <1>16, <1>17, <1>18, <1>19, <1>20, <1>21, <1>22,
     <1>23, <1>24, <1>25, <1>26, Zenon
  DEF Next, Client, Accept, Close, Closers

(* A goroutine keeps the client it works on. *)
LEMMA StepHeldOK == ClientInv /\ [Next]_vars => HeldOK'
<1> SUFFICES ASSUME ClientInv, [Next]_vars PROVE HeldOK'
  OBVIOUS
<1> USE TargetAssumption, NamesAssumption
       DEF ClientInv, TypeOK, Step, PC, CallPC, ClosePC, Goroutines, Clients, Closers,
           HeldOK, Dialling, Serving, Closing, PeerClient,
           Channel
<1>1. ASSUME NEW g \in Clients, RefuseAddress(g) PROVE HeldOK'
  BY <1>1 DEF RefuseAddress
<1>2. ASSUME NEW g \in Clients, LoadOrStore(g) PROVE HeldOK'
  BY <1>2 DEF LoadOrStore
<1>3. ASSUME NEW g \in Clients, WaitReady(g) PROVE HeldOK'
  BY <1>3 DEF WaitReady
<1>4. ASSUME NEW g \in Clients, WaitTimeout(g) PROVE HeldOK'
  BY <1>4 DEF WaitTimeout
<1>5. ASSUME NEW g \in Clients, DialSucceeds(g) PROVE HeldOK'
  BY <1>5 DEF DialSucceeds
<1>6. ASSUME NEW g \in Clients, DialFails(g) PROVE HeldOK'
  BY <1>6 DEF DialFails
<1>7. ASSUME NEW g \in Clients, UndoPeer(g) PROVE HeldOK'
  BY <1>7 DEF UndoPeer
<1>8. ASSUME NEW g \in Clients, StoreConnection(g) PROVE HeldOK'
  BY <1>8 DEF StoreConnection
<1>9. ASSUME NEW g \in Clients, InitClient(g) PROVE HeldOK'
  BY <1>9 DEF InitClient
<1>10. ASSUME NEW g \in Clients, SetOutgoingReady(g) PROVE HeldOK'
  BY <1>10 DEF SetOutgoingReady
<1>11. ASSUME NEW g \in Incoming, AcceptFailed(g) PROVE HeldOK'
  BY <1>11 DEF AcceptFailed
<1>12. ASSUME NEW g \in Incoming, EnterOnce(g) PROVE HeldOK'
  BY <1>12 DEF EnterOnce
<1>13. ASSUME NEW g \in Incoming, PassOnce(g) PROVE HeldOK'
  BY <1>13 DEF PassOnce
<1>14. ASSUME NEW g \in Incoming, SetIncomingReady(g) PROVE HeldOK'
  BY <1>14 DEF SetIncomingReady
<1>15. ASSUME NEW g \in Incoming, Disconnect(g) PROVE HeldOK'
  BY <1>15 DEF Disconnect
<1>16. ASSUME NEW g \in Closers, CloseAgain(g) PROVE HeldOK'
  BY <1>16 DEF CloseAgain, Return
<1>17. ASSUME NEW g \in Closers, SwapClosed(g) PROVE HeldOK'
  BY <1>17 DEF SwapClosed
<1>18. ASSUME NEW g \in Closers, PeerDisconnect(g) PROVE HeldOK'
  BY <1>18 DEF PeerDisconnect
<1>19. ASSUME NEW g \in Closers, KeepEntries(g) PROVE HeldOK'
  BY <1>19 DEF KeepEntries, Return
<1>20. ASSUME NEW g \in Closers, CloseConnection(g) PROVE HeldOK'
  BY <1>20 DEF CloseConnection
<1>21. ASSUME NEW g \in Closers, DeletePeer(g) PROVE HeldOK'
  BY <1>21 DEF DeletePeer
<1>22. ASSUME NEW g \in Closers, DeleteConnection(g) PROVE HeldOK'
  BY <1>22 DEF DeleteConnection, Return
<1>23. CASE CloseNetwork
  BY <1>23 DEF CloseNetwork
<1>24. ASSUME NEW a \in Addrs, Visit(a) PROVE HeldOK'
  BY <1>24 DEF Visit
<1>25. CASE UNCHANGED vars
  BY <1>25 DEF vars
<1>26. ASSUME NEW g \in Users, CallClose(g) PROVE HeldOK'
  BY <1>26 DEF CallClose, HandedOut
<1> QED
  BY <1>1, <1>2, <1>3, <1>4, <1>5, <1>6, <1>7, <1>8, <1>9, <1>10, <1>11, <1>12,
     <1>13, <1>14, <1>15, <1>16, <1>17, <1>18, <1>19, <1>20, <1>21, <1>22,
     <1>23, <1>24, <1>25, <1>26, Zenon
  DEF Next, Client, Accept, Close, Closers

(* outgoingReady is closed once, by the creator, before others go on. *)
LEMMA StepReadyOK == ClientInv /\ [Next]_vars => ReadyOK'
<1> SUFFICES ASSUME ClientInv, [Next]_vars PROVE ReadyOK'
  OBVIOUS
<1> USE TargetAssumption, NamesAssumption
       DEF ClientInv, TypeOK, Step, PC, CallPC, ClosePC, Goroutines, Clients, Closers,
           HeldOK, Dialling, Serving, Closing, PeerClient,
           Channel, ReadyOK
<1>1. ASSUME NEW g \in Clients, RefuseAddress(g) PROVE ReadyOK'
  BY <1>1 DEF RefuseAddress
<1>2. ASSUME NEW g \in Clients, LoadOrStore(g) PROVE ReadyOK'
  BY <1>2 DEF LoadOrStore
<1>3. ASSUME NEW g \in Clients, WaitReady(g) PROVE ReadyOK'
  BY <1>3 DEF WaitReady
<1>4. ASSUME NEW g \in Clients, WaitTimeout(g) PROVE ReadyOK'
  BY <1>4 DEF WaitTimeout
<1>5. ASSUME NEW g \in Clients, DialSucceeds(g) PROVE ReadyOK'
  BY <1>5 DEF DialSucceeds
<1>6. ASSUME NEW g \in Clients, DialFails(g) PROVE ReadyOK'
  BY <1>6 DEF DialFails
<1>7. ASSUME NEW g \in Clients, UndoPeer(g) PROVE ReadyOK'
  BY <1>7 DEF UndoPeer
<1>8. ASSUME NEW g \in Clients, StoreConnection(g) PROVE ReadyOK'
  BY <1>8 DEF StoreConnection
<1>9. ASSUME NEW g \in Clients, InitClient(g) PROVE ReadyOK'
  BY <1>9 DEF InitClient
<1>10. ASSUME NEW g \in Clients, SetOutgoingReady(g) PROVE ReadyOK'
  BY <1>10 DEF SetOutgoingReady
<1>11. ASSUME NEW g \in Incoming, AcceptFailed(g) PROVE ReadyOK'
  BY <1>11 DEF AcceptFailed
<1>12. ASSUME NEW g \in Incoming, EnterOnce(g) PROVE ReadyOK'
  BY <1>12 DEF EnterOnce
<1>13. ASSUME NEW g \in Incoming, PassOnce(g) PROVE ReadyOK'
  BY <1>13 DEF PassOnce
<1>14. ASSUME NEW g \in Incoming, SetIncomingReady(g) PROVE ReadyOK'
  BY <1>14 DEF SetIncomingReady
<1>15. ASSUME NEW g \in Incoming, Disconnect(g) PROVE ReadyOK'
  BY <1>15 DEF Disconnect
<1>16. ASSUME NEW g \in Closers, CloseAgain(g) PROVE ReadyOK'
  BY <1>16 DEF CloseAgain, Return
<1>17. ASSUME NEW g \in Closers, SwapClosed(g) PROVE ReadyOK'
  BY <1>17 DEF SwapClosed
<1>18. ASSUME NEW g \in Closers, PeerDisconnect(g) PROVE ReadyOK'
  BY <1>18 DEF PeerDisconnect
<1>19. ASSUME NEW g \in Closers, KeepEntries(g) PROVE ReadyOK'
  BY <1>19 DEF KeepEntries, Return
<1>20. ASSUME NEW g \in Closers, CloseConnection(g) PROVE ReadyOK'
  BY <1>20 DEF CloseConnection
<1>21. ASSUME NEW g \in Closers, DeletePeer(g) PROVE ReadyOK'
  BY <1>21 DEF DeletePeer
<1>22. ASSUME NEW g \in Closers, DeleteConnection(g) PROVE ReadyOK'
  BY <1>22 DEF DeleteConnection, Return
<1>23. CASE CloseNetwork
  BY <1>23 DEF CloseNetwork
<1>24. ASSUME NEW a \in Addrs, Visit(a) PROVE ReadyOK'
  BY <1>24 DEF Visit
<1>25. CASE UNCHANGED vars
  BY <1>25 DEF vars
<1>26. ASSUME NEW g \in Users, CallClose(g) PROVE ReadyOK'
  BY <1>26 DEF CallClose, HandedOut
<1> QED
  BY <1>1, <1>2, <1>3, <1>4, <1>5, <1>6, <1>7, <1>8, <1>9, <1>10, <1>11, <1>12,
     <1>13, <1>14, <1>15, <1>16, <1>17, <1>18, <1>19, <1>20, <1>21, <1>22,
     <1>23, <1>24, <1>25, <1>26, Zenon
  DEF Next, Client, Accept, Close, Closers

(* The sync.Once has one runner. *)
LEMMA StepOnceOK == ClientInv /\ [Next]_vars => OnceOK'
<1> SUFFICES ASSUME ClientInv, [Next]_vars PROVE OnceOK'
  OBVIOUS
<1> USE TargetAssumption, NamesAssumption
       DEF ClientInv, TypeOK, Step, PC, CallPC, ClosePC, Goroutines, Clients, Closers,
           HeldOK, Dialling, Serving, Closing, PeerClient,
           Channel, OnceOK
<1>1. ASSUME NEW g \in Clients, RefuseAddress(g) PROVE OnceOK'
  BY <1>1 DEF RefuseAddress
<1>2. ASSUME NEW g \in Clients, LoadOrStore(g) PROVE OnceOK'
  BY <1>2 DEF LoadOrStore
<1>3. ASSUME NEW g \in Clients, WaitReady(g) PROVE OnceOK'
  BY <1>3 DEF WaitReady
<1>4. ASSUME NEW g \in Clients, WaitTimeout(g) PROVE OnceOK'
  BY <1>4 DEF WaitTimeout
<1>5. ASSUME NEW g \in Clients, DialSucceeds(g) PROVE OnceOK'
  BY <1>5 DEF DialSucceeds
<1>6. ASSUME NEW g \in Clients, DialFails(g) PROVE OnceOK'
  BY <1>6 DEF DialFails
<1>7. ASSUME NEW g \in Clients, UndoPeer(g) PROVE OnceOK'
  BY <1>7 DEF UndoPeer
<1>8. ASSUME NEW g \in Clients, StoreConnection(g) PROVE OnceOK'
  BY <1>8 DEF StoreConnection
<1>9. ASSUME NEW g \in Clients, InitClient(g) PROVE OnceOK'
  BY <1>9 DEF InitClient
<1>10. ASSUME NEW g \in Clients, SetOutgoingReady(g) PROVE OnceOK'
  BY <1>10 DEF SetOutgoingReady
<1>11. ASSUME NEW g \in Incoming, AcceptFailed(g) PROVE OnceOK'
  BY <1>11 DEF AcceptFailed
<1>12. ASSUME NEW g \in Incoming, EnterOnce(g) PROVE OnceOK'
  BY <1>12 DEF EnterOnce
<1>13. ASSUME NEW g \in Incoming, PassOnce(g) PROVE OnceOK'
  BY <1>13 DEF PassOnce
<1>14. ASSUME NEW g \in Incoming, SetIncomingReady(g) PROVE OnceOK'
  BY <1>14 DEF SetIncomingReady
<1>15. ASSUME NEW g \in Incoming, Disconnect(g) PROVE OnceOK'
  BY <1>15 DEF Disconnect
<1>16. ASSUME NEW g \in Closers, CloseAgain(g) PROVE OnceOK'
  BY <1>16 DEF CloseAgain, Return
<1>17. ASSUME NEW g \in Closers, SwapClosed(g) PROVE OnceOK'
  BY <1>17 DEF SwapClosed
<1>18. ASSUME NEW g \in Closers, PeerDisconnect(g) PROVE OnceOK'
  BY <1>18 DEF PeerDisconnect
<1>19. ASSUME NEW g \in Closers, KeepEntries(g) PROVE OnceOK'
  BY <1>19 DEF KeepEntries, Return
<1>20. ASSUME NEW g \in Closers, CloseConnection(g) PROVE OnceOK'
  BY <1>20 DEF CloseConnection
<1>21. ASSUME NEW g \in Closers, DeletePeer(g) PROVE OnceOK'
  BY <1>21 DEF DeletePeer
<1>22. ASSUME NEW g \in Closers, DeleteConnection(g) PROVE OnceOK'
  BY <1>22 DEF DeleteConnection, Return
<1>23. CASE CloseNetwork
  BY <1>23 DEF CloseNetwork
<1>24. ASSUME NEW a \in Addrs, Visit(a) PROVE OnceOK'
  BY <1>24 DEF Visit
<1>25. CASE UNCHANGED vars
  BY <1>25 DEF vars
<1>26. ASSUME NEW g \in Users, CallClose(g) PROVE OnceOK'
  BY <1>26 DEF CallClose, HandedOut
<1> QED
  BY <1>1, <1>2, <1>3, <1>4, <1>5, <1>6, <1>7, <1>8, <1>9, <1>10, <1>11, <1>12,
     <1>13, <1>14, <1>15, <1>16, <1>17, <1>18, <1>19, <1>20, <1>21, <1>22,
     <1>23, <1>24, <1>25, <1>26, Zenon
  DEF Next, Client, Accept, Close, Closers

(* Whoever passes client.Do finds the ID set. *)
LEMMA StepNamedOK == ClientInv /\ [Next]_vars => NamedOK'
<1> SUFFICES ASSUME ClientInv, [Next]_vars PROVE NamedOK'
  OBVIOUS
<1> USE TargetAssumption, NamesAssumption
       DEF ClientInv, TypeOK, Step, PC, CallPC, ClosePC, Goroutines, Clients, Closers,
           HeldOK, Dialling, Serving, Closing, PeerClient,
           Channel, NamedOK
<1>1. ASSUME NEW g \in Clients, RefuseAddress(g) PROVE NamedOK'
  BY <1>1 DEF RefuseAddress
<1>2. ASSUME NEW g \in Clients, LoadOrStore(g) PROVE NamedOK'
  BY <1>2 DEF LoadOrStore
<1>3. ASSUME NEW g \in Clients, WaitReady(g) PROVE NamedOK'
  BY <1>3 DEF WaitReady
<1>4. ASSUME NEW g \in Clients, WaitTimeout(g) PROVE NamedOK'
  BY <1>4 DEF WaitTimeout
<1>5. ASSUME NEW g \in Clients, DialSucceeds(g) PROVE NamedOK'
  BY <1>5 DEF DialSucceeds
<1>6. ASSUME NEW g \in Clients, DialFails(g) PROVE NamedOK'
  BY <1>6 DEF DialFails
<1>7. ASSUME NEW g \in Clients, UndoPeer(g) PROVE NamedOK'
  BY <1>7 DEF UndoPeer
<1>8. ASSUME NEW g \in Clients, StoreConnection(g) PROVE NamedOK'
  BY <1>8 DEF StoreConnection
<1>9. ASSUME NEW g \in Clients, InitClient(g) PROVE NamedOK'
  BY <1>9 DEF InitClient
<1>10. ASSUME NEW g \in Clients, SetOutgoingReady(g) PROVE NamedOK'
  BY <1>10 DEF SetOutgoingReady
<1>11. ASSUME NEW g \in Incoming, AcceptFailed(g) PROVE NamedOK'
  BY <1>11 DEF AcceptFailed
<1>12. ASSUME NEW g \in Incoming, EnterOnce(g) PROVE NamedOK'
  BY <1>12 DEF EnterOnce
<1>13. ASSUME NEW g \in Incoming, PassOnce(g) PROVE NamedOK'
  BY <1>13 DEF PassOnce
<1>14. ASSUME NEW g \in Incoming, SetIncomingReady(g) PROVE NamedOK'
  BY <1>14 DEF SetIncomingReady
<1>15. ASSUME NEW g \in Incoming, Disconnect(g) PROVE NamedOK'
  BY <1>15 DEF Disconnect
<1>16. ASSUME NEW g \in Closers, CloseAgain(g) PROVE NamedOK'
  BY <1>16 DEF CloseAgain, Return
<1>17. ASSUME NEW g \in Closers, SwapClosed(g) PROVE NamedOK'
  BY <1>17 DEF SwapClosed
<1>18. ASSUME NEW g \in Closers, PeerDisconnect(g) PROVE NamedOK'
  BY <1>18 DEF PeerDisconnect
<1>19. ASSUME NEW g \in Closers, KeepEntries(g) PROVE NamedOK'
  BY <1>19 DEF KeepEntries, Return
<1>20. ASSUME NEW g \in Closers, CloseConnection(g) PROVE NamedOK'
  BY <1>20 DEF CloseConnection
<1>21. ASSUME NEW g \in Closers, DeletePeer(g) PROVE NamedOK'
  BY <1>21 DEF DeletePeer
<1>22. ASSUME NEW g \in Closers, DeleteConnection(g) PROVE NamedOK'
  BY <1>22 DEF DeleteConnection, Return
<1>23. CASE CloseNetwork
  BY <1>23 DEF CloseNetwork
<1>24. ASSUME NEW a \in Addrs, Visit(a) PROVE NamedOK'
  BY <1>24 DEF Visit
<1>25. CASE UNCHANGED vars
  BY <1>25 DEF vars
<1>26. ASSUME NEW g \in Users, CallClose(g) PROVE NamedOK'
  BY <1>26 DEF CallClose, HandedOut
<1> QED
  BY <1>1, <1>2, <1>3, <1>4, <1>5, <1>6, <1>7, <1>8, <1>9, <1>10, <1>11, <1>12,
     <1>13, <1>14, <1>15, <1>16, <1>17, <1>18, <1>19, <1>20, <1>21, <1>22,
     <1>23, <1>24, <1>25, <1>26, Zenon
  DEF Next, Client, Accept, Close, Closers

(* The swap of closed lets one goroutine through. *)
LEMMA StepCloseOK == ClientInv /\ [Next]_vars => CloseOK'
<1> SUFFICES ASSUME ClientInv, [Next]_vars PROVE CloseOK'
  OBVIOUS
<1> USE TargetAssumption, NamesAssumption
       DEF ClientInv, TypeOK, Step, PC, CallPC, ClosePC, Goroutines, Clients, Closers,
           HeldOK, Dialling, Serving, Closing, PeerClient,
           Channel, CloseOK
<1>1. ASSUME NEW g \in Clients, RefuseAddress(g) PROVE CloseOK'
  BY <1>1 DEF RefuseAddress
<1>2. ASSUME NEW g \in Clients, LoadOrStore(g) PROVE CloseOK'
  BY <1>2, SMTT(30) DEF LoadOrStore
<1>3. ASSUME NEW g \in Clients, WaitReady(g) PROVE CloseOK'
  BY <1>3 DEF WaitReady
<1>4. ASSUME NEW g \in Clients, WaitTimeout(g) PROVE CloseOK'
  BY <1>4 DEF WaitTimeout
<1>5. ASSUME NEW g \in Clients, DialSucceeds(g) PROVE CloseOK'
  BY <1>5 DEF DialSucceeds
<1>6. ASSUME NEW g \in Clients, DialFails(g) PROVE CloseOK'
  BY <1>6 DEF DialFails
<1>7. ASSUME NEW g \in Clients, UndoPeer(g) PROVE CloseOK'
  BY <1>7 DEF UndoPeer
<1>8. ASSUME NEW g \in Clients, StoreConnection(g) PROVE CloseOK'
  BY <1>8 DEF StoreConnection
<1>9. ASSUME NEW g \in Clients, InitClient(g) PROVE CloseOK'
  BY <1>9 DEF InitClient
<1>10. ASSUME NEW g \in Clients, SetOutgoingReady(g) PROVE CloseOK'
  BY <1>10 DEF SetOutgoingReady
<1>11. ASSUME NEW g \in Incoming, AcceptFailed(g) PROVE CloseOK'
  BY <1>11 DEF AcceptFailed
<1>12. ASSUME NEW g \in Incoming, EnterOnce(g) PROVE CloseOK'
  BY <1>12 DEF EnterOnce
<1>13. ASSUME NEW g \in Incoming, PassOnce(g) PROVE CloseOK'
  BY <1>13 DEF PassOnce
<1>14. ASSUME NEW g \in Incoming, SetIncomingReady(g) PROVE CloseOK'
  BY <1>14 DEF SetIncomingReady
<1>15. ASSUME NEW g \in Incoming, Disconnect(g) PROVE CloseOK'
  BY <1>15 DEF Disconnect
<1>16. ASSUME NEW g \in Closers, CloseAgain(g) PROVE CloseOK'
  BY <1>16 DEF CloseAgain, Return
<1>17. ASSUME NEW g \in Closers, SwapClosed(g) PROVE CloseOK'
  BY <1>17 DEF SwapClosed
<1>18. ASSUME NEW g \in Closers, PeerDisconnect(g) PROVE CloseOK'
  BY <1>18 DEF PeerDisconnect
<1>19. ASSUME NEW g \in Closers, KeepEntries(g) PROVE CloseOK'
  BY <1>19 DEF KeepEntries, Return
<1>20. ASSUME NEW g \in Closers, CloseConnection(g) PROVE CloseOK'
  BY <1>20 DEF CloseConnection
<1>21. ASSUME NEW g \in Closers, DeletePeer(g) PROVE CloseOK'
  BY <1>21 DEF DeletePeer
<1>22. ASSUME NEW g \in Closers, DeleteConnection(g) PROVE CloseOK'
  BY <1>22 DEF DeleteConnection, Return
<1>23. CASE CloseNetwork
  BY <1>23 DEF CloseNetwork
<1>24. ASSUME NEW a \in Addrs, Visit(a) PROVE CloseOK'
  BY <1>24 DEF Visit
<1>25. CASE UNCHANGED vars
  BY <1>25 DEF vars
<1>26. ASSUME NEW g \in Users, CallClose(g) PROVE CloseOK'
  BY <1>26 DEF CallClose, HandedOut
<1> QED
  BY <1>1, <1>2, <1>3, <1>4, <1>5, <1>6, <1>7, <1>8, <1>9, <1>10, <1>11, <1>12,
     <1>13, <1>14, <1>15, <1>16, <1>17, <1>18, <1>19, <1>20, <1>21, <1>22,
     <1>23, <1>24, <1>25, <1>26, Zenon
  DEF Next, Client, Accept, Close, Closers

(* The dial's socket and Init come in order. *)
LEMMA StepDialOK == ClientInv /\ [Next]_vars => DialOK'
<1> SUFFICES ASSUME ClientInv, [Next]_vars PROVE DialOK'
  OBVIOUS
<1> USE TargetAssumption, NamesAssumption
       DEF ClientInv, TypeOK, Step, PC, CallPC, ClosePC, Goroutines, Clients, Closers,
           HeldOK, Dialling, Serving, Closing, PeerClient,
           Channel, DialOK, ReadyOK, RegisteredOK
<1>1. ASSUME NEW g \in Clients, RefuseAddress(g) PROVE DialOK'
  BY <1>1 DEF RefuseAddress
<1>2. ASSUME NEW g \in Clients, LoadOrStore(g) PROVE DialOK'
  BY <1>2 DEF LoadOrStore
<1>3. ASSUME NEW g \in Clients, WaitReady(g) PROVE DialOK'
  BY <1>3 DEF WaitReady
<1>4. ASSUME NEW g \in Clients, WaitTimeout(g) PROVE DialOK'
  BY <1>4 DEF WaitTimeout
<1>5. ASSUME NEW g \in Clients, DialSucceeds(g) PROVE DialOK'
  BY <1>5 DEF DialSucceeds
<1>6. ASSUME NEW g \in Clients, DialFails(g) PROVE DialOK'
  BY <1>6 DEF DialFails
<1>7. ASSUME NEW g \in Clients, UndoPeer(g) PROVE DialOK'
  BY <1>7 DEF UndoPeer
<1>8. ASSUME NEW g \in Clients, StoreConnection(g) PROVE DialOK'
  BY <1>8 DEF StoreConnection
<1>9. ASSUME NEW g \in Clients, InitClient(g) PROVE DialOK'
  BY <1>9 DEF InitClient
<1>10. ASSUME NEW g \in Clients, SetOutgoingReady(g) PROVE DialOK'
  BY <1>10 DEF SetOutgoingReady
<1>11. ASSUME NEW g \in Incoming, AcceptFailed(g) PROVE DialOK'
  BY <1>11 DEF AcceptFailed
<1>12. ASSUME NEW g \in Incoming, EnterOnce(g) PROVE DialOK'
  BY <1>12 DEF EnterOnce
<1>13. ASSUME NEW g \in Incoming, PassOnce(g) PROVE DialOK'
  BY <1>13 DEF PassOnce
<1>14. ASSUME NEW g \in Incoming, SetIncomingReady(g) PROVE DialOK'
  BY <1>14 DEF SetIncomingReady
<1>15. ASSUME NEW g \in Incoming, Disconnect(g) PROVE DialOK'
  BY <1>15 DEF Disconnect
<1>16. ASSUME NEW g \in Closers, CloseAgain(g) PROVE DialOK'
  BY <1>16 DEF CloseAgain, Return
<1>17. ASSUME NEW g \in Closers, SwapClosed(g) PROVE DialOK'
  BY <1>17 DEF SwapClosed
<1>18. ASSUME NEW g \in Closers, PeerDisconnect(g) PROVE DialOK'
  BY <1>18 DEF PeerDisconnect
<1>19. ASSUME NEW g \in Closers, KeepEntries(g) PROVE DialOK'
  BY <1>19 DEF KeepEntries, Return
<1>20. ASSUME NEW g \in Closers, CloseConnection(g) PROVE DialOK'
  BY <1>20 DEF CloseConnection
<1>21. ASSUME NEW g \in Closers, DeletePeer(g) PROVE DialOK'
  BY <1>21 DEF DeletePeer
<1>22. ASSUME NEW g \in Closers, DeleteConnection(g) PROVE DialOK'
  BY <1>22 DEF DeleteConnection, Return
<1>23. CASE CloseNetwork
  BY <1>23 DEF CloseNetwork
<1>24. ASSUME NEW a \in Addrs, Visit(a) PROVE DialOK'
  BY <1>24 DEF Visit
<1>25. CASE UNCHANGED vars
  BY <1>25 DEF vars
<1>26. ASSUME NEW g \in Users, CallClose(g) PROVE DialOK'
  BY <1>26 DEF CallClose, HandedOut
<1> QED
  BY <1>1, <1>2, <1>3, <1>4, <1>5, <1>6, <1>7, <1>8, <1>9, <1>10, <1>11, <1>12,
     <1>13, <1>14, <1>15, <1>16, <1>17, <1>18, <1>19, <1>20, <1>21, <1>22,
     <1>23, <1>24, <1>25, <1>26, Zenon
  DEF Next, Client, Accept, Close, Closers

(* Only dialled connections are registered. *)
LEMMA StepRegisteredOK == ClientInv /\ [Next]_vars => RegisteredOK'
<1> SUFFICES ASSUME ClientInv, [Next]_vars PROVE RegisteredOK'
  OBVIOUS
<1> USE TargetAssumption, NamesAssumption
       DEF ClientInv, TypeOK, Step, PC, CallPC, ClosePC, Goroutines, Clients, Closers,
           HeldOK, Dialling, Serving, Closing, PeerClient,
           Channel, DialOK, RegisteredOK
<1>1. ASSUME NEW g \in Clients, RefuseAddress(g) PROVE RegisteredOK'
  BY <1>1 DEF RefuseAddress
<1>2. ASSUME NEW g \in Clients, LoadOrStore(g) PROVE RegisteredOK'
  BY <1>2 DEF LoadOrStore
<1>3. ASSUME NEW g \in Clients, WaitReady(g) PROVE RegisteredOK'
  BY <1>3 DEF WaitReady
<1>4. ASSUME NEW g \in Clients, WaitTimeout(g) PROVE RegisteredOK'
  BY <1>4 DEF WaitTimeout
<1>5. ASSUME NEW g \in Clients, DialSucceeds(g) PROVE RegisteredOK'
  BY <1>5 DEF DialSucceeds
<1>6. ASSUME NEW g \in Clients, DialFails(g) PROVE RegisteredOK'
  BY <1>6 DEF DialFails
<1>7. ASSUME NEW g \in Clients, UndoPeer(g) PROVE RegisteredOK'
  BY <1>7 DEF UndoPeer
<1>8. ASSUME NEW g \in Clients, StoreConnection(g) PROVE RegisteredOK'
  BY <1>8 DEF StoreConnection
<1>9. ASSUME NEW g \in Clients, InitClient(g) PROVE RegisteredOK'
  BY <1>9 DEF InitClient
<1>10. ASSUME NEW g \in Clients, SetOutgoingReady(g) PROVE RegisteredOK'
  BY <1>10 DEF SetOutgoingReady
<1>11. ASSUME NEW g \in Incoming, AcceptFailed(g) PROVE RegisteredOK'
  BY <1>11 DEF AcceptFailed
<1>12. ASSUME NEW g \in Incoming, EnterOnce(g) PROVE RegisteredOK'
  BY <1>12 DEF EnterOnce
<1>13. ASSUME NEW g \in Incoming, PassOnce(g) PROVE RegisteredOK'
  BY <1>13 DEF PassOnce
<1>14. ASSUME NEW g \in Incoming, SetIncomingReady(g) PROVE RegisteredOK'
  BY <1>14 DEF SetIncomingReady
<1>15. ASSUME NEW g \in Incoming, Disconnect(g) PROVE RegisteredOK'
  BY <1>15 DEF Disconnect
<1>16. ASSUME NEW g \in Closers, CloseAgain(g) PROVE RegisteredOK'
  BY <1>16 DEF CloseAgain, Return
<1>17. ASSUME NEW g \in Closers, SwapClosed(g) PROVE RegisteredOK'
  BY <1>17 DEF SwapClosed
<1>18. ASSUME NEW g \in Closers, PeerDisconnect(g) PROVE RegisteredOK'
  BY <1>18 DEF PeerDisconnect
<1>19. ASSUME NEW g \in Closers, KeepEntries(g) PROVE RegisteredOK'
  BY <1>19 DEF KeepEntries, Return
<1>20. ASSUME NEW g \in Closers, CloseConnection(g) PROVE RegisteredOK'
  BY <1>20 DEF CloseConnection
<1>21. ASSUME NEW g \in Closers, DeletePeer(g) PROVE RegisteredOK'
  BY <1>21 DEF DeletePeer
<1>22. ASSUME NEW g \in Closers, DeleteConnection(g) PROVE RegisteredOK'
  BY <1>22 DEF DeleteConnection, Return
<1>23. CASE CloseNetwork
  BY <1>23 DEF CloseNetwork
<1>24. ASSUME NEW a \in Addrs, Visit(a) PROVE RegisteredOK'
  BY <1>24 DEF Visit
<1>25. CASE UNCHANGED vars
  BY <1>25 DEF vars
<1>26. ASSUME NEW g \in Users, CallClose(g) PROVE RegisteredOK'
  BY <1>26 DEF CallClose, HandedOut
<1> QED
  BY <1>1, <1>2, <1>3, <1>4, <1>5, <1>6, <1>7, <1>8, <1>9, <1>10, <1>11, <1>12,
     <1>13, <1>14, <1>15, <1>16, <1>17, <1>18, <1>19, <1>20, <1>21, <1>22,
     <1>23, <1>24, <1>25, <1>26, Zenon
  DEF Next, Client, Accept, Close, Closers

(* Whoever calls PeerDisconnect is the first to do it for the client. *)
LEMMA StepDisconnectedOnce == ClientInv /\ [Next]_vars => DisconnectedOnce'
<1> SUFFICES ASSUME ClientInv, [Next]_vars PROVE DisconnectedOnce'
  OBVIOUS
<1> USE TargetAssumption, NamesAssumption
       DEF ClientInv, TypeOK, Step, PC, CallPC, ClosePC, Goroutines, Clients, Closers,
           HeldOK, Dialling, Serving, Closing, PeerClient,
           Channel, CloseOK, DisconnectedOnce
<1>1. ASSUME NEW g \in Clients, RefuseAddress(g) PROVE DisconnectedOnce'
  BY <1>1 DEF RefuseAddress
<1>2. ASSUME NEW g \in Clients, LoadOrStore(g) PROVE DisconnectedOnce'
  BY <1>2 DEF LoadOrStore
<1>3. ASSUME NEW g \in Clients, WaitReady(g) PROVE DisconnectedOnce'
  BY <1>3 DEF WaitReady
<1>4. ASSUME NEW g \in Clients, WaitTimeout(g) PROVE DisconnectedOnce'
  BY <1>4 DEF WaitTimeout
<1>5. ASSUME NEW g \in Clients, DialSucceeds(g) PROVE DisconnectedOnce'
  BY <1>5 DEF DialSucceeds
<1>6. ASSUME NEW g \in Clients, DialFails(g) PROVE DisconnectedOnce'
  BY <1>6 DEF DialFails
<1>7. ASSUME NEW g \in Clients, UndoPeer(g) PROVE DisconnectedOnce'
  BY <1>7 DEF UndoPeer
<1>8. ASSUME NEW g \in Clients, StoreConnection(g) PROVE DisconnectedOnce'
  BY <1>8 DEF StoreConnection
<1>9. ASSUME NEW g \in Clients, InitClient(g) PROVE DisconnectedOnce'
  BY <1>9 DEF InitClient
<1>10. ASSUME NEW g \in Clients, SetOutgoingReady(g) PROVE DisconnectedOnce'
  BY <1>10 DEF SetOutgoingReady
<1>11. ASSUME NEW g \in Incoming, AcceptFailed(g) PROVE DisconnectedOnce'
  BY <1>11 DEF AcceptFailed
<1>12. ASSUME NEW g \in Incoming, EnterOnce(g) PROVE DisconnectedOnce'
  BY <1>12 DEF EnterOnce
<1>13. ASSUME NEW g \in Incoming, PassOnce(g) PROVE DisconnectedOnce'
  BY <1>13 DEF PassOnce
<1>14. ASSUME NEW g \in Incoming, SetIncomingReady(g) PROVE DisconnectedOnce'
  BY <1>14 DEF SetIncomingReady
<1>15. ASSUME NEW g \in Incoming, Disconnect(g) PROVE DisconnectedOnce'
  BY <1>15 DEF Disconnect
<1>16. ASSUME NEW g \in Closers, CloseAgain(g) PROVE DisconnectedOnce'
  BY <1>16 DEF CloseAgain, Return
<1>17. ASSUME NEW g \in Closers, SwapClosed(g) PROVE DisconnectedOnce'
  BY <1>17 DEF SwapClosed
<1>18. ASSUME NEW g \in Closers, PeerDisconnect(g) PROVE DisconnectedOnce'
  BY <1>18 DEF PeerDisconnect
<1>19. ASSUME NEW g \in Closers, KeepEntries(g) PROVE DisconnectedOnce'
  BY <1>19 DEF KeepEntries, Return
<1>20. ASSUME NEW g \in Closers, CloseConnection(g) PROVE DisconnectedOnce'
  BY <1>20 DEF CloseConnection
<1>21. ASSUME NEW g \in Closers, DeletePeer(g) PROVE DisconnectedOnce'
  BY <1>21 DEF DeletePeer
<1>22. ASSUME NEW g \in Closers, DeleteConnection(g) PROVE DisconnectedOnce'
  BY <1>22 DEF DeleteConnection, Return
<1>23. CASE CloseNetwork
  BY <1>23 DEF CloseNetwork
<1>24. ASSUME NEW a \in Addrs, Visit(a) PROVE DisconnectedOnce'
  BY <1>24 DEF Visit
<1>25. CASE UNCHANGED vars
  BY <1>25 DEF vars
<1>26. ASSUME NEW g \in Users, CallClose(g) PROVE DisconnectedOnce'
  BY <1>26 DEF CallClose, HandedOut
<1> QED
  BY <1>1, <1>2, <1>3, <1>4, <1>5, <1>6, <1>7, <1>8, <1>9, <1>10, <1>11, <1>12,
     <1>13, <1>14, <1>15, <1>16, <1>17, <1>18, <1>19, <1>20, <1>21, <1>22,
     <1>23, <1>24, <1>25, <1>26, Zenon
  DEF Next, Client, Accept, Close, Closers

(* An Accept holds a client only after its dial ended, well or badly. *)
LEMMA StepDisconnectAfterConnect == ClientInv /\ [Next]_vars => DisconnectAfterConnect'
<1> SUFFICES ASSUME ClientInv, [Next]_vars PROVE DisconnectAfterConnect'
  OBVIOUS
<1> USE TargetAssumption, NamesAssumption
       DEF ClientInv, TypeOK, Step, PC, CallPC, ClosePC, Goroutines, Clients, Closers,
           HeldOK, Dialling, Serving, Closing, PeerClient,
           Channel, CloseOK, ReadyOK, DialOK, RegisteredOK,
           DisconnectAfterConnect, DialFailed
<1>1. ASSUME NEW g \in Clients, RefuseAddress(g) PROVE DisconnectAfterConnect'
  BY <1>1 DEF RefuseAddress
<1>2. ASSUME NEW g \in Clients, LoadOrStore(g) PROVE DisconnectAfterConnect'
  BY <1>2, SMTT(30) DEF LoadOrStore
<1>3. ASSUME NEW g \in Clients, WaitReady(g) PROVE DisconnectAfterConnect'
  BY <1>3 DEF WaitReady
<1>4. ASSUME NEW g \in Clients, WaitTimeout(g) PROVE DisconnectAfterConnect'
  BY <1>4 DEF WaitTimeout
<1>5. ASSUME NEW g \in Clients, DialSucceeds(g) PROVE DisconnectAfterConnect'
  BY <1>5 DEF DialSucceeds
<1>6. ASSUME NEW g \in Clients, DialFails(g) PROVE DisconnectAfterConnect'
  BY <1>6 DEF DialFails
<1>7. ASSUME NEW g \in Clients, UndoPeer(g) PROVE DisconnectAfterConnect'
  BY <1>7 DEF UndoPeer
<1>8. ASSUME NEW g \in Clients, StoreConnection(g) PROVE DisconnectAfterConnect'
  BY <1>8 DEF StoreConnection
<1>9. ASSUME NEW g \in Clients, InitClient(g) PROVE DisconnectAfterConnect'
  BY <1>9 DEF InitClient
<1>10. ASSUME NEW g \in Clients, SetOutgoingReady(g) PROVE DisconnectAfterConnect'
  BY <1>10 DEF SetOutgoingReady
<1>11. ASSUME NEW g \in Incoming, AcceptFailed(g) PROVE DisconnectAfterConnect'
  BY <1>11 DEF AcceptFailed
<1>12. ASSUME NEW g \in Incoming, EnterOnce(g) PROVE DisconnectAfterConnect'
  BY <1>12 DEF EnterOnce
<1>13. ASSUME NEW g \in Incoming, PassOnce(g) PROVE DisconnectAfterConnect'
  BY <1>13 DEF PassOnce
<1>14. ASSUME NEW g \in Incoming, SetIncomingReady(g) PROVE DisconnectAfterConnect'
  BY <1>14 DEF SetIncomingReady
<1>15. ASSUME NEW g \in Incoming, Disconnect(g) PROVE DisconnectAfterConnect'
  BY <1>15 DEF Disconnect
<1>16. ASSUME NEW g \in Closers, CloseAgain(g) PROVE DisconnectAfterConnect'
  BY <1>16 DEF CloseAgain, Return
<1>17. ASSUME NEW g \in Closers, SwapClosed(g) PROVE DisconnectAfterConnect'
  BY <1>17 DEF SwapClosed
<1>18. ASSUME NEW g \in Closers, PeerDisconnect(g) PROVE DisconnectAfterConnect'
  BY <1>18 DEF PeerDisconnect
<1>19. ASSUME NEW g \in Closers, KeepEntries(g) PROVE DisconnectAfterConnect'
  BY <1>19 DEF KeepEntries, Return
<1>20. ASSUME NEW g \in Closers, CloseConnection(g) PROVE DisconnectAfterConnect'
  BY <1>20 DEF CloseConnection
<1>21. ASSUME NEW g \in Closers, DeletePeer(g) PROVE DisconnectAfterConnect'
  BY <1>21 DEF DeletePeer
<1>22. ASSUME NEW g \in Closers, DeleteConnection(g) PROVE DisconnectAfterConnect'
  BY <1>22 DEF DeleteConnection, Return
<1>23. CASE CloseNetwork
  BY <1>23 DEF CloseNetwork
<1>24. ASSUME NEW a \in Addrs, Visit(a) PROVE DisconnectAfterConnect'
  BY <1>24, SMTT(30) DEF Visit
<1>25. CASE UNCHANGED vars
  BY <1>25 DEF vars
<1>26. ASSUME NEW g \in Users, CallClose(g) PROVE DisconnectAfterConnect'
  BY <1>26 DEF CallClose, HandedOut
<1> QED
  BY <1>1, <1>2, <1>3, <1>4, <1>5, <1>6, <1>7, <1>8, <1>9, <1>10, <1>11, <1>12,
     <1>13, <1>14, <1>15, <1>16, <1>17, <1>18, <1>19, <1>20, <1>21, <1>22,
     <1>23, <1>24, <1>25, <1>26, ZenonT(30)
  DEF Next, Client, Accept, Close, Closers

(* Whoever shuts a registered socket goes on to delete its entry. *)
LEMMA StepRegisteredSocketOpen == ClientInv /\ [Next]_vars => RegisteredSocketOpen'
<1> SUFFICES ASSUME ClientInv, [Next]_vars PROVE RegisteredSocketOpen'
  OBVIOUS
<1> USE TargetAssumption, NamesAssumption
       DEF ClientInv, TypeOK, Step, PC, CallPC, ClosePC, Goroutines, Clients, Closers,
           HeldOK, Dialling, Serving, Closing, PeerClient,
           Channel, DialOK, RegisteredOK, RegisteredSocketOpen
<1>1. ASSUME NEW g \in Clients, RefuseAddress(g) PROVE RegisteredSocketOpen'
  BY <1>1 DEF RefuseAddress
<1>2. ASSUME NEW g \in Clients, LoadOrStore(g) PROVE RegisteredSocketOpen'
  BY <1>2 DEF LoadOrStore
<1>3. ASSUME NEW g \in Clients, WaitReady(g) PROVE RegisteredSocketOpen'
  BY <1>3 DEF WaitReady
<1>4. ASSUME NEW g \in Clients, WaitTimeout(g) PROVE RegisteredSocketOpen'
  BY <1>4, Zenon DEF WaitTimeout
<1>5. ASSUME NEW g \in Clients, DialSucceeds(g) PROVE RegisteredSocketOpen'
  BY <1>5 DEF DialSucceeds
<1>6. ASSUME NEW g \in Clients, DialFails(g) PROVE RegisteredSocketOpen'
  BY <1>6 DEF DialFails
<1>7. ASSUME NEW g \in Clients, UndoPeer(g) PROVE RegisteredSocketOpen'
  BY <1>7, SMTT(30) DEF UndoPeer
<1>8. ASSUME NEW g \in Clients, StoreConnection(g) PROVE RegisteredSocketOpen'
  BY <1>8, SMTT(30) DEF StoreConnection
<1>9. ASSUME NEW g \in Clients, InitClient(g) PROVE RegisteredSocketOpen'
  BY <1>9 DEF InitClient
<1>10. ASSUME NEW g \in Clients, SetOutgoingReady(g) PROVE RegisteredSocketOpen'
  BY <1>10 DEF SetOutgoingReady
<1>11. ASSUME NEW g \in Incoming, AcceptFailed(g) PROVE RegisteredSocketOpen'
  BY <1>11 DEF AcceptFailed
<1>12. ASSUME NEW g \in Incoming, EnterOnce(g) PROVE RegisteredSocketOpen'
  BY <1>12 DEF EnterOnce
<1>13. ASSUME NEW g \in Incoming, PassOnce(g) PROVE RegisteredSocketOpen'
  BY <1>13 DEF PassOnce
<1>14. ASSUME NEW g \in Incoming, SetIncomingReady(g) PROVE RegisteredSocketOpen'
  BY <1>14 DEF SetIncomingReady
<1>15. ASSUME NEW g \in Incoming, Disconnect(g) PROVE RegisteredSocketOpen'
  BY <1>15 DEF Disconnect
<1>16. ASSUME NEW g \in Closers, CloseAgain(g) PROVE RegisteredSocketOpen'
  BY <1>16 DEF CloseAgain, Return
<1>17. ASSUME NEW g \in Closers, SwapClosed(g) PROVE RegisteredSocketOpen'
  BY <1>17 DEF SwapClosed
<1>18. ASSUME NEW g \in Closers, PeerDisconnect(g) PROVE RegisteredSocketOpen'
  BY <1>18 DEF PeerDisconnect
<1>19. ASSUME NEW g \in Closers, KeepEntries(g) PROVE RegisteredSocketOpen'
  BY <1>19 DEF KeepEntries, Return
<1>20. ASSUME NEW g \in Closers, CloseConnection(g) PROVE RegisteredSocketOpen'
  BY <1>20 DEF CloseConnection
<1>21. ASSUME NEW g \in Closers, DeletePeer(g) PROVE RegisteredSocketOpen'
  BY <1>21, SMTT(30) DEF DeletePeer
<1>22. ASSUME NEW g \in Closers, DeleteConnection(g) PROVE RegisteredSocketOpen'
  BY <1>22, SMTT(30) DEF DeleteConnection, Return
<1>23. CASE CloseNetwork
  BY <1>23 DEF CloseNetwork
<1>24. ASSUME NEW a \in Addrs, Visit(a) PROVE RegisteredSocketOpen'
  BY <1>24, SMTT(30) DEF Visit
<1>25. CASE UNCHANGED vars
  BY <1>25 DEF vars
<1>26. ASSUME NEW g \in Users, CallClose(g) PROVE RegisteredSocketOpen'
  BY <1>26 DEF CallClose, HandedOut
<1> QED
  BY <1>1, <1>2, <1>3, <1>4, <1>5, <1>6, <1>7, <1>8, <1>9, <1>10, <1>11, <1>12,
     <1>13, <1>14, <1>15, <1>16, <1>17, <1>18, <1>19, <1>20, <1>21, <1>22,
     <1>23, <1>24, <1>25, <1>26, ZenonT(30)
  DEF Next, Client, Accept, Close, Closers

(* Accept closes only clients that have an ID. *)
LEMMA StepAcceptCleansUp == ClientInv /\ [Next]_vars => AcceptCleansUp'
<1> SUFFICES ASSUME ClientInv, [Next]_vars PROVE AcceptCleansUp'
  OBVIOUS
<1> USE TargetAssumption, NamesAssumption
       DEF ClientInv, TypeOK, Step, PC, CallPC, ClosePC, Goroutines, Clients, Closers,
           HeldOK, Dialling, Serving, Closing, PeerClient,
           Channel, NamedOK, CloseOK, AcceptCleansUp
<1>1. ASSUME NEW g \in Clients, RefuseAddress(g) PROVE AcceptCleansUp'
  BY <1>1 DEF RefuseAddress
<1>2. ASSUME NEW g \in Clients, LoadOrStore(g) PROVE AcceptCleansUp'
  BY <1>2 DEF LoadOrStore
<1>3. ASSUME NEW g \in Clients, WaitReady(g) PROVE AcceptCleansUp'
  BY <1>3 DEF WaitReady
<1>4. ASSUME NEW g \in Clients, WaitTimeout(g) PROVE AcceptCleansUp'
  BY <1>4 DEF WaitTimeout
<1>5. ASSUME NEW g \in Clients, DialSucceeds(g) PROVE AcceptCleansUp'
  BY <1>5 DEF DialSucceeds
<1>6. ASSUME NEW g \in Clients, DialFails(g) PROVE AcceptCleansUp'
  BY <1>6 DEF DialFails
<1>7. ASSUME NEW g \in Clients, UndoPeer(g) PROVE AcceptCleansUp'
  BY <1>7 DEF UndoPeer
<1>8. ASSUME NEW g \in Clients, StoreConnection(g) PROVE AcceptCleansUp'
  BY <1>8 DEF StoreConnection
<1>9. ASSUME NEW g \in Clients, InitClient(g) PROVE AcceptCleansUp'
  BY <1>9 DEF InitClient
<1>10. ASSUME NEW g \in Clients, SetOutgoingReady(g) PROVE AcceptCleansUp'
  BY <1>10 DEF SetOutgoingReady
<1>11. ASSUME NEW g \in Incoming, AcceptFailed(g) PROVE AcceptCleansUp'
  BY <1>11 DEF AcceptFailed
<1>12. ASSUME NEW g \in Incoming, EnterOnce(g) PROVE AcceptCleansUp'
  BY <1>12 DEF EnterOnce
<1>13. ASSUME NEW g \in Incoming, PassOnce(g) PROVE AcceptCleansUp'
  BY <1>13 DEF PassOnce
<1>14. ASSUME NEW g \in Incoming, SetIncomingReady(g) PROVE AcceptCleansUp'
  BY <1>14 DEF SetIncomingReady
<1>15. ASSUME NEW g \in Incoming, Disconnect(g) PROVE AcceptCleansUp'
  BY <1>15 DEF Disconnect
<1>16. ASSUME NEW g \in Closers, CloseAgain(g) PROVE AcceptCleansUp'
  BY <1>16 DEF CloseAgain, Return
<1>17. ASSUME NEW g \in Closers, SwapClosed(g) PROVE AcceptCleansUp'
  BY <1>17 DEF SwapClosed
<1>18. ASSUME NEW g \in Closers, PeerDisconnect(g) PROVE AcceptCleansUp'
  BY <1>18 DEF PeerDisconnect
<1>19. ASSUME NEW g \in Closers, KeepEntries(g) PROVE AcceptCleansUp'
  BY <1>19 DEF KeepEntries, Return
<1>20. ASSUME NEW g \in Closers, CloseConnection(g) PROVE AcceptCleansUp'
  BY <1>20 DEF CloseConnection
<1>21. ASSUME NEW g \in Closers, DeletePeer(g) PROVE AcceptCleansUp'
  BY <1>21 DEF DeletePeer
<1>22. ASSUME NEW g \in Closers, DeleteConnection(g) PROVE AcceptCleansUp'
  BY <1>22 DEF DeleteConnection, Return
<1>23. CASE CloseNetwork
  BY <1>23 DEF CloseNetwork
<1>24. ASSUME NEW a \in Addrs, Visit(a) PROVE AcceptCleansUp'
  BY <1>24 DEF Visit
<1>25. CASE UNCHANGED vars
  BY <1>25 DEF vars
<1>26. ASSUME NEW g \in Users, CallClose(g) PROVE AcceptCleansUp'
  BY <1>26 DEF CallClose, HandedOut
<1> QED
  BY <1>1, <1>2, <1>3, <1>4, <1>5, <1>6, <1>7, <1>8, <1>9, <1>10, <1>11, <1>12,
     <1>13, <1>14, <1>15, <1>16, <1>17, <1>18, <1>19, <1>20, <1>21, <1>22,
     <1>23, <1>24, <1>25, <1>26, Zenon
  DEF Next, Client, Accept, Close, Closers

----------------------------------------------------------------------------
(* The invariant holds in every reachable state. *)
LEMMA ClientInvInvariant == Spec => []ClientInv
<1>1. ClientInv /\ [Next]_vars => ClientInv'
  BY StepTypeOK, StepHeldOK, StepReadyOK, StepOnceOK, StepNamedOK, StepCloseOK,
     StepDialOK, StepRegisteredOK, StepDisconnectedOnce, StepDisconnectAfterConnect,
     StepRegisteredSocketOpen, StepAcceptCleansUp DEF ClientInv
<1> QED BY <1>1, InitClientInv, PTL DEF Spec

(***************************************************************************)
(* Type correctness of the maps and of the client objects.                 *)
(***************************************************************************)
THEOREM ClientTypeCorrect == Spec => []TypeOK
<1>1. ClientInv => TypeOK
  BY DEF ClientInv
<1> QED BY <1>1, ClientInvInvariant, PTL

(***************************************************************************)
(* Neither setOutgoingReady nor setIncomingReady ever closes a channel     *)
(* that is closed, however many goroutines share a client: no panic.       *)
(***************************************************************************)
THEOREM ChannelsClosedOnce == Spec => []NoDoubleClose
<1>1. ClientInv => NoDoubleClose
  BY DEF ClientInv, NoDoubleClose, ReadyOK, OnceOK, TypeOK, HeldOK, Dialling, Serving,
         Goroutines, Clients
<1> QED BY <1>1, ClientInvInvariant, PTL

(***************************************************************************)
(* Close runs its body once per client, whoever calls it and how often.    *)
(***************************************************************************)
THEOREM OneDisconnect == Spec => []DisconnectedOnce
<1>1. ClientInv => DisconnectedOnce
  BY DEF ClientInv
<1> QED BY <1>1, ClientInvInvariant, PTL

(***************************************************************************)
(* Plugins hear PeerConnect before PeerDisconnect, but for a failed dial   *)
(* and a client that Network.Close closes during its dial.                 *)
(***************************************************************************)
THEOREM ConnectComesFirst == Spec => []DisconnectAfterConnect
<1>1. ClientInv => DisconnectAfterConnect
  BY DEF ClientInv
<1> QED BY <1>1, ClientInvInvariant, PTL

(***************************************************************************)
(* What Write finds in connections is open, or its entry is being deleted. *)
(***************************************************************************)
THEOREM RegisteredIsOpen == Spec => []RegisteredSocketOpen
<1>1. ClientInv => RegisteredSocketOpen
  BY DEF ClientInv
<1> QED BY <1>1, ClientInvInvariant, PTL

(***************************************************************************)
(* The Close of an Accept never leaves the entries of a client in peers    *)
(* and connections for want of an ID, however many Accepts share it.       *)
(***************************************************************************)
THEOREM AcceptsCleanUp == Spec => []AcceptCleansUp
<1>1. ClientInv => AcceptCleansUp
  BY DEF ClientInv
<1> QED BY <1>1, ClientInvInvariant, PTL
=============================================================================
