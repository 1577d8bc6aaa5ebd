---------------------------- MODULE BackoffProofs ---------------------------
(***************************************************************************)
(* Proofs about the backoff plugin of module Node, for any number of       *)
(* addresses, of disconnects and of attempts: it gives up on a peer only   *)
(* for a cause, in a node that starts, bootstraps and shuts down around    *)
(* it.                                                                     *)
(***************************************************************************)
EXTENDS Node, TLAPS

\* A worker that has not stored its Backoff.
Before == {"new", "delay", "store"}

\* A worker in its loop, which has not decided to leave it.
Trying == {"loop", "count", "sleep", "dial", "check", "ping"}

\* The limits are counted up to, no further.
TriesBounded == \A a \in Addrs : tries[a] <= Limit

\* An entry is that of a worker for the address that will delete it.
EntryOwned ==
  \A a \in Addrs :
    entry[a] # None =>
      /\ addr[entry[a]] = a
      /\ pc[entry[a]] \in Trying \cup {"cleanup"}

\* Nobody holds a Backoff that is not stored yet.
Uncounted ==
  \A w \in Workers :
    /\ pc[w] # "new" => addr[w] \in Addrs
    /\ pc[w] \in Before => iter[w] = 0
    /\ pc[w] = "count" => /\ addr[held[w]] = addr[w]
                          /\ pc[held[w]] \notin Before

\* Worker w goes on trying a, and its limits are no nearer than tries says.
GoesOn(a, w) ==
  /\ addr[w] = a
  /\ \/ pc[w] \in {"delay", "store"}
     \/ /\ entry[a] = w
        /\ pc[w] \in Trying
        /\ pc[w] \in {"dial", "check", "ping"} => connections[a] = "none"
        /\ iter[w] <= tries[a]
        /\ attempts[a] <= tries[a]
        /\ \A x \in Workers :
             pc[x] = "count" /\ held[x] = w => seen[x] <= tries[a]

\* A lost address with attempts left, whose workers nothing hindered; also
\* while the Close that started one of them has yet to delete the connection.
Hopeful(a) ==
  /\ Lost(a) /\ (connections[a] = "none" \/ closes[a] > 0)
  /\ causes[a] = {} /\ tries[a] < Limit

SomebodyGoesOn == \A a \in Addrs : Hopeful(a) => \E w \in Workers : GoesOn(a, w)

BackoffInv ==
  /\ BackoffTypeOK
  /\ TriesBounded
  /\ EntryOwned
  /\ Uncounted
  /\ SomebodyGoesOn

-----------------------------------------------------------------------------
(* The steps that matter here                                              *)

BackoffNext ==
  \/ \E a \in Addrs : Connect(a) \/ PeerDisconnect(a) \/ DeleteConnection(a)
  \/ \E w \in Workers : StartBackoff(w)

\* What a node does besides leaves the plugin and the connections alone.
LEMMA NodeSteps ==
  ASSUME [Next]_vars
  PROVE  BackoffNext \/ UNCHANGED backoffVars
<1>1. ASSUME NEW name \in Plugins, AddPlugin(name) PROVE UNCHANGED backoffVars
  BY <1>1 DEF AddPlugin
<1>2. ASSUME \/ Build \/ Close \/ Listen \/ BlockUntilListening
             \/ FilterPeers \/ FilterEnd \/ BootstrapEnd
      PROVE  UNCHANGED backoffVars
  BY <1>2, Zenon DEF Build, Close, Listen, Startup, StartListening, StopListening,
              BlockUntilListening, FilterPeers, FilterEnd, BootstrapEnd
<1>3. ASSUME BootstrapDial PROVE BackoffNext \/ UNCHANGED backoffVars
  BY <1>3 DEF BootstrapDial, BackoffNext
<1>4. ASSUME NEW a \in Addrs, Incoming(a) \/ Disconnect(a) PROVE BackoffNext
  BY <1>4 DEF Incoming, Disconnect, BackoffNext
<1>5. ASSUME NEW w \in Workers, Worker(w) PROVE BackoffNext
  BY <1>5 DEF Worker, BackoffNext
<1>6. ASSUME UNCHANGED vars PROVE UNCHANGED backoffVars
  BY <1>6 DEF vars
<1> QED
  BY <1>1, <1>2, <1>3, <1>4, <1>5, <1>6 DEF Next, Bootstrap

LEMMA LimitIsNat == Limit \in Nat /\ Limit <= MaxTries /\ Limit <= MaxAttempts
BY BackoffAssumption DEF Limit

-----------------------------------------------------------------------------
(* Each conjunct is inductive                                              *)

LEMMA TypeStep ==
  ASSUME BackoffTypeOK, Uncounted, BackoffNext
  PROVE  BackoffTypeOK'
<1> USE DEF BackoffTypeOK, Goto, Active
<1>1. ASSUME NEW a \in Addrs, Connect(a) PROVE BackoffTypeOK'
  BY <1>1 DEF Connect, Store, workerVars
<1>2. ASSUME NEW a \in Addrs, PeerDisconnect(a) PROVE BackoffTypeOK'
  BY <1>2 DEF PeerDisconnect
<1>3. ASSUME NEW a \in Addrs, DeleteConnection(a) PROVE BackoffTypeOK'
  BY <1>3 DEF DeleteConnection, Blame, workerVars
<1>4. ASSUME NEW w \in Workers, StartBackoff(w) PROVE BackoffTypeOK'
  <2>1. CASE LoadEntry(w)
    BY <2>1, Zenon DEF LoadEntry, Blame, mapVars, closeVars
  <2>2. CASE StoreEntry(w)
    BY <2>2, Zenon DEF StoreEntry, closeVars
  <2>3. CASE Loop(w)
    <3>1. addr[w] \in Addrs
      BY <2>3 DEF Loop, Uncounted
    <3> QED
      BY <2>3, <3>1 DEF Loop, mapVars, closeVars
  <2>4. CASE NextDuration(w)
    <3>1. addr[w] \in Addrs
      BY <2>4 DEF NextDuration, closeVars, Uncounted
    <3>2. tries' \in [Addrs -> Nat]
      BY <2>4, <3>1, LimitIsNat DEF NextDuration, closeVars
    <3> QED
      BY <2>4, <3>2 DEF NextDuration, closeVars
  <2>5. CASE Wake(w)
    BY <2>5, Zenon DEF Wake, Blame, mapVars, closeVars
  <2>6. CASE Dial(w)
    BY <2>6 DEF Dial, closeVars, Store
  <2>7. CASE CheckConnection(w)
    BY <2>7 DEF CheckConnection, mapVars, closeVars
  <2>8. CASE Ping(w)
    BY <2>8 DEF Ping, mapVars, closeVars
  <2>9. CASE DeleteEntry(w)
    BY <2>9, Zenon DEF DeleteEntry, closeVars, Blame
  <2> QED
    BY <1>4, <2>1, <2>2, <2>3, <2>4, <2>5, <2>6, <2>7, <2>8, <2>9 DEF StartBackoff
<1> QED
  BY <1>1, <1>2, <1>3, <1>4 DEF BackoffNext

LEMMA TriesStep ==
  ASSUME BackoffTypeOK, TriesBounded, BackoffNext
  PROVE  TriesBounded'
<1> USE LimitIsNat DEF BackoffTypeOK, TriesBounded
<1>1. ASSUME UNCHANGED tries PROVE TriesBounded'
  BY <1>1
<1>2. ASSUME NEW a, Store(a) PROVE TriesBounded'
  BY <1>2 DEF Store
<1>3. ASSUME NEW w \in Workers, NextDuration(w) PROVE TriesBounded'
  BY <1>3 DEF NextDuration
<1> QED
  BY <1>1, <1>2, <1>3
  DEF BackoffNext, Connect, PeerDisconnect, DeleteConnection, StartBackoff, LoadEntry,
      StoreEntry, Loop, Wake, Dial, CheckConnection, Ping, DeleteEntry

LEMMA EntryStep ==
  ASSUME BackoffTypeOK, EntryOwned, Uncounted, BackoffNext
  PROVE  EntryOwned'
<1> USE BackoffAssumption DEF BackoffTypeOK, EntryOwned, Goto, Trying
<1>1. ASSUME NEW a \in Addrs, Connect(a) \/ DeleteConnection(a) PROVE EntryOwned'
  BY <1>1 DEF Connect, DeleteConnection, workerVars
<1>2. ASSUME NEW a \in Addrs, PeerDisconnect(a) PROVE EntryOwned'
  BY <1>2 DEF PeerDisconnect
<1>3. ASSUME NEW w \in Workers, StartBackoff(w) PROVE EntryOwned'
  <2>0. pc[w] # "new" => addr[w] \in Addrs
    BY DEF Uncounted
  <2>1. CASE LoadEntry(w)
    BY <2>1 DEF LoadEntry, mapVars
  <2>2. CASE StoreEntry(w)
    BY <2>0, <2>2 DEF StoreEntry
  <2>3. CASE Loop(w)
    BY <2>3 DEF Loop, mapVars
  <2>4. CASE NextDuration(w)
    BY <2>4 DEF NextDuration
  <2>5. CASE Wake(w)
    BY <2>5 DEF Wake, mapVars
  <2>6. CASE Dial(w)
    BY <2>6 DEF Dial
  <2>7. CASE CheckConnection(w)
    BY <2>7 DEF CheckConnection, mapVars
  <2>8. CASE Ping(w)
    BY <2>8 DEF Ping, mapVars
  <2>9. CASE DeleteEntry(w)
    BY <2>0, <2>9 DEF DeleteEntry
  <2> QED
    BY <1>3, <2>1, <2>2, <2>3, <2>4, <2>5, <2>6, <2>7, <2>8, <2>9 DEF StartBackoff
<1> QED
  BY <1>1, <1>2, <1>3 DEF BackoffNext

LEMMA UncountedStep ==
  ASSUME BackoffTypeOK, EntryOwned, Uncounted, BackoffNext
  PROVE  Uncounted'
<1> USE BackoffAssumption DEF BackoffTypeOK, Uncounted, Goto, Before
<1>1. ASSUME NEW a \in Addrs, Connect(a) \/ DeleteConnection(a) PROVE Uncounted'
  BY <1>1 DEF Connect, DeleteConnection, workerVars
<1>2. ASSUME NEW a \in Addrs, PeerDisconnect(a) PROVE Uncounted'
  <2>1. PICK u \in Workers : Goto(u, "new", "delay") /\ addr' = [addr EXCEPT ![u] = a]
    BY <1>2, Zenon DEF PeerDisconnect
  <2>2. UNCHANGED <<iter, held>>
    BY <1>2, Zenon DEF PeerDisconnect
  <2> QED
    BY <2>1, <2>2
<1>3. ASSUME NEW w \in Workers, StartBackoff(w) PROVE Uncounted'
  <2>1. CASE LoadEntry(w)
    BY <2>1 DEF LoadEntry, mapVars
  <2>2. CASE StoreEntry(w)
    BY <2>2 DEF StoreEntry
  <2>3. CASE Loop(w)
    <3>1. CASE /\ pc[w] = "loop" /\ pc' = [pc EXCEPT ![w] = "cleanup"]
               /\ UNCHANGED <<addr, iter, held>>
      BY <3>1
    <3>2. CASE /\ pc[w] = "loop" /\ pc' = [pc EXCEPT ![w] = "count"]
               /\ entry[addr[w]] # None
               /\ held' = [held EXCEPT ![w] = entry[addr[w]]]
               /\ UNCHANGED <<addr, iter>>
      <4>1. addr[w] \in Addrs
        BY <3>2
      <4>2. addr[entry[addr[w]]] = addr[w] /\ pc[entry[addr[w]]] \notin Before
        BY <3>2, <4>1 DEF EntryOwned, Trying
      <4> QED
        BY <3>2, <4>1, <4>2
    <3> QED
      BY <2>3, <3>1, <3>2, Zenon DEF Loop, mapVars
  <2>4. CASE NextDuration(w)
    BY <2>4 DEF NextDuration
  <2>5. CASE Wake(w)
    BY <2>5 DEF Wake, mapVars
  <2>6. CASE Dial(w)
    BY <2>6 DEF Dial
  <2>7. CASE CheckConnection(w)
    BY <2>7 DEF CheckConnection, mapVars
  <2>8. CASE Ping(w)
    BY <2>8 DEF Ping, mapVars
  <2>9. CASE DeleteEntry(w)
    BY <2>9 DEF DeleteEntry
  <2> QED
    BY <1>3, <2>1, <2>2, <2>3, <2>4, <2>5, <2>6, <2>7, <2>8, <2>9 DEF StartBackoff
<1> QED
  BY <1>1, <1>2, <1>3 DEF BackoffNext
\* Steps of connections: a disconnect brings a worker of its own.
LEMMA GoesOnConnections ==
  ASSUME BackoffTypeOK, SomebodyGoesOn,
         NEW b \in Addrs, Connect(b) \/ PeerDisconnect(b) \/ DeleteConnection(b)
  PROVE  SomebodyGoesOn'
<1> USE DEF BackoffTypeOK, Goto
<1> SUFFICES ASSUME NEW a \in Addrs, Hopeful(a)'
             PROVE  \E w \in Workers : GoesOn(a, w)'
  BY DEF SomebodyGoesOn
<1>1. CASE Connect(b)
  <2>1. a # b
    BY <1>1 DEF Connect, Store, Hopeful
  <2>2. Hopeful(a)
    BY <1>1, <2>1 DEF Connect, Store, workerVars, Hopeful, Lost
  <2>3. PICK w \in Workers : GoesOn(a, w)
    BY <2>2 DEF SomebodyGoesOn
  <2>4. GoesOn(a, w)'
    BY <1>1, <2>1, <2>3 DEF Connect, Store, workerVars, GoesOn
  <2> QED
    BY <2>4
<1>2. CASE PeerDisconnect(b)
  <2>1. PICK u \in Workers : Goto(u, "new", "delay") /\ addr' = [addr EXCEPT ![u] = b]
    BY <1>2, ZenonT(30) DEF PeerDisconnect
  <2>2. CASE a = b
    <3>1. GoesOn(a, u)'
      BY <2>1, <2>2 DEF GoesOn
    <3> QED
      BY <3>1
  <2>3. CASE a # b
    <3>1. Hopeful(a)
      BY <1>2, <2>1, <2>3, Zenon DEF PeerDisconnect, Hopeful, Lost
    <3>2. PICK w \in Workers : GoesOn(a, w)
      BY <3>1 DEF SomebodyGoesOn
    <3>3. w # u
      BY <2>1, <3>2 DEF GoesOn, Trying
    <3>4. GoesOn(a, w)'
      BY <1>2, <2>1, <2>3, <3>2, <3>3, ZenonT(30) DEF PeerDisconnect, GoesOn
    <3> QED
      BY <3>4
  <2> QED
    BY <2>2, <2>3
<1>3. CASE DeleteConnection(b)
  <2>1. Hopeful(a)
    <3>1. Lost(a) /\ tries[a] < Limit
      BY <1>3, Zenon DEF DeleteConnection, workerVars, Hopeful, Lost
    <3>2. CASE a # b
      <4>1. UNCHANGED <<connections[a], closes[a], causes[a]>>
        BY <1>3, <3>2 DEF DeleteConnection, Blame
      <4> QED
        BY <3>1, <4>1 DEF Hopeful
    <3>3. CASE a = b /\ closes[b] > 0 /\ UNCHANGED causes
      BY <3>1, <3>3 DEF Hopeful
    <3>4. CASE a = b /\ Blame(b, "overtaken", connections[b] = "open" /\ closes[b] = 0)
      <4>1. ~(connections[a] = "open" /\ closes[a] = 0) /\ causes[a] = {}
        BY <3>4, Zenon DEF Blame, Hopeful
      <4> QED
        BY <3>1, <4>1 DEF Hopeful
    <3> QED
      BY <1>3, <3>2, <3>3, <3>4, Zenon DEF DeleteConnection
  <2>2. PICK w \in Workers : GoesOn(a, w)
    BY <2>1 DEF SomebodyGoesOn
  <2>3. GoesOn(a, w)'
    BY <1>3, <2>2 DEF DeleteConnection, workerVars, GoesOn
  <2> QED
    BY <2>3
<1> QED
  BY <1>1, <1>2, <1>3

\* Steps of startBackoff by u: whoever went on still does, or u takes over.
LEMMA GoesOnWorker ==
  ASSUME BackoffTypeOK, TriesBounded, EntryOwned, Uncounted, SomebodyGoesOn,
         NEW u \in Workers, StartBackoff(u)
  PROVE  SomebodyGoesOn'
<1> USE BackoffAssumption, LimitIsNat DEF BackoffTypeOK, Goto
<1> SUFFICES ASSUME NEW a \in Addrs, Hopeful(a)'
             PROVE  \E w \in Workers : GoesOn(a, w)'
  BY DEF SomebodyGoesOn
<1>0. pc[u] # "new" => addr[u] \in Addrs
  BY DEF Uncounted
<1>1. CASE LoadEntry(u)
  <2>1. Hopeful(a)
    BY <1>1 DEF LoadEntry, Blame, mapVars, closeVars, Hopeful, Lost
  <2>2. PICK w \in Workers : GoesOn(a, w)
    BY <2>1 DEF SomebodyGoesOn
  <2>3. u = w => entry[a] = None
    BY <1>1, <2>2 DEF LoadEntry, Blame, Hopeful, GoesOn
  <2>4. GoesOn(a, w)'
    BY <1>1, <2>2, <2>3 DEF LoadEntry, mapVars, closeVars, GoesOn, Trying
  <2> QED
    BY <2>4
<1>2. CASE StoreEntry(u)
  <2>1. CASE addr[u] = a
    <3>1. \A x \in Workers : pc[x] = "count" => held[x] # u
      BY <1>2 DEF StoreEntry, closeVars, Uncounted, Before
    <3>2. iter[u] = 0 /\ attempts'[a] = 0
      BY <1>2, <2>1 DEF StoreEntry, closeVars, Uncounted, Before
    <3>3. GoesOn(a, u)'
      BY <1>2, <2>1, <3>1, <3>2 DEF StoreEntry, closeVars, GoesOn, Trying
    <3> QED
      BY <3>3
  <2>2. CASE addr[u] # a
    <3>1. Hopeful(a)
      BY <1>2 DEF StoreEntry, closeVars, Hopeful, Lost
    <3>2. PICK w \in Workers : GoesOn(a, w)
      BY <3>1 DEF SomebodyGoesOn
    <3>3. GoesOn(a, w)'
      BY <1>2, <2>2, <3>2 DEF StoreEntry, closeVars, GoesOn
    <3> QED
      BY <3>3
  <2> QED
    BY <2>1, <2>2
<1>3. CASE Loop(u)
  <2>1. Hopeful(a)
    BY <1>3, Zenon DEF Loop, mapVars, closeVars, Hopeful, Lost
  <2>2. PICK w \in Workers : GoesOn(a, w)
    BY <2>1 DEF SomebodyGoesOn
  <2>3. CASE pc[w] \in {"delay", "store"}
    <3>1. GoesOn(a, w)'
      BY <1>3, <2>2, <2>3 DEF Loop, GoesOn
    <3> QED
      BY <3>1
  <2>4. CASE pc[w] \notin {"delay", "store"}
    <3>0. /\ addr[w] = a /\ entry[a] = w
          /\ iter[w] <= tries[a] /\ attempts[a] <= tries[a]
          /\ \A x \in Workers : pc[x] = "count" /\ held[x] = w => seen[x] <= tries[a]
      BY <2>2, <2>4 DEF GoesOn
    <3>1. iter[w] < MaxTries /\ ~TimeoutExceeded(a)
      <4>1. tries[a] < Limit
        BY <2>1 DEF Hopeful
      <4>2. /\ tries[a] \in Nat /\ iter[w] \in Nat /\ attempts[a] \in Nat
            /\ MaxTries \in Nat /\ MaxAttempts \in Nat
        OBVIOUS
      <4> QED
        BY <3>0, <4>1, <4>2 DEF TimeoutExceeded
    <3>2. pc'[w] \in Trying /\ (pc'[w] = pc[w] \/ pc'[w] = "count")
      BY <1>3, <2>2, <2>4, <3>1 DEF Loop, GoesOn, Trying
    <3>3. ASSUME NEW x \in Workers, pc'[x] = "count", held'[x] = w
          PROVE  seen'[x] <= tries[a]
      <4>1. CASE x = u
        <5>1. held'[u] = entry[addr[u]] /\ seen'[u] = attempts[addr[u]]
          BY <1>3, <3>3, <4>1 DEF Loop
        <5>2. addr[u] = a
          BY <1>0, <1>3, <3>0, <3>3, <4>1, <5>1 DEF Loop, EntryOwned
        <5> QED
          BY <3>0, <5>1, <5>2, <4>1
      <4>2. CASE x # u
        <5>1. pc[x] = "count" /\ held[x] = w /\ seen'[x] = seen[x]
          BY <1>3, <3>3, <4>2 DEF Loop
        <5> QED
          BY <3>0, <5>1
      <4> QED
        BY <4>1, <4>2, Zenon
    <3>4. GoesOn(a, w)'
      BY <1>3, <2>2, <2>4, <3>2, <3>3 DEF Loop, mapVars, closeVars, GoesOn
    <3> QED
      BY <3>4
  <2> QED
    BY <2>3, <2>4
<1>4. CASE NextDuration(u)
  <2>1. /\ tries[a] \in Nat /\ tries'[a] \in Nat
        /\ tries[a] < Limit
        /\ tries'[a] = IF addr[u] = a THEN tries[a] + 1 ELSE tries[a]
    BY <1>4 DEF NextDuration, closeVars, Hopeful
  <2>2. Hopeful(a)
    BY <1>4, <2>1 DEF NextDuration, closeVars, Hopeful, Lost
  <2>3. PICK w \in Workers : GoesOn(a, w)
    BY <2>2 DEF SomebodyGoesOn
  <2>4. CASE pc[w] \in {"delay", "store"}
    <3>1. GoesOn(a, w)'
      BY <1>4, <2>3, <2>4 DEF NextDuration, closeVars, GoesOn
    <3> QED
      BY <3>1
  <2>5. CASE pc[w] \notin {"delay", "store"}
    <3>1. /\ addr[w] = a /\ entry[a] = w
          /\ iter[w] <= tries[a] /\ attempts[a] <= tries[a]
          /\ \A x \in Workers : pc[x] = "count" /\ held[x] = w => seen[x] <= tries[a]
      BY <2>3, <2>5 DEF GoesOn
    <3>2. held[u] = w => addr[u] = a
      BY <1>4, <3>1 DEF NextDuration, closeVars, Uncounted
    <3>3. attempts'[a] <= tries'[a]
      BY <1>4, <2>1, <3>1, <3>2 DEF NextDuration, closeVars
    <3>4. iter'[w] <= tries'[a]
      BY <1>4, <2>1, <3>1 DEF NextDuration, closeVars
    <3>5. ASSUME NEW x \in Workers, pc'[x] = "count", held'[x] = w
          PROVE  seen'[x] <= tries'[a]
      BY <1>4, <2>1, <3>1, <3>5 DEF NextDuration, closeVars
    <3>6. /\ pc'[w] \in Trying
          /\ pc'[w] \in {"dial", "check", "ping"} => connections'[a] = "none"
      BY <1>4, <2>3, <2>5, Zenon DEF NextDuration, closeVars, GoesOn, Trying
    <3>7. GoesOn(a, w)'
      BY <1>4, <3>1, <3>3, <3>4, <3>5, <3>6 DEF NextDuration, closeVars, GoesOn
    <3> QED
      BY <3>7
  <2> QED
    BY <2>4, <2>5
<1>5. CASE Wake(u)
  <2>1. Hopeful(a)
    BY <1>5 DEF Wake, Blame, mapVars, closeVars, Hopeful, Lost
  <2>2. PICK w \in Workers : GoesOn(a, w)
    BY <2>1 DEF SomebodyGoesOn
  <2>3. u = w => connections[a] = "none"
    BY <1>5, <2>1, <2>2, Zenon DEF Wake, Blame, Hopeful, GoesOn
  <2>4. GoesOn(a, w)'
    BY <1>5, <2>2, <2>3 DEF Wake, mapVars, closeVars, GoesOn, Trying
  <2> QED
    BY <2>4
<1>6. CASE Dial(u)
  <2>1. UNCHANGED <<connections[a], closes[a], tries[a], causes[a]>>
    BY <1>6 DEF Dial, closeVars, Store, Hopeful
  <2>2. Hopeful(a)
    BY <1>6, <2>1 DEF Dial, closeVars, Hopeful, Lost
  <2>3. PICK w \in Workers : GoesOn(a, w)
    BY <2>2 DEF SomebodyGoesOn
  <2>4. GoesOn(a, w)'
    BY <1>6, <2>1, <2>3 DEF Dial, closeVars, GoesOn, Trying
  <2> QED
    BY <2>4
<1>7. CASE CheckConnection(u) \/ Ping(u)
  <2>1. Hopeful(a)
    BY <1>7 DEF CheckConnection, Ping, mapVars, closeVars, Hopeful, Lost
  <2>2. PICK w \in Workers : GoesOn(a, w)
    BY <2>1 DEF SomebodyGoesOn
  <2>3. GoesOn(a, w)'
    BY <1>7, <2>2 DEF CheckConnection, Ping, mapVars, closeVars, GoesOn, Trying
  <2> QED
    BY <2>3
<1>8. CASE DeleteEntry(u)
  <2>1. Hopeful(a)
    BY <1>8 DEF DeleteEntry, closeVars, Blame, Hopeful, Lost
  <2>2. PICK w \in Workers : GoesOn(a, w)
    BY <2>1 DEF SomebodyGoesOn
  <2>3. u # w
    BY <1>8, <2>2 DEF DeleteEntry, closeVars, GoesOn, Trying
  <2>4. addr[u] = a => entry[a] \in {u, None}
    BY <1>8 DEF DeleteEntry, closeVars, Blame, Hopeful
  <2>5. GoesOn(a, w)'
    BY <1>8, <2>2, <2>3, <2>4 DEF DeleteEntry, closeVars, GoesOn
  <2> QED
    BY <2>5
<1> QED
  BY <1>1, <1>2, <1>3, <1>4, <1>5, <1>6, <1>7, <1>8 DEF StartBackoff

-----------------------------------------------------------------------------
(* The invariant and what follows from it                                  *)

LEMMA BackoffInvAlways == Spec => []BackoffInv
<1>1. Init => BackoffInv
  BY BackoffAssumption, LimitIsNat
  DEF Init, BackoffInit, BackoffInv, BackoffTypeOK, TriesBounded, EntryOwned, Uncounted,
      SomebodyGoesOn, Hopeful, Lost, Before
<1>2. BackoffInv /\ [Next]_vars => BackoffInv'
  <2> SUFFICES ASSUME BackoffInv, [Next]_vars PROVE BackoffInv'
    OBVIOUS
  <2>1. CASE BackoffNext
    <3> USE <2>1 DEF BackoffInv
    <3>1. BackoffTypeOK' /\ TriesBounded' /\ EntryOwned' /\ Uncounted'
      BY TypeStep, TriesStep, EntryStep, UncountedStep
    <3>2. SomebodyGoesOn'
      BY GoesOnConnections, GoesOnWorker DEF BackoffNext
    <3> QED
      BY <3>1, <3>2
  <2>2. CASE UNCHANGED backoffVars
    <3> USE <2>2 DEF backoffVars, mapVars, closeVars, workerVars, BackoffInv
    <3>1. BackoffTypeOK' /\ TriesBounded'
      BY DEF BackoffTypeOK, TriesBounded
    <3>2. EntryOwned' /\ Uncounted'
      BY DEF EntryOwned, Uncounted
    <3>3. ASSUME NEW a \in Addrs PROVE Hopeful(a)' = Hopeful(a)
      BY DEF Hopeful, Lost
    <3>4. ASSUME NEW a \in Addrs, NEW w \in Workers PROVE GoesOn(a, w)' = GoesOn(a, w)
      BY DEF GoesOn
    <3>5. SomebodyGoesOn'
      BY <3>3, <3>4 DEF SomebodyGoesOn
    <3> QED
      BY <3>1, <3>2, <3>5
  <2> QED
    BY <2>1, <2>2, NodeSteps
<1> QED
  BY <1>1, <1>2, PTL DEF Spec

(***************************************************************************)
(* startBackoff leaves no entry of backoffs behind, and gives a peer up    *)
(* only after all attempts or because a worker was hindered, whatever the  *)
(* number of disconnects, addresses and attempts.                          *)
(***************************************************************************)
THEOREM GivesUpForACause == Spec => []GivenUpForACause
<1>1. BackoffInv => GivenUpForACause
  <2> SUFFICES ASSUME BackoffInv, NEW a \in Addrs, Idle(a)
               PROVE  /\ entry[a] = None
                      /\ Lost(a) /\ connections[a] = "none" =>
                           tries[a] = Limit \/ causes[a] # {}
    BY DEF GivenUpForACause
  <2>1. entry[a] = None
    BY DEF BackoffInv, BackoffTypeOK, EntryOwned, Idle, Active, Trying
  <2>2. ~Hopeful(a)
    BY DEF BackoffInv, SomebodyGoesOn, GoesOn, Idle, Active, Trying
  <2>3. tries[a] \in Nat /\ tries[a] <= Limit
    BY DEF BackoffInv, BackoffTypeOK, TriesBounded
  <2> QED
    BY <2>1, <2>2, <2>3, LimitIsNat DEF Hopeful
<1> QED
  BY <1>1, BackoffInvAlways, PTL
=============================================================================
