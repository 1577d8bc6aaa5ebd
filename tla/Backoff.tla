------------------------------- MODULE Backoff -------------------------------
(***************************************************************************)
(* The backoff plugin: a goroutine running startBackoff for every client   *)
(* that disconnects, over the map backoffs that the goroutines share.      *)
(*                                                                         *)
(* Sleeping takes any time.  The attempts of a Backoff are read and        *)
(* written without a lock, in two steps.                                   *)
(*                                                                         *)
(* Of Network.Client and PeerClient.Close, whose steps are those of module *)
(* PeerClients, the plugin sees the calls of PeerDisconnect and the map    *)
(* connections.  So Client is one step here: it fails, returns a client,   *)
(* or stores a connection first.  Close is two: it calls the plugins, and  *)
(* later deletes what connections holds for the address by then.  Clients  *)
(* are not told apart: any call may store and any client may be closed,    *)
(* also one without a connection, also while other Closes for the address  *)
(* are running.                                                            *)
(***************************************************************************)
EXTENDS Naturals, FiniteSets

CONSTANTS
  Addrs,        \* unified addresses of peers
  Workers,      \* goroutines of startBackoff; bound: disconnects
  MaxTries,     \* maxAttempts of the plugin
  MaxAttempts,  \* MaxAttempts of a Backoff
  None          \* no Backoff, no address

ASSUME BackoffAssumption ==
  /\ MaxTries \in Nat /\ MaxAttempts \in Nat
  /\ None \notin Workers /\ None \notin Addrs

VARIABLES
  connections,  \* Network.connections: none, open
  closes,       \* running Closes that have called PeerDisconnect since the
                \* connection was stored and will delete the entry
  older,        \* those that had called it before
  entry,        \* backoffs, from addresses to the Backoff a worker created
  attempts,     \* Backoff.attempt of the Backoff that backoffs holds, if any
  pc,           \* where each worker stands
  addr,         \* its addr
  iter,         \* its i
  held,         \* its b, the Backoff it loaded
  seen,         \* the attempt it read there
  tries,        \* history: attempts for an address since it was connected,
                \* up to the lower of the two limits
  causes        \* history: what hindered its backoff since then

closeVars == <<connections, closes, older>>
mapVars == <<closeVars, entry, attempts>>
workerVars == <<pc, addr, iter, held, seen>>
backoffVars == <<mapVars, workerVars, tries, causes>>

Active == {"delay", "store", "loop", "count", "sleep", "dial", "check", "ping", "cleanup"}

BackoffTypeOK ==
  /\ connections \in [Addrs -> {"none", "open"}]
  /\ closes \in [Addrs -> Nat] /\ older \in [Addrs -> Nat]
  /\ entry \in [Addrs -> Workers \cup {None}]
  /\ attempts \in [Addrs -> Nat]
  /\ pc \in [Workers -> Active \cup {"new", "done"}]
  /\ addr \in [Workers -> Addrs \cup {None}]
  /\ iter \in [Workers -> Nat]
  /\ held \in [Workers -> Workers]
  /\ seen \in [Workers -> Nat]
  /\ tries \in [Addrs -> Nat]
  /\ causes \in [Addrs -> SUBSET {"skipped", "stale", "robbed", "overtaken"}]

BackoffInit ==
  /\ connections = [a \in Addrs |-> "none"]
  /\ closes = [a \in Addrs |-> 0] /\ older = [a \in Addrs |-> 0]
  /\ entry = [a \in Addrs |-> None]
  /\ attempts = [a \in Addrs |-> 0]
  /\ pc = [w \in Workers |-> "new"]
  /\ addr = [w \in Workers |-> None]
  /\ iter = [w \in Workers |-> 0]
  /\ held = [w \in Workers |-> w]
  /\ seen = [w \in Workers |-> 0]
  /\ tries = [a \in Addrs |-> 0]
  /\ causes = [a \in Addrs |-> {}]

Limit == IF MaxTries < MaxAttempts THEN MaxTries ELSE MaxAttempts

Goto(w, here, there) == pc[w] = here /\ pc' = [pc EXCEPT ![w] = there]

Blame(a, cause, happened) ==
  causes' = IF happened THEN [causes EXCEPT ![a] = @ \cup {cause}] ELSE causes

-----------------------------------------------------------------------------
(* Connections come and go.                                                *)

\* The connection of an address is stored, over one that may be there, and
\* whatever Closes are running; histories begin anew.
Store(a) ==
  /\ connections' = [connections EXCEPT ![a] = "open"]
  /\ closes' = [closes EXCEPT ![a] = 0]
  /\ older' = [older EXCEPT ![a] = @ + closes[a]]
  /\ tries' = [tries EXCEPT ![a] = 0]
  /\ causes' = [causes EXCEPT ![a] = {}]

Connect(a) ==
  /\ Store(a)
  /\ UNCHANGED <<entry, attempts, workerVars>>

\* PeerClient.Close calls PeerDisconnect, which starts a worker.  If the
\* client has no ID, that is all ...
PeerDisconnect(a) ==
  /\ \/ closes' = [closes EXCEPT ![a] = @ + 1]
     \/ UNCHANGED closes
  /\ \E w \in Workers :
       /\ Goto(w, "new", "delay")
       /\ w = CHOOSE v \in Workers : pc[v] = "new"
       /\ addr' = [addr EXCEPT ![w] = a]
  /\ UNCHANGED <<connections, older, entry, attempts, iter, held, seen, tries, causes>>

\* ... or else it deletes the connection of the address in the end, which may
\* be a later one than that of the client.
DeleteConnection(a) ==
  /\ \/ /\ closes[a] > 0
        /\ closes' = [closes EXCEPT ![a] = @ - 1]
        /\ UNCHANGED <<older, causes>>
     \/ /\ older[a] > 0
        /\ older' = [older EXCEPT ![a] = @ - 1]
        /\ Blame(a, "overtaken", connections[a] = "open" /\ closes[a] = 0)
        /\ UNCHANGED closes
  /\ connections' = [connections EXCEPT ![a] = "none"]
  /\ UNCHANGED <<entry, attempts, workerVars, tries>>

-----------------------------------------------------------------------------
(* startBackoff                                                            *)

\* After the initial delay: is a backoff for the address active already?
LoadEntry(w) ==
  LET active == entry[addr[w]] # None IN
  /\ Goto(w, "delay", IF active THEN "done" ELSE "store")
  /\ Blame(addr[w], "skipped", active)
  /\ UNCHANGED <<mapVars, addr, iter, held, seen, tries>>

StoreEntry(w) ==
  /\ Goto(w, "store", "loop")
  /\ entry' = [entry EXCEPT ![addr[w]] = w]
  /\ attempts' = [attempts EXCEPT ![addr[w]] = 0]
  /\ UNCHANGED <<closeVars, addr, iter, held, seen, tries, causes>>

TimeoutExceeded(a) == attempts[a] >= MaxAttempts

\* The head of the loop, up to the reading of attempt by NextDuration.
Loop(w) ==
  LET a == addr[w] IN
  \/ /\ Goto(w, "loop", "cleanup")
     /\ iter[w] >= MaxTries \/ entry[a] = None \/ TimeoutExceeded(a)
     /\ UNCHANGED <<mapVars, addr, iter, held, seen, tries, causes>>
  \/ /\ Goto(w, "loop", "count")
     /\ iter[w] < MaxTries /\ entry[a] # None /\ ~TimeoutExceeded(a)
     /\ held' = [held EXCEPT ![w] = entry[a]]
     /\ seen' = [seen EXCEPT ![w] = attempts[a]]
     /\ UNCHANGED <<mapVars, addr, iter, tries, causes>>

\* NextDuration writes attempt, which nobody reads any more if the Backoff is
\* not in backoffs; then the worker sleeps.
NextDuration(w) ==
  /\ Goto(w, "count", "sleep")
  /\ attempts' = [attempts EXCEPT ![addr[w]] = IF entry[addr[w]] = held[w] THEN seen[w] + 1 ELSE @]
  /\ iter' = [iter EXCEPT ![w] = @ + 1]
  /\ tries' = [tries EXCEPT ![addr[w]] = IF @ < Limit THEN @ + 1 ELSE @]
  /\ held' = [held EXCEPT ![w] = w]
  /\ seen' = [seen EXCEPT ![w] = 0]
  /\ UNCHANGED <<closeVars, entry, addr, causes>>

\* ConnectionStateExists: somebody else connected, or a Close that has called
\* the plugins is yet to delete the entry.
Wake(w) ==
  LET a == addr[w] IN
  /\ Goto(w, "sleep", IF connections[a] # "none" THEN "cleanup" ELSE "dial")
  /\ Blame(a, "stale", connections[a] = "open" /\ closes[a] > 0)
  /\ UNCHANGED <<mapVars, addr, iter, held, seen, tries>>

\* Faulty variant: the first dial that fails ends the backoff.
DialOnce(w) ==
  /\ \/ Goto(w, "dial", "cleanup") /\ UNCHANGED <<closeVars, tries, causes>>
     \/ Goto(w, "dial", "check") /\ UNCHANGED <<closeVars, tries, causes>>
     \/ Goto(w, "dial", "check") /\ Store(addr[w])
  /\ UNCHANGED <<entry, attempts, addr, iter, held, seen>>

\* Network.Client fails, returns a client it has, or dials a new one.
Dial(w) ==
  /\ \/ Goto(w, "dial", "loop") /\ UNCHANGED <<closeVars, tries, causes>>
     \/ Goto(w, "dial", "check") /\ UNCHANGED <<closeVars, tries, causes>>
     \/ Goto(w, "dial", "check") /\ Store(addr[w])
  /\ UNCHANGED <<entry, attempts, addr, iter, held, seen>>

CheckConnection(w) ==
  /\ Goto(w, "check", IF connections[addr[w]] = "none" THEN "loop" ELSE "ping")
  /\ UNCHANGED <<mapVars, addr, iter, held, seen, tries, causes>>

\* Tell: it fails for sure if there is no connection any more.
Ping(w) ==
  /\ \/ Goto(w, "ping", "loop")
     \/ Goto(w, "ping", "cleanup") /\ connections[addr[w]] # "none"
  /\ UNCHANGED <<mapVars, addr, iter, held, seen, tries, causes>>

\* backoffs.Delete, whoever stored the entry.
DeleteEntry(w) ==
  LET a == addr[w] IN
  /\ Goto(w, "cleanup", "done")
  /\ entry' = [entry EXCEPT ![a] = None]
  /\ attempts' = [attempts EXCEPT ![a] = 0]
  /\ iter' = [iter EXCEPT ![w] = 0]
  /\ Blame(a, "robbed", entry[a] \notin {w, None})
  /\ UNCHANGED <<closeVars, addr, held, seen, tries>>

StartBackoff(w) ==
  \/ LoadEntry(w) \/ StoreEntry(w) \/ Loop(w) \/ NextDuration(w) \/ Wake(w)
  \/ Dial(w) \/ CheckConnection(w) \/ Ping(w) \/ DeleteEntry(w)

-----------------------------------------------------------------------------
Idle(a) == \A w \in Workers : addr[w] = a => pc[w] \notin Active

\* PeerDisconnect was called for a client of a.
Lost(a) == \E w \in Workers : addr[w] = a

(***************************************************************************)
(* When no worker is left for an address, backoffs has no entry for it: an *)
(* entry left behind would make startBackoff skip every later disconnect.  *)
(* And a peer that is still disconnected then was tried as often as the    *)
(* limits allow, unless since its last connection was stored a worker was  *)
(* skipped for the entry of another one, took a connection that was being  *)
(* closed for a live one, or had its entry deleted by another one; or the  *)
(* connection was deleted by the Close of an earlier client, of which no   *)
(* plugin hears a second time.                                             *)
(***************************************************************************)
GivenUpForACause ==
  \A a \in Addrs :
    Idle(a) =>
      /\ entry[a] = None
      /\ Lost(a) /\ connections[a] = "none" =>
           \/ tries[a] = Limit
           \/ causes[a] # {}
=============================================================================
