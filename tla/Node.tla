-------------------------------- MODULE Node --------------------------------
(***************************************************************************)
(* The life of a node: the Builder and its PluginList, Listen with the     *)
(* Startup of every plugin, Bootstrap, Network.Close and Cleanup, together *)
(* with the backoff plugin (module Backoff), whose workers dial at any     *)
(* time, and the cache of domain lookups (module Addresses).               *)
(*                                                                         *)
(* The plugins are nat, discovery and backoff; an ID is named by its       *)
(* address, since the key of the node does not change.                     *)
(***************************************************************************)
EXTENDS Integers, Backoff, Addresses

CONSTANTS
  Plugins,      \* the plugins that the program adds, in any order
  Own,          \* the address given to SetAddress
  External,     \* the address under which a gateway makes the node reachable
  Peers,        \* the addresses given to Bootstrap
  Lookups       \* what the domain name system may answer at some time

\* Hosts are IP addresses or names that can be looked up; a lookup answers
\* with IP addresses, and peers connect under theirs.
Hosts == IPs \cup UNION {DOMAIN dns : dns \in Lookups}

ASSUME NodeAssumption ==
  /\ Plugins \subseteq {"nat", "discovery", "backoff"}
  /\ CacheLimit \in Nat \ {0} /\ Peers \in Seq(Range(Peers))
  /\ Localhost \in IPs /\ Fail \notin IPs
  /\ \A dns \in Lookups : \A host \in DOMAIN dns : dns[host] \in Seq(IPs \cup {"::1"})
  /\ \A p \in Range(Peers) \cup {Own} :
       p.form = "ok" => \A dns \in Lookups : p.host \in IPs \cup DOMAIN dns
  /\ \A a \in Addrs : a.host \in IPs

VARIABLES
  stage,        \* build, startup, listening, down, failed
  plugins,      \* Builder.plugins: names and priorities
  pluginCount,  \* Builder.pluginCount
  turn,         \* the plugin that Each comes to next
  address,      \* Network.Address
  id,           \* Network.ID
  routes,       \* self of the routing table of the discovery plugin
  gateway,      \* gateway of the nat plugin: none, mapped
  kill,         \* Network.kill: open, closed
  boot,         \* Bootstrap: block, filter, dial, done
  given,        \* the addresses that FilterPeers has still to look at
  contacts,     \* the addresses that it found and are still to be dialled
  cache         \* domainLookupCache

buildVars == <<plugins, pluginCount>>
nodeVars == <<address, id, routes, gateway>>
bootVars == <<boot, given, contacts>>
vars == <<backoffVars, stage, buildVars, turn, nodeVars, kill, bootVars, cache>>

Init ==
  /\ BackoffInit
  /\ stage = "build"
  /\ plugins = <<>> /\ pluginCount = 0 /\ turn = 1
  /\ address = NoAddress /\ id = NoAddress /\ routes = NoAddress
  /\ gateway = "none"
  /\ kill = "open"
  /\ boot = "block" /\ given = <<>> /\ contacts = <<>>
  /\ cache = <<>>

-----------------------------------------------------------------------------
(* The Builder                                                             *)

NatPriority == -99999

\* PutInfo refuses a plugin of a type that is there already.
Put(priority, name) ==
  /\ name \notin {plugins[i].name : i \in DOMAIN plugins}
  /\ plugins' = Append(plugins, [name |-> name, priority |-> priority])

\* AddPlugin, or RegisterPlugin of package nat.
AddPlugin(name) ==
  /\ stage = "build"
  /\ IF name = "nat"
       THEN Put(NatPriority, name) /\ UNCHANGED pluginCount
       ELSE Put(pluginCount, name) /\ pluginCount' = pluginCount + 1
  /\ UNCHANGED <<backoffVars, stage, turn, nodeVars, kill, bootVars, cache>>

\* Faulty variant: plugins stay in the order in which they were added.
Unsorted(list) == list

\* sort.SliceStable by priority: a plugin comes after those that are less, and
\* after those before it that are equal.
Precedes(list, i, j) ==
  \/ list[i].priority < list[j].priority
  \/ list[i].priority = list[j].priority /\ i < j

Rank(list, i) == Cardinality({j \in DOMAIN list : Precedes(list, j, i)}) + 1

SortByPriority(list) ==
  [k \in 1..Len(list) |-> list[CHOOSE i \in DOMAIN list : Rank(list, i) = k]]

\* Build, called when all plugins are there.
Build ==
  /\ stage = "build"
  /\ Len(plugins) = Cardinality(Plugins)
  /\ plugins' = SortByPriority(plugins)
  /\ \E dns \in Lookups :
       LET got == ToUnifiedAddress(cache, dns, Own) IN
       /\ cache' = got.cache
       /\ IF got.value = NoAddress
            THEN UNCHANGED <<stage, address, id>>
            ELSE stage' = "startup" /\ address' = got.value /\ id' = got.value
  /\ UNCHANGED <<backoffVars, pluginCount, turn, routes, gateway, kill, bootVars>>

-----------------------------------------------------------------------------
(* Listen                                                                  *)

\* The nat plugin changes the node's address if it finds a gateway.
StartNat ==
  \/ /\ gateway' = "mapped" /\ address' = External /\ id' = External
     /\ UNCHANGED routes
  \/ UNCHANGED nodeVars

StartDiscovery == routes' = id /\ UNCHANGED <<address, id, gateway>>

\* Startup of the next plugin.
Startup ==
  /\ stage = "startup" /\ turn <= Len(plugins)
  /\ CASE plugins[turn].name = "nat" -> StartNat
       [] plugins[turn].name = "discovery" -> StartDiscovery
       [] plugins[turn].name = "backoff" -> UNCHANGED nodeVars
  /\ turn' = turn + 1
  /\ UNCHANGED <<backoffVars, stage, buildVars, kill, bootVars, cache>>

\* The transport listens and startListening closes listeningCh, or
\* log.Fatal ends the process.
StartListening ==
  /\ stage = "startup" /\ turn > Len(plugins)
  /\ stage' \in {"listening", "failed"}
  /\ UNCHANGED <<backoffVars, buildVars, turn, nodeVars, kill, bootVars, cache>>

\* After kill the listener is closed, the loop of Listen returns and every
\* plugin cleans up; the nat plugin deletes its port mapping.
StopListening ==
  /\ stage = "listening" /\ kill = "closed"
  /\ stage' = "down"
  /\ gateway' = "none"
  /\ UNCHANGED <<backoffVars, buildVars, turn, address, id, routes, kill, bootVars, cache>>

\* Network.Close closes kill; the clients are closed by Disconnect.
Close ==
  /\ stage \notin {"build", "failed"} /\ kill = "open"
  /\ kill' = "closed"
  /\ UNCHANGED <<backoffVars, stage, buildVars, turn, nodeVars, bootVars, cache>>

-----------------------------------------------------------------------------
(* Bootstrap, and other callers of Client                                  *)

\* Client resolves the address again, a unified one, through the cache.
Resolve(a) == cache' = CacheGet(cache, a.host, a.host).cache

Listened == stage \in {"listening", "down"}

BlockUntilListening ==
  /\ boot = "block" /\ Listened
  /\ boot' = "filter" /\ given' = Peers
  /\ UNCHANGED <<backoffVars, stage, buildVars, turn, nodeVars, kill, contacts, cache>>

\* One round of FilterPeers: the next address is resolved, and kept if it is
\* neither the node's own nor there already.
FilterPeers ==
  /\ boot = "filter" /\ given # <<>>
  /\ given' = Tail(given)
  /\ \E dns \in Lookups :
       LET got == ToUnifiedAddress(cache, dns, Head(given)) IN
       /\ cache' = got.cache
       /\ contacts' = IF got.value \in {NoAddress, address} \cup Range(contacts)
                      THEN contacts ELSE Append(contacts, got.value)
  /\ UNCHANGED <<backoffVars, stage, buildVars, turn, nodeVars, kill, boot>>

FilterEnd ==
  /\ boot = "filter" /\ given = <<>>
  /\ boot' = "dial"
  /\ UNCHANGED <<backoffVars, stage, buildVars, turn, nodeVars, kill, given, contacts, cache>>

\* Client and Tell for the next address, as in Dial of module Backoff.
BootstrapDial ==
  /\ boot = "dial" /\ contacts # <<>>
  /\ contacts' = Tail(contacts)
  /\ Resolve(Head(contacts))
  /\ \/ UNCHANGED backoffVars
     \/ \E a \in Addrs : a = Head(contacts) /\ Connect(a)
  /\ UNCHANGED <<stage, buildVars, turn, nodeVars, kill, boot, given>>

BootstrapEnd ==
  /\ boot = "dial" /\ contacts = <<>>
  /\ boot' = "done"
  /\ UNCHANGED <<backoffVars, stage, buildVars, turn, nodeVars, kill, given, contacts, cache>>

\* A peer connects: Accept calls Client, which dials back.
Incoming(a) ==
  /\ stage = "listening"
  /\ Connect(a)
  /\ Resolve(a)
  /\ UNCHANGED <<stage, buildVars, turn, nodeVars, kill, bootVars>>

\* A client is closed, and the plugins hear of it.
Disconnect(a) ==
  /\ Listened
  /\ PeerDisconnect(a) \/ DeleteConnection(a)
  /\ UNCHANGED <<stage, buildVars, turn, nodeVars, kill, bootVars, cache>>

\* The workers of the backoff plugin go on, kill or not.
Worker(w) ==
  /\ stage # "failed"
  /\ StartBackoff(w)
  /\ IF pc[w] = "dial" THEN Resolve(addr[w]) ELSE UNCHANGED cache
  /\ UNCHANGED <<stage, buildVars, turn, nodeVars, kill, bootVars>>

Listen == Startup \/ StartListening \/ StopListening

Bootstrap ==
  BlockUntilListening \/ FilterPeers \/ FilterEnd \/ BootstrapDial \/ BootstrapEnd

Next ==
  \/ \E name \in Plugins : AddPlugin(name)
  \/ Build \/ Close
  \/ Listen
  \/ Bootstrap
  \/ \E a \in Addrs : Incoming(a) \/ Disconnect(a)
  \/ \E w \in Workers : Worker(w)

Spec == Init /\ [][Next]_vars

-----------------------------------------------------------------------------
(***************************************************************************)
(* When Bootstrap goes on, every plugin was started, in an order in which  *)
(* the routing table belongs to the ID that the node goes by, whatever the *)
(* order of their registration: the nat plugin had set the address before. *)
(* The addresses to dial are resolved, differ from one another and from    *)
(* the node's own, whatever the cache held or evicted.                     *)
(***************************************************************************)
BootstrapAfterStartup ==
  boot # "block" =>
    /\ stage \in {"listening", "down"}
    /\ "discovery" \in Plugins => routes = id
    /\ id = address
    /\ \A i \in DOMAIN contacts :
         /\ contacts[i].host \in IPs /\ contacts[i] # address
         /\ \A j \in DOMAIN contacts : contacts[i] = contacts[j] => i = j
=============================================================================
