------------------------------- MODULE Lookup -------------------------------
(***************************************************************************)
(* One call of FindNode of the discovery plugin: the lookups it starts,    *)
(* performLookup in a goroutine each, and the queries that a lookup sends  *)
(* out, queryPeerByID in a goroutine each.                                 *)
(*                                                                         *)
(* Peers are compared by their public keys.  What a peer answers to a      *)
(* LookupNodeRequest is up to the peer: any of a set of lists.             *)
(***************************************************************************)
EXTENDS Naturals, Sequences, FiniteSets, FiniteSetsExt, Functions

CONSTANTS
  Peers,          \* peers there are
  Start,          \* what FindClosestPeers(target, alpha) returned
  Alpha,          \* alpha, queries of a lookup at a time
  DisjointPaths,  \* disjointPaths
  BucketSize,     \* dht.BucketSize
  Answers         \* bound: the lists that peers answer with

ASSUME StartAssumption ==
  /\ Start \in Seq(Peers) /\ IsInjective(Start)
  /\ Len(Start) <= Alpha
  /\ Answers \subseteq Seq(Peers) /\ <<>> \in Answers
  /\ Alpha \in Nat \ {0} /\ DisjointPaths \in Nat \ {0} /\ BucketSize \in Nat

VARIABLES
  pc,        \* where FindNode stands
  spawned,   \* lookups whose goroutine is started
  added,     \* lookups for which wait.Add(1) has been called
  counter,   \* the counter of the WaitGroup
  mutex,     \* the lookup that holds the mutex, 0 if none does
  lpc,       \* where each goroutine of FindNode stands
  pending,   \* lookupBucket.pending
  queue,     \* lookupBucket.queue
  found,     \* the results of each performLookup
  visited,   \* the keys in visited
  results,   \* the results of FindNode
  queries,   \* the goroutines in queryPeerByID
  returned,  \* the peers that FindNode returns
  asked      \* history: how often each peer was queried

mainVars == <<pc, spawned, added, counter, returned>>
searchVars == <<mutex, lpc, pending, queue, found, visited, results, queries,
                asked>>
vars == <<mainVars, searchVars>>

Lookups == 1..(IF Len(Start) < DisjointPaths THEN Len(Start) ELSE DisjointPaths)

(* A query of a lookup, and where it stands: at the peer, or blocked on the *)
(* channel responses with an answer.                                        *)
Query == [lookup : Lookups, peer : Peers, at : {"peer", "channel"},
          answer : Answers]

NewQuery(l, p) == [lookup |-> l, peer |-> p, at |-> "peer", answer |-> <<>>]

(* The elements of a finite set of numbers, the least first. *)
InOrder(S) ==
  CHOOSE f \in Bijection(1..Cardinality(S), S) :
    \A i, j \in 1..Cardinality(S) : i < j => f[i] < f[j]

(* What a loop over list appends that keeps the elements at these places. *)
Kept(list, places) ==
  [k \in 1..Cardinality(places) |-> list[InOrder(places)[k]]]

(* lookups[i%disjointPaths], for an index that counts from 0. *)
Share(l) ==
  Kept(Start, {i \in DOMAIN Start : (i - 1) % DisjointPaths = l - 1})

TypeOK ==
  /\ pc \in {"spawn", "add", "wait", "sort", "done", "panic"}
  /\ spawned \in Nat /\ added \in Nat /\ counter \in Nat
  /\ mutex \in Lookups \cup {0}
  /\ lpc \in [Lookups -> {"none", "lock", "start", "loop", "unlock", "done"}]
  /\ pending \in [Lookups -> 0..Alpha]
  /\ queue \in [Lookups -> Seq(Peers)]
  /\ found \in [Lookups -> Seq(Peers)]
  /\ visited \in SUBSET Peers
  /\ results \in Seq(Peers)
  /\ returned \in SUBSET Peers
  /\ queries \in SUBSET Query
  /\ asked \in [Peers -> Nat]

Init ==
  /\ pc = IF Start = <<>> THEN "wait" ELSE "spawn"
  /\ spawned = 0 /\ added = 0 /\ counter = 0
  /\ mutex = 0
  /\ lpc = [l \in Lookups |-> "none"]
  /\ pending = [l \in Lookups |-> 0]
  /\ queue = [l \in Lookups |-> Share(l)]
  /\ found = [l \in Lookups |-> <<>>]
  /\ visited = Range(Start)
  /\ results = Start
  /\ returned = {}
  /\ queries = {}
  /\ asked = [p \in Peers |-> 0]

(* visited.LoadOrStore for each peer of an answer: those not seen before,  *)
(* neither by an earlier answer nor earlier in this one, in their order.   *)
NewPeers(seen, answer) ==
  Kept(answer, {i \in DOMAIN answer :
                  /\ answer[i] \notin seen
                  /\ \A j \in 1..(i - 1) : answer[j] # answer[i]})

----------------------------------------------------------------------------
(* Faulty variants, for checking that the properties notice them. *)

(* The peers of an answer are looked up in visited, but not stored. *)
StoreNothing(seen, new) == seen

(* The counter is raised by one for all lookups together. *)
AddOnce ==
  /\ pc = "add"
  /\ added' = added + 1
  /\ counter' = IF spawned = 1 THEN 1 ELSE counter
  /\ pc' = IF added' = Cardinality(Lookups) THEN "wait" ELSE "spawn"
  /\ UNCHANGED <<spawned, returned, searchVars>>

(* A failed query sends nothing on the channel. *)
FailSilently(q) ==
  /\ q \in queries /\ q.at = "peer"
  /\ queries' = queries \ {q}
  /\ UNCHANGED <<mainVars, mutex, lpc, pending, queue, found, visited, results,
                 asked>>

----------------------------------------------------------------------------
Store(seen, new) == seen \cup Range(new)

(* FindNode: the goroutine is started before wait.Add(1) *)

Spawn ==
  /\ pc = "spawn"
  /\ spawned' = spawned + 1
  /\ lpc' = [lpc EXCEPT ![spawned + 1] = "lock"]
  /\ pc' = "add"
  /\ UNCHANGED <<added, counter, returned, mutex, pending, queue, found, visited,
                 results, queries, asked>>

Add ==
  /\ pc = "add"
  /\ added' = added + 1
  /\ counter' = counter + 1
  /\ pc' = IF added' = Cardinality(Lookups) THEN "wait" ELSE "spawn"
  /\ UNCHANGED <<spawned, returned, searchVars>>

Wait ==
  /\ pc = "wait" /\ counter = 0
  /\ pc' = "sort"
  /\ UNCHANGED <<spawned, added, counter, returned, searchVars>>

(* The order of sort.Slice compares the Ids of what Xor returns, and Xor    *)
(* sets none: the comparison never holds, any order is a sorted one, and    *)
(* the first BucketSize are any of the results.                             *)
Return ==
  /\ pc = "sort"
  /\ pc' = "done"
  /\ LET n == IF Len(results) > BucketSize THEN BucketSize ELSE Len(results)
     IN  \E kept \in kSubset(n, DOMAIN results) :
           returned' = {results[i] : i \in kept}
  /\ UNCHANGED <<spawned, added, counter, searchVars>>

----------------------------------------------------------------------------
(* The goroutine of a lookup, and performLookup in it *)

LStep(l, here, there) == lpc[l] = here /\ lpc' = [lpc EXCEPT ![l] = there]

Lock(l) ==
  /\ LStep(l, "lock", "start")
  /\ mutex = 0 /\ mutex' = l
  /\ UNCHANGED <<mainVars, pending, queue, found, visited, results, queries, asked>>

(* Queries for the front of the queue while there are less than alpha; what *)
(* is left of the queue is dropped.                                         *)
Ask(l, running, others, list) ==
  LET free == Alpha - running
      next == SubSeq(list, 1, IF Len(list) < free THEN Len(list) ELSE free)
  IN  /\ pending' = [pending EXCEPT ![l] = running + Len(next)]
      /\ queue' = [queue EXCEPT ![l] = <<>>]
      /\ queries' = others \cup {NewQuery(l, p) : p \in Range(next)}
      /\ asked' = [p \in Peers |->
                     asked[p] + Cardinality({i \in DOMAIN next : next[i] = p})]

Begin(l) ==
  /\ LStep(l, "start", "loop")
  /\ Ask(l, 0, queries, queue[l])
  /\ found' = [found EXCEPT ![l] = SubSeq(queue[l], 1, pending'[l])]
  /\ UNCHANGED <<mainVars, mutex, visited, results>>

(* A query hands its answer over; its new peers are results and are queued. *)
Expand(l) ==
  \E q \in queries :
    /\ LStep(l, "loop", "loop") /\ pending[l] > 0
    /\ q.lookup = l /\ q.at = "channel"
    /\ LET new == NewPeers(visited, q.answer)
       IN  /\ visited' = Store(visited, new)
           /\ found' = [found EXCEPT ![l] = @ \o new]
           /\ Ask(l, pending[l] - 1, queries \ {q}, queue[l] \o new)
    /\ UNCHANGED <<mainVars, mutex, results>>

Unlock(l) ==
  /\ LStep(l, "loop", "unlock") /\ pending[l] = 0
  /\ results' = results \o found[l]
  /\ mutex' = 0
  /\ UNCHANGED <<mainVars, pending, queue, found, visited, queries, asked>>

(* A counter below zero ends the process. *)
Done(l) ==
  /\ LStep(l, "unlock", "done")
  /\ IF counter = 0 THEN pc' = "panic" /\ UNCHANGED counter
                    ELSE counter' = counter - 1 /\ UNCHANGED pc
  /\ UNCHANGED <<spawned, added, returned, mutex, pending, queue, found, visited,
                 results, queries, asked>>

----------------------------------------------------------------------------
(* queryPeerByID *)

Deliver(q, answer) ==
  /\ q \in queries /\ q.at = "peer"
  /\ queries' = (queries \ {q}) \cup {[q EXCEPT !.at = "channel", !.answer = answer]}
  /\ UNCHANGED <<mainVars, mutex, lpc, pending, queue, found, visited, results,
                 asked>>

(* The peer answers with a LookupNodeResponse. *)
Answered(q) == \E answer \in Answers : Deliver(q, answer)

(* No client, an error or a timeout of the request, or another message. *)
Failed(q) == Deliver(q, <<>>)

----------------------------------------------------------------------------
Running == pc # "panic"

FindNode == Spawn \/ Add \/ Wait \/ Return

Goroutine(l) == Lock(l) \/ Begin(l) \/ Expand(l) \/ Unlock(l) \/ Done(l)

QueryPeer == \E q \in queries : Answered(q) \/ Failed(q)

Next == Running /\ (FindNode \/ (\E l \in Lookups : Goroutine(l)) \/ QueryPeer)

Spec == Init /\ [][Next]_vars

(* Goroutines go on, and a query ends by its timeout at the latest. *)
FairSpec ==
  /\ Spec
  /\ WF_vars(Running /\ FindNode)
  /\ \A l \in Lookups : WF_vars(Running /\ Goroutine(l))
  /\ WF_vars(Running /\ QueryPeer)

----------------------------------------------------------------------------
(***************************************************************************)
(* No peer is queried twice in one FindNode, whichever lookups and answers *)
(* name it: visited is shared by all lookups.                              *)
(***************************************************************************)
AskedOnce == \A p \in Peers : asked[p] <= 1

(***************************************************************************)
(* The queries that are out never exceed alpha, over all lookups: the      *)
(* mutex held during performLookup runs the lookups one after the other.   *)
(* pending counts them, so that no query waits on a channel that nobody    *)
(* reads any more.                                                         *)
(***************************************************************************)
QueriesBounded ==
  /\ Cardinality(queries) <= Alpha
  /\ \A l \in Lookups : pending[l] = Cardinality({q \in queries : q.lookup = l})

(***************************************************************************)
(* FindNode goes on to sort only when every lookup has delivered, although *)
(* wait.Add(1) comes after the start of the goroutine: every peer that was *)
(* visited is among the results then, and nothing else is.                 *)
(***************************************************************************)
WaitCovers ==
  pc \in {"sort", "done"} =>
    /\ \A l \in Lookups : lpc[l] = "done"
    /\ queries = {}
    /\ Range(results) = visited
    /\ pc = "done" => \/ returned = visited
                      \/ returned \subseteq visited /\ Len(results) > BucketSize

(***************************************************************************)
(* FindNode returns, whatever the peers answer and whichever queries fail, *)
(* unless the goroutine of a lookup is done before it is added to the      *)
(* WaitGroup, which panics then.                                           *)
(***************************************************************************)
Terminates == <>(pc \in {"done", "panic"})
=============================================================================
