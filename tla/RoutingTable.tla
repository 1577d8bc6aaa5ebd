---------------------------- MODULE RoutingTable ----------------------------
(***************************************************************************)
(* The routing table of package dht over the identities of package peer.   *)
(*                                                                         *)
(* A peer.ID is a record of its Id, the hash of the public key as a        *)
(* sequence of bits, and its Address.  The public key itself is left out:  *)
(* two peers have the same key exactly if they have the same Id.  The      *)
(* buckets are a function from bucket numbers to lists of peers, the front *)
(* of a list first; a table is changed one bucket at a time, under the     *)
(* mutex of that bucket, and so each operator below is one atomic step.    *)
(***************************************************************************)
EXTENDS Naturals, Sequences, FiniteSets, Functions

CONSTANTS
  Self,        \* RoutingTable.self
  BucketSize   \* dht.BucketSize

Bit == {0, 1}

(* A list without its i-th element, and with it moved to the front. *)
Without(list, i) ==
  [j \in 1..(Len(list) - 1) |-> IF j < i THEN list[j] ELSE list[j + 1]]

ToFront(list, i) ==
  [j \in 1..Len(list) |->
     IF j = 1 THEN list[i] ELSE IF j <= i THEN list[j - 1] ELSE list[j]]

----------------------------------------------------------------------------
(* peer.ID *)

Equals(id, other) == id.Id = other.Id

(* bytes.Compare: the first bit that differs decides, then the length. *)
Less(x, y) ==
  \/ \E i \in DOMAIN x \cap DOMAIN y :
       /\ x[i] < y[i]
       /\ \A j \in 1..(i - 1) : x[j] = y[j]
  \/ Len(x) < Len(y) /\ \A i \in DOMAIN x : x[i] = y[i]

(* As long as id.Id; the bits that the other one lacks stay zero. *)
XorID(id, other) ==
  [i \in DOMAIN id.Id |->
     IF i \in DOMAIN other.Id /\ id.Id[i] # other.Id[i] THEN 1 ELSE 0]

(* The zeros before the first one; one less than the length if all are. *)
PrefixLen(x) ==
  LET zeros == {i \in DOMAIN x : \A j \in 1..i : x[j] = 0}
  IN  IF zeros = DOMAIN x THEN Len(x) - 1 ELSE Cardinality(zeros)

----------------------------------------------------------------------------
(* dht.RoutingTable *)

BucketIds == 0..(Len(Self.Id) - 1)

BucketID(target) == PrefixLen(XorID(target, Self))

IndexesOf(list, target) == {i \in DOMAIN list : Equals(list[i], target)}

Holds(list, target) == IndexesOf(list, target) # {}

(* sort.Slice of a list by one key per element, the least first.  Elements  *)
(* with the same key stay in their order; no two of those that are sorted   *)
(* here have the same.                                                      *)
Before(keys, i, j) == Less(keys[i], keys[j]) \/ (keys[i] = keys[j] /\ i < j)

Place(keys, i) == Cardinality({j \in DOMAIN keys : Before(keys, j, i)}) + 1

SortedBy(list, keys) ==
  [k \in 1..Len(list) |-> list[CHOOSE i \in DOMAIN list : Place(keys, i) = k]]

(* Where the loop over a bucket stops. *)
FirstIndex(list, target) ==
  CHOOSE i \in IndexesOf(list, target) : \A j \in IndexesOf(list, target) : i <= j

----------------------------------------------------------------------------
(* Faulty variants, for checking that the properties notice them. *)

(* A full bucket drops its last peer for the new one. *)
UpdatedEvicting(buckets, target) ==
  IF Len(target.Id) # Len(Self.Id) THEN buckets
  ELSE [buckets EXCEPT ![BucketID(target)] =
         IF Holds(@, target) THEN ToFront(@, FirstIndex(@, target))
         ELSE IF Len(@) <= BucketSize THEN <<target>> \o @
         ELSE <<target>> \o Without(@, Len(@))]

(* A peer is pushed without looking for it. *)
UpdatedBlindly(buckets, target) ==
  IF Len(target.Id) # Len(Self.Id) THEN buckets
  ELSE [buckets EXCEPT ![BucketID(target)] =
         IF Len(@) <= BucketSize THEN <<target>> \o @ ELSE @]

(* The list keeps the peer that stands before the one removed. *)
RemovePeerOffByOne(buckets, target) ==
  [buckets EXCEPT ![BucketID(target)] =
     IF Holds(@, target) /\ FirstIndex(@, target) > 1
       THEN Without(@, FirstIndex(@, target) - 1) ELSE @]

(* What is nearest by its own Id, not by its distance. *)
ClosestByLess(peers, target, count) ==
  LET sorted == SortedBy(peers, [i \in DOMAIN peers |-> peers[i].Id])
  IN  SubSeq(sorted, 1, IF Len(sorted) > count THEN count ELSE Len(sorted))

----------------------------------------------------------------------------
(* A known peer is moved to the front as it is: its old Address stays.  One *)
(* peer more than BucketSize fits.                                          *)
Updated(buckets, target) ==
  IF Len(target.Id) # Len(Self.Id) THEN buckets
  ELSE [buckets EXCEPT ![BucketID(target)] =
         IF Holds(@, target) THEN ToFront(@, FirstIndex(@, target))
         ELSE IF Len(@) <= BucketSize THEN <<target>> \o @
         ELSE @]

PeerExists(buckets, target) == Holds(buckets[BucketID(target)], target)

RemovePeer(buckets, target) ==
  [buckets EXCEPT ![BucketID(target)] =
     IF Holds(@, target) THEN Without(@, FirstIndex(@, target)) ELSE @]

CreateRoutingTable == Updated([b \in BucketIds |-> <<>>], Self)

(* The peers without the node itself.  An Id occurs in one bucket only, so *)
(* that nothing is left to skip as seen.                                   *)
GetPeers(buckets) ==
  {p \in UNION {Range(buckets[b]) : b \in BucketIds} : ~Equals(p, Self)}

GetPeerAddresses(buckets) == {p.Address : p \in GetPeers(buckets)}

(* The end of FindClosestPeers: sort what was collected and cut it off. *)
Closest(peers, target, count) ==
  LET sorted == SortedBy(peers, [i \in DOMAIN peers |-> XorID(peers[i], target)])
  IN  SubSeq(sorted, 1, IF Len(sorted) > count THEN count ELSE Len(sorted))
=============================================================================
