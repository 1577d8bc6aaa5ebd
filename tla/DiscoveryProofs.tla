--------------------------- MODULE DiscoveryProofs ---------------------------
(***************************************************************************)
(* Proofs about module Discovery, for identities of any length, any size   *)
(* of the buckets and any number of goroutines.                            *)
(*                                                                         *)
(* The lists of the routing table come first: moving a peer to the front,  *)
(* pushing one and removing one keep a well-formed list well-formed, and   *)
(* change its set of peers as they should.  In a well-formed list an Id    *)
(* stands once, so the loop over a bucket stops at the only place there    *)
(* is.  The same follows for the whole table, and the steps of the plugin  *)
(* only ever apply Updated and RemovePeer to it.                           *)
(*                                                                         *)
(* The answer of FindClosestPeers comes last: distances to one target are  *)
(* strictly ordered, so that SortedBy is a sorted permutation, and ReadInv *)
(* says what a reader has collected of the buckets around its target while *)
(* others change the table.                                                *)
(***************************************************************************)
EXTENDS Discovery, FiniteSetTheorems, WellFoundedInduction, TLAPS

(***************************************************************************)
(* What the proofs use of sequences.  The SMT solver knows it by itself,   *)
(* but finds it more easily when it is stated.                             *)
(***************************************************************************)
LEMMA LenProperties ==
  ASSUME NEW S, NEW s \in Seq(S)
  PROVE  Len(s) \in Nat /\ DOMAIN s = 1..Len(s) /\ s \in [1..Len(s) -> S]
OBVIOUS

LEMMA ElementOfSeq ==
  ASSUME NEW S, NEW s \in Seq(S), NEW i \in 1..Len(s)
  PROVE  s[i] \in S
OBVIOUS

LEMMA SeqDef ==
  ASSUME NEW S, NEW n \in Nat, NEW f \in [1..n -> S]
  PROVE  f \in Seq(S) /\ Len(f) = n
OBVIOUS

LEMMA EmptySeq ==
  ASSUME NEW S
  PROVE  /\ <<>> \in Seq(S) /\ Len(<<>>) = 0
         /\ \A s \in Seq(S) : s # <<>> => Len(s) \in Nat \ {0}
OBVIOUS

LEMMA SeqEqual ==
  ASSUME NEW S, NEW s \in Seq(S), NEW t \in Seq(S), Len(s) = Len(t),
         \A i \in 1..Len(s) : s[i] = t[i]
  PROVE  s = t
OBVIOUS

ListOK(list, b) ==
  /\ list \in Seq(Peers)
  /\ Len(list) <= BucketSize + 1
  /\ \A i \in DOMAIN list : BucketID(list[i]) = b
  /\ \A i, j \in DOMAIN list : Equals(list[i], list[j]) => i = j

TableOK(table) ==
  /\ table \in [BucketIds -> Seq(Peers)]
  /\ \A b \in BucketIds : ListOK(table[b], b)

----------------------------------------------------------------------------
(* Distances *)

(* A peer has a bucket. *)
LEMMA BucketIDInRange ==
  ASSUME NEW p \in Peers
  PROVE  BucketID(p) \in BucketIds
<1> DEFINE n == Len(Self.Id)
           x == XorID(p, Self)
           zeros == {i \in DOMAIN x : \A j \in 1..i : x[j] = 0}
<1>1. n \in Nat /\ n # 0
  BY IdAssumption, EmptySeq, LenProperties
<1>2. DOMAIN x = 1..n /\ x \in Seq(Bit)
  <2>1. p.Id \in Seq(Bit) /\ Len(p.Id) = n
    BY IdAssumption
  <2>2. DOMAIN p.Id = 1..n
    BY <2>1, LenProperties
  <2> QED BY <1>1, <2>2 DEF XorID, Bit
<1>3. Len(x) = n
  BY <1>1, <1>2, LenProperties
<1> HIDE DEF x, n
<1>4. zeros \in SUBSET (1..n)
  BY <1>2
<1>5. IsFiniteSet(1..n) /\ Cardinality(1..n) = n
  BY <1>1, FS_Interval
<1>6. /\ Cardinality(zeros) \in Nat /\ Cardinality(zeros) <= n
      /\ Cardinality(zeros) = n => zeros = 1..n
  BY <1>4, <1>5, FS_Subset, FS_CardinalityType, Zenon
<1>7. PrefixLen(x) = IF zeros = 1..n THEN n - 1 ELSE Cardinality(zeros)
  BY <1>2, <1>3 DEF PrefixLen
<1> HIDE DEF zeros
<1>8. PrefixLen(x) \in 0..(n - 1)
  BY <1>1, <1>6, <1>7
<1> QED BY <1>8 DEF BucketID, BucketIds, x, n

(* It is that of its Id. *)
LEMMA BucketIDOfEquals ==
  ASSUME NEW p, NEW q, Equals(p, q)
  PROVE  BucketID(p) = BucketID(q)
<1>1. XorID(p, Self) = XorID(q, Self)
  BY DEF Equals, XorID
<1> QED BY <1>1 DEF BucketID

----------------------------------------------------------------------------
(* Lists *)

(* The loop over a bucket stops at the only place where the Id stands. *)
LEMMA FirstIndexIsTheOne ==
  ASSUME NEW b, NEW list, ListOK(list, b), NEW p, Holds(list, p)
  PROVE  /\ FirstIndex(list, p) \in 1..Len(list)
         /\ Equals(list[FirstIndex(list, p)], p)
<1>1. list \in Seq(Peers) /\ DOMAIN list = 1..Len(list) /\ Len(list) \in Nat
  BY LenProperties DEF ListOK
<1>2. PICK i \in 1..Len(list) : Equals(list[i], p)
  BY <1>1 DEF Holds, IndexesOf
<1>3. IndexesOf(list, p) = {i}
  BY <1>1, <1>2 DEF IndexesOf, ListOK, Equals
<1>4. \A j \in IndexesOf(list, p) : i <= j
  BY <1>1, <1>3
<1>5. FirstIndex(list, p) \in IndexesOf(list, p)
  BY <1>3, <1>4 DEF FirstIndex
<1> QED BY <1>2, <1>3, <1>5

(* MoveToFront keeps the peers of a list. *)
LEMMA ToFrontKeeps ==
  ASSUME NEW b, NEW list, ListOK(list, b), NEW i \in 1..Len(list)
  PROVE  /\ ListOK(ToFront(list, i), b)
         /\ Range(ToFront(list, i)) = Range(list)
<1> DEFINE n == Len(list)
           new == ToFront(list, i)
           src == [j \in 1..n |-> IF j = 1 THEN i ELSE IF j <= i THEN j - 1 ELSE j]
<1>1. list \in Seq(Peers) /\ DOMAIN list = 1..n /\ n \in Nat
  BY LenProperties DEF ListOK
<1>2. \A j \in 1..n : src[j] \in 1..n
  BY <1>1
<1>3. \A j, k \in 1..n : src[j] = src[k] => j = k
  BY <1>1
<1>4. \A k \in 1..n : \E j \in 1..n : src[j] = k
  <2> SUFFICES ASSUME NEW k \in 1..n PROVE \E j \in 1..n : src[j] = k
    OBVIOUS
  <2>1. CASE k = i
    <3>1. 1 \in 1..n /\ src[1] = k BY <1>1, <2>1
    <3> QED BY <3>1
  <2>2. CASE k < i
    <3>1. k + 1 \in 1..n /\ src[k + 1] = k BY <1>1, <2>2
    <3> QED BY <3>1
  <2>3. CASE k > i
    <3>1. k \in 1..n /\ src[k] = k BY <1>1, <2>3
    <3> QED BY <3>1
  <2> QED BY <1>1, <2>1, <2>2, <2>3
<1>5. DOMAIN new = 1..n /\ \A j \in 1..n : new[j] = list[src[j]]
  BY <1>1 DEF ToFront
<1>6. new \in Seq(Peers)
  <2>1. \A j \in 1..n : list[j] \in Peers
    BY <1>1, ElementOfSeq
  <2>2. \A j \in 1..n : (IF j = 1 THEN list[i] ELSE IF j <= i THEN list[j - 1] ELSE list[j]) \in Peers
    BY <1>1, <2>1
  <2> QED BY <1>1, <2>2 DEF ToFront
<1>7. Len(new) = n
  BY <1>1, <1>5, <1>6, LenProperties
<1> HIDE DEF new, src
<1>8. ListOK(new, b)
  <2>1. Len(new) <= BucketSize + 1
    BY <1>7 DEF ListOK
  <2>2. \A j \in DOMAIN new : BucketID(new[j]) = b
    BY <1>1, <1>2, <1>5 DEF ListOK
  <2>3. \A j, k \in DOMAIN new : Equals(new[j], new[k]) => j = k
    BY <1>1, <1>2, <1>3, <1>5 DEF ListOK
  <2> QED BY <1>6, <2>1, <2>2, <2>3 DEF ListOK
<1>9. Range(new) = Range(list)
  <2>1. Range(new) \subseteq Range(list)
    BY <1>1, <1>2, <1>5 DEF Range
  <2>2. ASSUME NEW k \in 1..n PROVE list[k] \in Range(new)
    <3>1. PICK j \in 1..n : src[j] = k
      BY <1>4
    <3>2. new[j] = list[k] /\ j \in DOMAIN new
      BY <1>5, <3>1
    <3> QED BY <3>2 DEF Range
  <2> QED BY <1>1, <2>1, <2>2 DEF Range
<1> QED BY <1>8, <1>9 DEF new

(* PushFront adds a peer of the right bucket that is not there yet. *)
LEMMA PushFrontAdds ==
  ASSUME NEW b, NEW list, ListOK(list, b), NEW p \in Peers, BucketID(p) = b,
         ~Holds(list, p), Len(list) <= BucketSize
  PROVE  /\ ListOK(<<p>> \o list, b)
         /\ Range(<<p>> \o list) = Range(list) \cup {p}
<1> DEFINE n == Len(list)
           new == <<p>> \o list
<1>1. list \in Seq(Peers) /\ DOMAIN list = 1..n /\ n \in Nat
  BY LenProperties DEF ListOK
<1>2. /\ new \in Seq(Peers) /\ Len(new) = n + 1 /\ DOMAIN new = 1..(n + 1)
      /\ \A j \in 1..(n + 1) : new[j] = IF j = 1 THEN p ELSE list[j - 1]
  BY <1>1
<1> HIDE DEF new
<1>3. \A j \in 1..n : j + 1 \in 1..(n + 1) /\ new[j + 1] = list[j]
  BY <1>1, <1>2
<1>4. \A j \in 1..(n + 1) : j = 1 \/ j - 1 \in 1..n
  BY <1>1
<1>5. \A j \in 1..n : ~Equals(list[j], p)
  BY <1>1 DEF Holds, IndexesOf
<1>6. Len(new) <= BucketSize + 1
  BY <1>1, <1>2, IdAssumption
<1>7. \A j \in DOMAIN new : BucketID(new[j]) = b
  BY <1>1, <1>2, <1>4 DEF ListOK
<1>8. \A j, k \in DOMAIN new : Equals(new[j], new[k]) => j = k
  <2> SUFFICES ASSUME NEW j \in 1..(n + 1), NEW k \in 1..(n + 1), Equals(new[j], new[k])
               PROVE  j = k
    BY <1>2
  <2>1. CASE j = 1 /\ k = 1
    BY <2>1
  <2>2. CASE j = 1 /\ k # 1
    BY <1>2, <1>4, <1>5, <2>2, Zenon DEF Equals
  <2>3. CASE j # 1 /\ k = 1
    BY <1>2, <1>4, <1>5, <2>3, Zenon DEF Equals
  <2>4. CASE j # 1 /\ k # 1
    <3>1. /\ j - 1 \in 1..n /\ k - 1 \in 1..n
          /\ Equals(list[j - 1], list[k - 1])
      BY <1>2, <1>4, <2>4
    <3>2. j - 1 = k - 1
      BY <1>1, <3>1 DEF ListOK
    <3> QED BY <1>1, <3>2
  <2> QED BY <2>1, <2>2, <2>3, <2>4
<1>9. ListOK(new, b)
  BY <1>2, <1>6, <1>7, <1>8 DEF ListOK
<1>10. Range(new) = Range(list) \cup {p}
  <2>1. Range(new) \subseteq Range(list) \cup {p}
    BY <1>1, <1>2, <1>4 DEF Range
  <2>2. p \in Range(new)
    <3>1. 1 \in 1..(n + 1) /\ new[1] = p
      BY <1>1, <1>2
    <3> QED BY <1>2, <3>1 DEF Range
  <2>3. ASSUME NEW k \in 1..n PROVE list[k] \in Range(new)
    BY <1>2, <1>3, ZenonT(30) DEF Range
  <2> QED BY <1>1, <2>1, <2>2, <2>3 DEF Range
<1> QED BY <1>9, <1>10 DEF new

(* Remove takes one peer out of a list. *)
LEMMA WithoutRemoves ==
  ASSUME NEW b, NEW list, ListOK(list, b), NEW i \in 1..Len(list)
  PROVE  /\ ListOK(Without(list, i), b)
         /\ Range(Without(list, i)) = {q \in Range(list) : ~Equals(q, list[i])}
<1> DEFINE n == Len(list)
           new == Without(list, i)
           src == [j \in 1..(n - 1) |-> IF j < i THEN j ELSE j + 1]
<1>1. list \in Seq(Peers) /\ DOMAIN list = 1..n /\ n \in Nat
  BY LenProperties DEF ListOK
<1>2. \A j \in 1..(n - 1) : src[j] \in 1..n /\ src[j] # i
  BY <1>1
<1>3. \A j, k \in 1..(n - 1) : src[j] = src[k] => j = k
  BY <1>1
<1>4. ASSUME NEW k \in 1..n, k # i PROVE \E j \in 1..(n - 1) : src[j] = k
  <2>1. CASE k < i
    <3>1. k \in 1..(n - 1) /\ src[k] = k BY <1>1, <2>1
    <3> QED BY <3>1
  <2>2. CASE k > i
    <3>1. k - 1 \in 1..(n - 1) /\ src[k - 1] = k BY <1>1, <2>2
    <3> QED BY <3>1
  <2> QED BY <1>1, <1>4, <2>1, <2>2
<1>5. DOMAIN new = 1..(n - 1) /\ \A j \in 1..(n - 1) : new[j] = list[src[j]]
  BY <1>1 DEF Without
<1>6. new \in Seq(Peers)
  <2>1. \A j \in 1..n : list[j] \in Peers
    BY <1>1, ElementOfSeq
  <2>2. \A j \in 1..(n - 1) : (IF j < i THEN list[j] ELSE list[j + 1]) \in Peers
    BY <1>1, <2>1
  <2>3. n - 1 \in Nat
    BY <1>1
  <2> QED BY <2>2, <2>3 DEF Without
<1>7. Len(new) = n - 1
  <2>1. n - 1 \in Nat
    BY <1>1
  <2>2. Len(new) \in Nat /\ DOMAIN new = 1..Len(new)
    BY <1>6, LenProperties
  <2> QED BY <1>5, <2>1, <2>2
<1> HIDE DEF new, src
<1>8. ListOK(new, b)
  <2>1. Len(new) <= BucketSize + 1
    BY <1>1, <1>7, IdAssumption DEF ListOK
  <2>2. \A j \in DOMAIN new : BucketID(new[j]) = b
    BY <1>1, <1>2, <1>5 DEF ListOK
  <2>3. \A j, k \in DOMAIN new : Equals(new[j], new[k]) => j = k
    BY <1>1, <1>2, <1>3, <1>5 DEF ListOK
  <2> QED BY <1>6, <2>1, <2>2, <2>3 DEF ListOK
<1>9. Range(new) = {q \in Range(list) : ~Equals(q, list[i])}
  <2>1. ASSUME NEW j \in 1..(n - 1)
        PROVE  new[j] \in Range(list) /\ ~Equals(new[j], list[i])
    BY <1>1, <1>2, <1>5, Zenon DEF Range, ListOK
  <2>2. ASSUME NEW k \in 1..n, ~Equals(list[k], list[i]) PROVE list[k] \in Range(new)
    <3>1. k # i
      BY <2>2 DEF Equals
    <3>2. PICK j \in 1..(n - 1) : src[j] = k
      BY <1>4, <3>1
    <3>3. new[j] = list[k] /\ j \in DOMAIN new
      BY <1>5, <3>2
    <3> QED BY <3>3 DEF Range
  <2> QED BY <1>1, <1>5, <2>1, <2>2 DEF Range
<1> QED BY <1>8, <1>9 DEF new

----------------------------------------------------------------------------
(* The table *)

(* PeerExists looks in the only bucket where the Id may stand. *)
LEMMA PeerExistsIfKnown ==
  ASSUME NEW table, TableOK(table), NEW p \in Peers
  PROVE  PeerExists(table, p) <=> \E q \in Known(table) : Equals(q, p)
<1>1. ASSUME PeerExists(table, p) PROVE \E q \in Known(table) : Equals(q, p)
  <2>1. PICK i \in DOMAIN table[BucketID(p)] : Equals(table[BucketID(p)][i], p)
    BY <1>1 DEF PeerExists, Holds, IndexesOf
  <2>2. table[BucketID(p)][i] \in Known(table)
    BY BucketIDInRange DEF Known, Range
  <2> QED BY <2>1, <2>2
<1>2. ASSUME NEW q \in Known(table), Equals(q, p) PROVE PeerExists(table, p)
  <2>1. PICK b \in BucketIds : q \in Range(table[b])
    BY DEF Known
  <2>2. PICK i \in DOMAIN table[b] : q = table[b][i]
    BY <2>1 DEF Range
  <2>3. BucketID(q) = b
    BY <2>2 DEF TableOK, ListOK
  <2>4. BucketID(p) = b
    BY <1>2, <2>3, BucketIDOfEquals
  <2> QED BY <1>2, <2>2, <2>4 DEF PeerExists, Holds, IndexesOf
<1> QED BY <1>1, <1>2

(* Update forgets nobody and adds at most its target. *)
LEMMA UpdatedKeeps ==
  ASSUME NEW table, TableOK(table), NEW p \in Peers
  PROVE  /\ TableOK(Updated(table, p))
         /\ Known(table) \subseteq Known(Updated(table, p))
         /\ Known(Updated(table, p)) \subseteq Known(table) \cup {p}
<1> DEFINE b == BucketID(p)
           list == table[b]
           new == IF Holds(list, p) THEN ToFront(list, FirstIndex(list, p))
                  ELSE IF Len(list) <= BucketSize THEN <<p>> \o list
                  ELSE list
<1>1. b \in BucketIds /\ ListOK(list, b)
  BY BucketIDInRange DEF TableOK
<1>2. Updated(table, p) = [table EXCEPT ![b] = new]
  BY IdAssumption DEF Updated
<1>3. /\ ListOK(new, b)
      /\ Range(list) \subseteq Range(new)
      /\ Range(new) \subseteq Range(list) \cup {p}
  <2>1. CASE Holds(list, p)
    BY <1>1, <2>1, FirstIndexIsTheOne, ToFrontKeeps
  <2>2. CASE ~Holds(list, p) /\ Len(list) <= BucketSize
    BY <1>1, <2>2, PushFrontAdds
  <2>3. CASE ~Holds(list, p) /\ ~(Len(list) <= BucketSize)
    BY <1>1, <2>3
  <2> QED BY <2>1, <2>2, <2>3
<1> HIDE DEF new
<1>4. TableOK(Updated(table, p))
  BY <1>1, <1>2, <1>3 DEF TableOK, ListOK
<1>5. \A c \in BucketIds : Updated(table, p)[c] = IF c = b THEN new ELSE table[c]
  BY <1>2 DEF TableOK
<1>6. Known(table) \subseteq Known(Updated(table, p))
  BY <1>1, <1>3, <1>5 DEF Known
<1>7. Known(Updated(table, p)) \subseteq Known(table) \cup {p}
  BY <1>1, <1>3, <1>5 DEF Known
<1> QED BY <1>4, <1>6, <1>7

(* RemovePeer forgets the peer with the Id of its target and no other. *)
LEMMA RemovePeerForgets ==
  ASSUME NEW table, TableOK(table), NEW p \in Peers
  PROVE  /\ TableOK(RemovePeer(table, p))
         /\ Known(RemovePeer(table, p)) = {q \in Known(table) : ~Equals(q, p)}
<1> DEFINE b == BucketID(p)
           list == table[b]
           new == IF Holds(list, p) THEN Without(list, FirstIndex(list, p)) ELSE list
<1>1. b \in BucketIds /\ ListOK(list, b)
  BY BucketIDInRange DEF TableOK
<1>2. RemovePeer(table, p) = [table EXCEPT ![b] = new]
  BY DEF RemovePeer
<1>3. ListOK(new, b) /\ Range(new) = {q \in Range(list) : ~Equals(q, p)}
  <2>1. CASE Holds(list, p)
    <3>1. /\ FirstIndex(list, p) \in 1..Len(list)
          /\ Equals(list[FirstIndex(list, p)], p)
      BY <1>1, <2>1, FirstIndexIsTheOne
    <3>2. /\ ListOK(new, b)
          /\ Range(new) = {q \in Range(list) : ~Equals(q, list[FirstIndex(list, p)])}
      BY <1>1, <2>1, <3>1, WithoutRemoves
    <3> QED BY <3>1, <3>2 DEF Equals
  <2>2. CASE ~Holds(list, p)
    BY <1>1, <2>2 DEF Holds, IndexesOf, Range
  <2> QED BY <2>1, <2>2
<1> HIDE DEF new
<1>4. TableOK(RemovePeer(table, p))
  BY <1>1, <1>2, <1>3 DEF TableOK, ListOK
<1>5. \A c \in BucketIds : RemovePeer(table, p)[c] = IF c = b THEN new ELSE table[c]
  BY <1>2 DEF TableOK
<1>6. ASSUME NEW c \in BucketIds, c # b, NEW q \in Range(table[c])
      PROVE  ~Equals(q, p)
  <2>1. PICK i \in DOMAIN table[c] : q = table[c][i]
    BY DEF Range
  <2>2. BucketID(q) = c
    BY <2>1 DEF TableOK, ListOK
  <2> QED BY <1>6, <2>2, BucketIDOfEquals
<1>7. \A c \in BucketIds :
        Range(RemovePeer(table, p)[c]) = {q \in Range(table[c]) : ~Equals(q, p)}
  BY <1>3, <1>5, <1>6
<1>8. Known(RemovePeer(table, p)) = {q \in Known(table) : ~Equals(q, p)}
  BY <1>7 DEF Known
<1> QED BY <1>4, <1>8

(* The new table holds the node itself. *)
LEMMA CreateRoutingTableOK ==
  TableOK(CreateRoutingTable) /\ Known(CreateRoutingTable) = {Self}
<1> DEFINE empty == [b \in BucketIds |-> <<>>]
<1>1. TableOK(empty)
  BY IdAssumption, EmptySeq DEF TableOK, ListOK
<1>2. Known(empty) = {}
  BY EmptySeq DEF Known, Range
<1>3. Self \in Peers
  BY DEF Peers
<1> DEFINE b == BucketID(Self)
<1>4. b \in BucketIds
  BY <1>3, BucketIDInRange
<1>5. ~Holds(empty[b], Self) /\ Len(empty[b]) <= BucketSize
  BY <1>4, IdAssumption, EmptySeq DEF Holds, IndexesOf
<1>6. CreateRoutingTable = [empty EXCEPT ![b] = <<Self>> \o <<>>]
  BY <1>4, <1>5 DEF CreateRoutingTable, Updated
<1>7. Self \in Known(CreateRoutingTable)
  <2>1. <<Self>> \o <<>> = <<Self>>
    OBVIOUS
  <2>2. CreateRoutingTable[b] = <<Self>>
    BY <1>4, <1>6, <2>1
  <2>3. Self \in Range(<<Self>>)
    BY DEF Range
  <2> QED BY <1>4, <2>2, <2>3 DEF Known
<1>8. /\ TableOK(CreateRoutingTable)
      /\ Known(CreateRoutingTable) \subseteq Known(empty) \cup {Self}
  BY <1>1, <1>3, UpdatedKeeps DEF CreateRoutingTable
<1> QED BY <1>2, <1>7, <1>8

----------------------------------------------------------------------------
(* The plugin *)

StateOK ==
  /\ session \in [Contacts -> {"down", "up", "removing"}]
  /\ from \in [Handlers -> Peers]
  /\ todo \in [Handlers -> SUBSET Peers]

DiscoveryInv ==
  StateOK /\ TableOK(buckets) /\ Self \in Known(buckets) /\ GoneAfterDisconnect

(* A step that matters to the table, or one that does not. *)
TableStep ==
  \/ \E p \in Peers : Enter(p) /\ UNCHANGED session
  \/ \E c \in Contacts : Connect(c) \/ Disconnect(c) \/ DisconnectRemove(c)
  \/ UNCHANGED <<buckets, session, strangers>>

(* Startup leaves the table well-formed. *)
LEMMA InitDiscoveryInv == Init => DiscoveryInv
<1> SUFFICES ASSUME Init PROVE DiscoveryInv
  OBVIOUS
<1>1. StateOK
  BY DEF Init, StateOK, Peers
<1>2. TableOK(buckets) /\ Known(buckets) = {Self}
  BY CreateRoutingTableOK DEF Init
<1> QED BY <1>1, <1>2 DEF DiscoveryInv, GoneAfterDisconnect

(* What Receive does to the table is Enter, for a peer of the network. *)
LEMMA NextIsTableStep == StateOK /\ [Next]_vars => TableStep /\ StateOK'
<1> SUFFICES ASSUME StateOK, [Next]_vars PROVE TableStep /\ StateOK'
  OBVIOUS
<1> USE DEF StateOK, Step
<1>1. ASSUME NEW c \in Contacts, Connect(c) \/ Disconnect(c) \/ DisconnectRemove(c)
      PROVE  TableStep /\ StateOK'
  <2>1. TableStep
    BY <1>1 DEF TableStep
  <2>2. StateOK'
    BY <1>1 DEF Connect, Disconnect, DisconnectRemove, taskVars
  <2> QED BY <2>1, <2>2
<1>2. ASSUME NEW h \in Handlers, NEW c \in Contacts, Dispatch(h, c)
      PROVE  TableStep /\ StateOK'
  BY <1>2 DEF Dispatch, TableStep, tableVars, Peers
<1>3. ASSUME NEW h \in Handlers, NEW kind \in Kinds, Receive(h, kind)
      PROVE  TableStep /\ StateOK'
  <2>1. from[h] \in Peers /\ Enter(from[h]) /\ UNCHANGED session
    BY <1>3 DEF Receive
  <2>2. StateOK'
    BY <1>3 DEF Receive, Peers
  <2> QED BY <2>1, <2>2 DEF TableStep
<1>4. ASSUME NEW h \in Handlers, FindNode(h) PROVE TableStep /\ StateOK'
  <2>1. UNCHANGED <<buckets, session, strangers, from>>
    BY <1>4 DEF FindNode, tableVars
  <2>2. todo' \in [Handlers -> SUBSET Peers]
    BY <1>4 DEF FindNode, Peers
  <2> QED BY <2>1, <2>2 DEF TableStep
<1>5. ASSUME NEW h \in Handlers, Learn(h) PROVE TableStep /\ StateOK'
  <2>1. PICK p \in todo[h] :
          /\ Enter(p)
          /\ todo' = [todo EXCEPT ![h] = @ \ {p}]
          /\ UNCHANGED <<session, from>>
    BY <1>5, Zenon DEF Learn
  <2> QED BY <2>1 DEF TableStep
<1>6. ASSUME NEW h \in Handlers,
             LearnEnd(h) \/ ReadFirst(h) \/ ReadDown(h) \/ ReadUp(h) \/ Respond(h)
      PROVE  TableStep /\ StateOK'
  BY <1>6, Zenon DEF LearnEnd, ReadFirst, ReadDown, ReadUp, Respond, TableStep, tableVars
<1>7. ASSUME UNCHANGED vars PROVE TableStep /\ StateOK'
  BY <1>7 DEF vars, TableStep
<1> QED BY <1>1, <1>2, <1>3, <1>4, <1>5, <1>6, <1>7 DEF Next

(* Every such step keeps the table in order. *)
LEMMA StepDiscoveryInv == DiscoveryInv /\ [Next]_vars => DiscoveryInv'
<1> SUFFICES ASSUME DiscoveryInv, [Next]_vars PROVE DiscoveryInv'
  OBVIOUS
<1>1. StateOK' /\ TableStep
  BY NextIsTableStep DEF DiscoveryInv
<1> DEFINE Goal == TableOK(buckets') /\ Self \in Known(buckets') /\ GoneAfterDisconnect'
<1>2. ASSUME NEW p \in Peers, Enter(p), UNCHANGED session PROVE Goal
  <2>1. buckets' = Updated(buckets, p)
    BY <1>2 DEF Enter, SetTable
  <2>2. /\ TableOK(buckets') /\ Known(buckets) \subseteq Known(buckets')
        /\ Known(buckets') \subseteq Known(buckets) \cup {p}
    BY <2>1, UpdatedKeeps DEF DiscoveryInv
  <2>3. HasSession(p) \/ p \in strangers'
    BY <1>2 DEF Enter
  <2>4. strangers \subseteq strangers'
    BY <1>2 DEF Enter
  <2>5. GoneAfterDisconnect'
    BY <1>2, <2>2, <2>3, <2>4 DEF DiscoveryInv, GoneAfterDisconnect, HasSession
  <2> QED BY <2>2, <2>5 DEF DiscoveryInv
<1>3. ASSUME NEW c \in Contacts, Connect(c) PROVE Goal
  <2>1. /\ UNCHANGED <<buckets, strangers>>
        /\ session' = [session EXCEPT ![c] = "up"]
    BY <1>3 DEF Connect, tableVars
  <2> QED BY <2>1 DEF DiscoveryInv, StateOK, GoneAfterDisconnect, HasSession
<1>4. ASSUME NEW c \in Contacts, Disconnect(c) PROVE Goal
  <2>1. /\ UNCHANGED <<buckets, strangers>>
        /\ session' = [session EXCEPT ![c] = IF PeerExists(buckets, c) THEN "removing"
                                             ELSE "down"]
    BY <1>4 DEF Disconnect, tableVars
  <2>2. c \in Known(buckets) => PeerExists(buckets, c)
    BY PeerExistsIfKnown DEF DiscoveryInv, Peers, Equals
  <2> QED BY <2>1, <2>2 DEF DiscoveryInv, StateOK, GoneAfterDisconnect, HasSession
<1>5. ASSUME NEW c \in Contacts, DisconnectRemove(c) PROVE Goal
  <2>1. /\ buckets' = RemovePeer(buckets, c)
        /\ session' = [session EXCEPT ![c] = "down"]
        /\ strangers' = {p \in strangers : ~Equals(p, c)}
    BY <1>5 DEF DisconnectRemove, SetTable
  <2>2. /\ TableOK(buckets')
        /\ Known(buckets') = {q \in Known(buckets) : ~Equals(q, c)}
    BY <2>1, RemovePeerForgets DEF DiscoveryInv, Peers
  <2>3. Self \in Known(buckets')
    BY <2>2, IdAssumption DEF DiscoveryInv, Equals
  <2>4. c \notin Known(buckets')
    BY <2>2 DEF Equals
  <2>5. GoneAfterDisconnect'
    BY <2>1, <2>2, <2>4 DEF DiscoveryInv, StateOK, GoneAfterDisconnect, HasSession
  <2> QED BY <2>2, <2>3, <2>5
<1>6. ASSUME UNCHANGED <<buckets, session, strangers>> PROVE Goal
  BY <1>6 DEF DiscoveryInv, GoneAfterDisconnect, HasSession
<1>7. Goal
  BY <1>1, <1>2, <1>3, <1>4, <1>5, <1>6 DEF TableStep
<1> QED BY <1>1, <1>7 DEF DiscoveryInv

(* So DiscoveryInv holds always. *)
LEMMA DiscoveryInvAlways == Spec => []DiscoveryInv
<1> QED BY InitDiscoveryInv, StepDiscoveryInv, PTL DEF Spec

(***************************************************************************)
(* Whatever goroutines call Update and RemovePeer in whatever order: a     *)
(* peer stands once, in the bucket of its distance, no bucket outgrows     *)
(* BucketSize + 1 and the node keeps its own entry.  For identities of any *)
(* length and any BucketSize.                                              *)
(***************************************************************************)
THEOREM TableStaysWellFormed == Spec => []BucketsWellFormed
<1>1. DiscoveryInv => BucketsWellFormed
  <2> SUFFICES ASSUME DiscoveryInv PROVE BucketsWellFormed
    OBVIOUS
  <2>1. Self \in Peers /\ Equals(Self, Self)
    BY DEF Peers, Equals
  <2>2. PeerExists(buckets, Self)
    BY <2>1, PeerExistsIfKnown DEF DiscoveryInv
  <2> QED BY <2>2 DEF DiscoveryInv, TableOK, ListOK, BucketsWellFormed
<1> QED BY <1>1, DiscoveryInvAlways, PTL

(***************************************************************************)
(* An entry of the table belongs to a session that is not closed, or was   *)
(* entered without one, for any number of contacts, addresses and running  *)
(* calls of Receive.                                                       *)
(***************************************************************************)
THEOREM DisconnectedAreGone == Spec => []GoneAfterDisconnect
<1>1. DiscoveryInv => GoneAfterDisconnect
  BY DEF DiscoveryInv
<1> QED BY <1>1, DiscoveryInvAlways, PTL

(***************************************************************************)
(* The only step that makes the table forget a peer is the PeerDisconnect  *)
(* of a session with its Id.                                               *)
(***************************************************************************)
THEOREM ForgottenByDisconnectOnly == Spec => OnlyDisconnectForgets
<1> DEFINE Forgets ==
      \A p \in Known(buckets) \ Known(buckets') :
        \E c \in Contacts : Equals(c, p) /\ session[c] = "removing"
                            /\ session'[c] = "down"
<1>1. DiscoveryInv /\ [Next]_vars => [Forgets]_vars
  <2> SUFFICES ASSUME DiscoveryInv, [Next]_vars PROVE Forgets
    OBVIOUS
  <2>1. TableStep
    BY NextIsTableStep DEF DiscoveryInv
  <2>2. ASSUME NEW p \in Peers, Enter(p) PROVE Forgets
    <3>1. buckets' = Updated(buckets, p)
      BY <2>2 DEF Enter, SetTable
    <3>2. Known(buckets) \subseteq Known(buckets')
      BY <3>1, UpdatedKeeps DEF DiscoveryInv
    <3> QED BY <3>2
  <2>3. ASSUME NEW c \in Contacts, DisconnectRemove(c) PROVE Forgets
    <3>1. /\ buckets' = RemovePeer(buckets, c)
          /\ session[c] = "removing"
          /\ session' = [session EXCEPT ![c] = "down"]
      BY <2>3 DEF DisconnectRemove, SetTable
    <3>2. Known(buckets') = {q \in Known(buckets) : ~Equals(q, c)}
      BY <3>1, RemovePeerForgets DEF DiscoveryInv, Peers
    <3>3. session'[c] = "down"
      BY <3>1 DEF DiscoveryInv, StateOK
    <3> QED BY <3>1, <3>2, <3>3 DEF Equals
  <2>4. ASSUME NEW c \in Contacts, Connect(c) \/ Disconnect(c) PROVE Forgets
    <3>1. UNCHANGED buckets
      BY <2>4 DEF Connect, Disconnect, tableVars
    <3> QED BY <3>1 DEF Known
  <2>5. ASSUME UNCHANGED <<buckets, session, strangers>> PROVE Forgets
    BY <2>5 DEF Known
  <2> QED BY <2>1, <2>2, <2>3, <2>4, <2>5 DEF TableStep
<1> QED BY <1>1, DiscoveryInvAlways, PTL DEF Spec, OnlyDisconnectForgets

----------------------------------------------------------------------------
(* Distances are ordered *)

(* A set of numbers has a least one. *)
LEMMA LeastNat ==
  ASSUME NEW T \in SUBSET Nat, T # {}
  PROVE  \E m \in T : \A k \in T : m <= k
<1> DEFINE R == OpToRel(<, Nat)
<1>1. \A a, b \in Nat : <<a, b>> \in R <=> a < b
  BY DEF OpToRel
<1>2. IsWellFoundedOn(R, Nat)
  BY NatLessThanWellFounded, Zenon
<1> HIDE DEF R
<1>3. PICK m \in T : \A k \in T : ~ (<<k, m>> \in R)
  BY <1>2, WFMin, Zenon
<1>4. \A k \in T : ~ (k < m)
  BY <1>1, <1>3, Zenon
<1> QED BY <1>3, <1>4

(* A string of n bits, by what the order of bytes.Compare needs of it. *)
Bits(x, n) ==
  x \in Seq(Bit) /\ Len(x) = n /\ DOMAIN x = 1..n /\ \A i \in 1..n : x[i] \in Bit

(* bytes.Compare of strings of one length: the first bit that differs. *)
LEMMA LessOfSameLength ==
  ASSUME NEW n \in Nat, NEW x, NEW y, Bits(x, n), Bits(y, n)
  PROVE  Less(x, y) <=> \E i \in 1..n : x[i] < y[i] /\ \A j \in 1..(i - 1) : x[j] = y[j]
<1>1. ~ (Len(x) < Len(y))
  BY DEF Bits
<1> QED BY <1>1 DEF Less, Bits

(* The order is irreflexive and transitive ... *)
LEMMA LessIsStrict ==
  ASSUME NEW n \in Nat, NEW x, NEW y, NEW z, Bits(x, n), Bits(y, n), Bits(z, n)
  PROVE  /\ ~Less(x, x)
         /\ Less(x, y) /\ Less(y, z) => Less(x, z)
<1>1. \A i \in 1..n : x[i] \in Nat /\ y[i] \in Nat /\ z[i] \in Nat
  BY DEF Bits, Bit
<1>2. ~Less(x, x)
  BY <1>1, LessOfSameLength
<1>3. ASSUME Less(x, y), Less(y, z) PROVE Less(x, z)
  <2>1. PICK i \in 1..n : x[i] < y[i] /\ \A j \in 1..(i - 1) : x[j] = y[j]
    BY <1>3, LessOfSameLength
  <2>2. PICK k \in 1..n : y[k] < z[k] /\ \A j \in 1..(k - 1) : y[j] = z[j]
    BY <1>3, LessOfSameLength
  <2>3. CASE i < k
    <3>1. x[i] < z[i] /\ \A j \in 1..(i - 1) : x[j] = z[j]
      BY <1>1, <2>1, <2>2, <2>3
    <3> QED BY <3>1, LessOfSameLength
  <2>4. CASE k < i
    <3>1. x[k] < z[k] /\ \A j \in 1..(k - 1) : x[j] = z[j]
      BY <1>1, <2>1, <2>2, <2>4
    <3> QED BY <3>1, LessOfSameLength
  <2>5. CASE i = k
    <3>1. x[i] < z[i] /\ \A j \in 1..(i - 1) : x[j] = z[j]
      BY <1>1, <2>1, <2>2, <2>5
    <3> QED BY <3>1, LessOfSameLength
  <2> QED BY <2>3, <2>4, <2>5
<1> QED BY <1>2, <1>3

(* ... and total. *)
LEMMA LessIsTotal ==
  ASSUME NEW n \in Nat, NEW x, NEW y, Bits(x, n), Bits(y, n),
         \E i \in 1..n : x[i] # y[i]
  PROVE  Less(x, y) \/ Less(y, x)
<1> DEFINE differ == {i \in 1..n : x[i] # y[i]}
<1>1. differ \in SUBSET Nat /\ differ # {}
  OBVIOUS
<1>2. PICK i \in differ : \A j \in differ : i <= j
  <2> HIDE DEF differ
  <2> QED BY <1>1, LeastNat
<1>3. i \in 1..n /\ \A j \in 1..(i - 1) : x[j] = y[j]
  BY <1>2
<1>4. x[i] < y[i] \/ y[i] < x[i]
  BY <1>2, <1>3 DEF Bits, Bit
<1>5. CASE x[i] < y[i]
  BY <1>3, <1>5, LessOfSameLength
<1>6. CASE y[i] < x[i]
  <2>1. \A j \in 1..(i - 1) : y[j] = x[j]
    BY <1>3
  <2> QED BY <1>3, <1>6, <2>1, LessOfSameLength
<1> QED BY <1>4, <1>5, <1>6

(* The distance of two Ids has their length, and tells peers apart. *)
LEMMA Distances ==
  ASSUME NEW p \in Peers, NEW q \in Peers, NEW t \in Peers
  PROVE  /\ Len(Self.Id) \in Nat
         /\ Bits(XorID(p, t), Len(Self.Id))
         /\ ~Equals(p, q) => \E i \in 1..Len(Self.Id) : XorID(p, t)[i] # XorID(q, t)[i]
<1> DEFINE n == Len(Self.Id)
<1>1. n \in Nat
  BY IdAssumption, LenProperties
<1>2. \A r \in Peers : /\ DOMAIN r.Id = 1..n /\ r.Id \in Seq(Bit) /\ Len(r.Id) = n
                       /\ \A i \in 1..n : r.Id[i] \in Bit
  <2> SUFFICES ASSUME NEW r \in Peers
               PROVE  /\ DOMAIN r.Id = 1..n /\ r.Id \in Seq(Bit) /\ Len(r.Id) = n
                      /\ \A i \in 1..n : r.Id[i] \in Bit
    OBVIOUS
  <2>1. r.Id \in Seq(Bit) /\ Len(r.Id) = n
    BY IdAssumption
  <2>2. DOMAIN r.Id = 1..n
    BY <2>1, LenProperties
  <2>3. \A i \in 1..n : r.Id[i] \in Bit
    BY <2>1, ElementOfSeq
  <2> QED BY <2>1, <2>2, <2>3
<1> HIDE DEF n
<1>3. \A r \in Peers : /\ DOMAIN XorID(r, t) = 1..n
                       /\ \A i \in 1..n : XorID(r, t)[i] = IF r.Id[i] # t.Id[i] THEN 1 ELSE 0
  BY <1>2 DEF XorID
<1>4. \A r \in Peers : \A i \in 1..n : XorID(r, t)[i] \in Bit
  BY <1>3 DEF Bit
<1>5. XorID(p, t) \in Seq(Bit)
  <2>1. XorID(p, t) \in [1..n -> Bit]
    BY <1>2, <1>4, Zenon DEF XorID
  <2> QED BY <1>1, <2>1, SeqDef
<1>6. Len(XorID(p, t)) = n
  BY <1>1, <1>3, <1>5, LenProperties
<1>7. ASSUME ~Equals(p, q) PROVE \E i \in 1..n : XorID(p, t)[i] # XorID(q, t)[i]
  <2>1. p.Id # q.Id
    BY <1>7 DEF Equals
  <2>2. PICK i \in 1..n : p.Id[i] # q.Id[i]
    BY <1>2, <2>1, SeqEqual
  <2>3. XorID(p, t)[i] # XorID(q, t)[i]
    BY <1>2, <1>3, <2>2 DEF Bit
  <2> QED BY <2>3
<1> QED BY <1>1, <1>3, <1>4, <1>5, <1>6, <1>7, Zenon DEF Bits, n

----------------------------------------------------------------------------
(* Sorting *)

(***************************************************************************)
(* Counting, for each of n things, those before it puts them in order: a   *)
(* place for each, the places in their order, and something in each place. *)
(***************************************************************************)
Ordered(B, n) ==
  /\ \A i \in 1..n : <<i, i>> \notin B
  /\ \A i, j, k \in 1..n : <<i, j>> \in B /\ <<j, k>> \in B => <<i, k>> \in B
  /\ \A i, j \in 1..n : i = j \/ <<i, j>> \in B \/ <<j, i>> \in B

Counts(place, B, n) ==
  /\ place \in [1..n -> Nat]
  /\ \A i \in 1..n : place[i] = Cardinality({j \in 1..n : <<j, i>> \in B}) + 1

LEMMA PlacesInOrder ==
  ASSUME NEW n \in Nat, NEW B, NEW place, Ordered(B, n), Counts(place, B, n)
  PROVE  /\ \A i \in 1..n : place[i] \in 1..n
         /\ \A i, j \in 1..n : place[i] < place[j] <=> <<i, j>> \in B
         /\ \A k \in 1..n : \E i \in 1..n : place[i] = k
<1> DEFINE below(i) == {j \in 1..n : <<j, i>> \in B}
<1>1. IsFiniteSet(1..n) /\ Cardinality(1..n) = n
  BY FS_Interval
<1>2. \A i \in 1..n : /\ below(i) \in SUBSET (1..n) /\ i \notin below(i)
                      /\ place[i] = Cardinality(below(i)) + 1
  BY Zenon DEF Ordered, Counts
<1>3. \A i, j \in 1..n : <<i, j>> \in B => below(i) \subseteq below(j) /\ i \in below(j)
  BY Zenon DEF Ordered
<1> HIDE DEF below
<1>4. \A i \in 1..n : IsFiniteSet(below(i)) /\ Cardinality(below(i)) \in Nat
  BY <1>1, <1>2, FS_Subset, FS_CardinalityType
<1>5. ASSUME NEW i \in 1..n PROVE place[i] \in 1..n
  <2>1. Cardinality(below(i)) <= n /\ (Cardinality(below(i)) = n => below(i) = 1..n)
    BY <1>1, <1>2, FS_Subset
  <2>2. below(i) # 1..n
    BY <1>2
  <2> QED BY <1>2, <1>4, <2>1, <2>2
<1>6. ASSUME NEW i \in 1..n, NEW j \in 1..n, <<i, j>> \in B PROVE place[i] < place[j]
  <2>1. below(i) \subseteq below(j) /\ below(i) # below(j)
    BY <1>2, <1>3, <1>6
  <2>2. Cardinality(below(i)) < Cardinality(below(j))
    <3>1. /\ Cardinality(below(i)) <= Cardinality(below(j))
          /\ Cardinality(below(i)) = Cardinality(below(j)) => below(i) = below(j)
      BY <1>4, <2>1, FS_Subset
    <3> QED BY <1>4, <2>1, <3>1
  <2> QED BY <1>2, <1>4, <2>2
<1>7. ASSUME NEW i \in 1..n, NEW j \in 1..n
      PROVE  (place[i] < place[j] <=> <<i, j>> \in B) /\ (place[i] = place[j] => i = j)
  <2>1. place[i] \in Nat /\ place[j] \in Nat
    BY DEF Counts
  <2>2. <<i, j>> \in B => place[i] < place[j]
    BY <1>6
  <2>3. <<j, i>> \in B => place[j] < place[i]
    BY <1>6
  <2>4. i = j \/ <<i, j>> \in B \/ <<j, i>> \in B
    BY DEF Ordered
  <2> QED BY <2>1, <2>2, <2>3, <2>4
<1>8. \A i, j \in 1..n : place[i] = place[j] => i = j
  BY <1>7, Zenon
<1> DEFINE used == {place[i] : i \in 1..n}
<1>9. used = 1..n
  <2>1. used \in SUBSET (1..n)
    BY <1>5
  <2>2. place \in Bijection(1..n, used)
    BY <1>8 DEF Counts, Bijection, Injection, Surjection, IsInjective
  <2>3. ExistsBijection(1..n, used)
    BY <2>2 DEF ExistsBijection
  <2>4. Cardinality(used) = n
    BY <1>1, <2>3, FS_Bijection
  <2> HIDE DEF used
  <2> QED BY <1>1, <2>1, <2>4, FS_Subset, Zenon
<1>10. \A k \in 1..n : \E i \in 1..n : place[i] = k
  BY <1>9
<1> QED BY <1>5, <1>7, <1>10

(* What sort.Slice leaves: everything once, the nearer before the farther. *)
LEMMA SortedByDistance ==
  ASSUME NEW list \in Seq(Peers), NEW t \in Peers
  PROVE  LET keys == [i \in DOMAIN list |-> XorID(list[i], t)]
             sorted == SortedBy(list, keys)
         IN  \E at \in [1..Len(list) -> 1..Len(list)] :
               /\ sorted = [k \in 1..Len(list) |-> list[at[k]]]
               /\ \A i \in 1..Len(list) : \E k \in 1..Len(list) : at[k] = i
               /\ \A j, k \in 1..Len(list) : j < k => Before(keys, at[j], at[k])
               /\ \A j, k \in 1..Len(list) : at[j] = at[k] => j = k
<1> DEFINE n == Len(list)
           keys == [i \in DOMAIN list |-> XorID(list[i], t)]
           B == {e \in (1..n) \X (1..n) : Before(keys, e[1], e[2])}
           place == [i \in 1..n |-> Place(keys, i)]
           at == [k \in 1..n |-> CHOOSE i \in DOMAIN list : Place(keys, i) = k]
<1>1. n \in Nat /\ DOMAIN list = 1..n /\ \A i \in 1..n : list[i] \in Peers
  BY LenProperties, ElementOfSeq
<1>2. DOMAIN keys = 1..n /\ \A i \in 1..n : keys[i] = XorID(list[i], t)
  BY <1>1
<1>3. PICK m \in Nat : \A i \in 1..n : Bits(keys[i], m)
  <2>1. Len(Self.Id) \in Nat /\ \A i \in 1..n : Bits(XorID(list[i], t), Len(Self.Id))
    <3>1. Self \in Peers
      BY DEF Peers
    <3> QED BY <1>1, <3>1, Distances
  <2> QED BY <1>2, <2>1, Zenon
<1> HIDE DEF keys
<1>4. \A i, j \in 1..n : <<i, j>> \in B <=> Before(keys, i, j)
  OBVIOUS
<1>6. \A i \in 1..n : {j \in 1..n : <<j, i>> \in B} = {j \in DOMAIN keys : Before(keys, j, i)}
  BY <1>2, <1>4
<1> HIDE DEF B
<1>7. \A i \in 1..n : <<i, i>> \notin B
  BY <1>3, <1>4, LessIsStrict DEF Before
<1>8. ASSUME NEW i \in 1..n, NEW j \in 1..n, NEW k \in 1..n, <<i, j>> \in B, <<j, k>> \in B
      PROVE  <<i, k>> \in B
  <2>1. Before(keys, i, j) /\ Before(keys, j, k)
    BY <1>4, <1>8
  <2>2. Less(keys[i], keys[j]) /\ Less(keys[j], keys[k]) => Less(keys[i], keys[k])
    BY <1>3, LessIsStrict
  <2>3. Before(keys, i, k)
    BY <2>1, <2>2 DEF Before
  <2> QED BY <1>4, <2>3
<1>9. ASSUME NEW i \in 1..n, NEW j \in 1..n PROVE i = j \/ <<i, j>> \in B \/ <<j, i>> \in B
  <2>1. CASE keys[i] = keys[j]
    BY <1>1, <1>4, <2>1 DEF Before
  <2>2. CASE keys[i] # keys[j]
    <3>1. \E b \in 1..m : keys[i][b] # keys[j][b]
      BY <1>3, <2>2, SeqEqual DEF Bits
    <3>2. Less(keys[i], keys[j]) \/ Less(keys[j], keys[i])
      BY <1>3, <3>1, LessIsTotal
    <3> QED BY <1>4, <3>2 DEF Before
  <2> QED BY <2>1, <2>2
<1>10. \A i \in 1..n : /\ place[i] \in Nat
                       /\ place[i] = Cardinality({j \in 1..n : <<j, i>> \in B}) + 1
  <2>1. IsFiniteSet(1..n)
    BY <1>1, FS_Interval
  <2>2. \A i \in 1..n : IsFiniteSet({j \in 1..n : <<j, i>> \in B})
    BY <2>1, FS_Subset, Zenon
  <2>3. \A i \in 1..n : Cardinality({j \in 1..n : <<j, i>> \in B}) \in Nat
    BY <2>2, FS_CardinalityType
  <2>4. \A i \in 1..n : place[i] = Cardinality({j \in 1..n : <<j, i>> \in B}) + 1
    BY <1>6, Zenon DEF Place
  <2> QED BY <2>3, <2>4
<1>11. place \in [1..n -> Nat]
  BY <1>10, Zenon
<1> HIDE DEF place
<1>12. /\ \A i \in 1..n : place[i] \in 1..n
       /\ \A i, j \in 1..n : place[i] < place[j] <=> <<i, j>> \in B
       /\ \A k \in 1..n : \E i \in 1..n : place[i] = k
  <2>1. Ordered(B, n)
    BY <1>7, <1>8, <1>9 DEF Ordered
  <2>2. Counts(place, B, n)
    BY <1>10, <1>11 DEF Counts
  <2> QED BY <1>1, <2>1, <2>2, PlacesInOrder
<1>13. \A k \in 1..n : at[k] \in 1..n /\ place[at[k]] = k
  <2>1. \A i \in 1..n : place[i] = Place(keys, i)
    BY DEF place
  <2>2. \A k \in 1..n : \E i \in DOMAIN list : Place(keys, i) = k
    BY <1>1, <1>12, <2>1, Zenon
  <2>3. \A k \in 1..n : at[k] \in DOMAIN list /\ Place(keys, at[k]) = k
    BY <2>2
  <2> QED BY <1>1, <2>1, <2>3
<1>14. SortedBy(list, keys) = [k \in 1..n |-> list[at[k]]]
  BY DEF SortedBy
<1> HIDE DEF at
<1>15. ASSUME NEW j \in 1..n, NEW k \in 1..n PROVE at[j] = at[k] => j = k
  BY <1>13
<1>16. ASSUME NEW j \in 1..n, NEW k \in 1..n, j < k PROVE Before(keys, at[j], at[k])
  <2>1. /\ at[j] \in 1..n /\ at[k] \in 1..n
        /\ place[at[j]] = j /\ place[at[k]] = k
    BY <1>13
  <2>2. place[at[j]] < place[at[k]]
    BY <1>16, <2>1
  <2>3. <<at[j], at[k]>> \in B
    BY <1>12, <2>1, <2>2, Zenon
  <2> QED BY <1>4, <2>1, <2>3
<1>17. ASSUME NEW i \in 1..n PROVE \E k \in 1..n : at[k] = i
  <2>1. place[i] \in 1..n /\ place[at[place[i]]] = place[i] /\ at[place[i]] \in 1..n
    BY <1>12, <1>13, Zenon
  <2>2. CASE at[place[i]] = i
    BY <2>1, <2>2
  <2>3. CASE at[place[i]] # i
    <3>1. place[i] < place[at[place[i]]] \/ place[at[place[i]]] < place[i]
      BY <1>9, <1>12, <2>1, <2>3, Zenon
    <3> QED BY <2>1, <3>1
  <2> QED BY <2>2, <2>3
<1>18. at \in [1..n -> 1..n]
  BY <1>13 DEF at
<1> QED BY <1>14, <1>15, <1>16, <1>17, <1>18, Zenon DEF keys

(* No Id twice. *)
Distinct(list) == \A i, j \in DOMAIN list : Equals(list[i], list[j]) => i = j

(***************************************************************************)
(* What FindClosestPeers answers from what it collected: nobody twice, and *)
(* whoever is left out is farther than all of the count peers answered.    *)
(***************************************************************************)
LEMMA ClosestFacts ==
  ASSUME NEW list \in Seq(Peers), Distinct(list), NEW t \in Peers, NEW count \in Nat
  PROVE  LET answer == Closest(list, t, count) IN
         /\ Distinct(answer)
         /\ Len(list) >= count => Len(answer) = count
         /\ \A p \in Range(list) : ~Holds(answer, p) =>
              /\ Len(answer) = count
              /\ \A q \in Range(answer) : Less(XorID(q, t), XorID(p, t))
<1> DEFINE n == Len(list)
           keys == [i \in DOMAIN list |-> XorID(list[i], t)]
           sorted == SortedBy(list, keys)
           c == IF n > count THEN count ELSE n
           answer == SubSeq(sorted, 1, c)
<1>1. n \in Nat /\ DOMAIN list = 1..n /\ \A i \in 1..n : list[i] \in Peers
  BY LenProperties, ElementOfSeq
<1>2. PICK at \in [1..n -> 1..n] :
        /\ sorted = [k \in 1..n |-> list[at[k]]]
        /\ \A i \in 1..n : \E k \in 1..n : at[k] = i
        /\ \A j, k \in 1..n : j < k => Before(keys, at[j], at[k])
        /\ \A j, k \in 1..n : at[j] = at[k] => j = k
  BY SortedByDistance, Zenon
<1>3. sorted \in Seq(Peers) /\ Len(sorted) = n
  <2>1. sorted \in [1..n -> Peers]
    BY <1>1, <1>2, Zenon
  <2>2. sorted \in Seq(Peers)
    BY <1>1, <2>1, SeqDef
  <2> QED BY <1>1, <2>1, <2>2, LenProperties
<1>4. Closest(list, t, count) = answer
  BY <1>3, Zenon DEF Closest
<1>5. \A i \in 1..n : keys[i] = XorID(list[i], t)
  BY <1>1
<1>6. \A k \in 1..n : sorted[k] = list[at[k]] /\ at[k] \in 1..n
  BY <1>2, Zenon
<1>7. c \in 0..n /\ c <= count /\ (c < n => c = count) /\ (n >= count => c = count)
  <2> HIDE DEF n
  <2> QED BY <1>1
<1> HIDE DEF sorted, keys, c
<1>8. DOMAIN answer = 1..c /\ Len(answer) = c /\ \A k \in 1..c : answer[k] = list[at[k]] /\ k \in 1..n
  <2>1. DOMAIN answer = 1..c /\ Len(answer) = c /\ \A k \in 1..c : answer[k] = sorted[k]
    BY <1>1, <1>3, <1>7
  <2>2. \A k \in 1..c : k \in 1..n
    BY <1>7
  <2> QED BY <1>6, <2>1, <2>2, Zenon
<1> HIDE DEF answer
<1>9. Distinct(answer)
  <2> SUFFICES ASSUME NEW j \in 1..c, NEW k \in 1..c, Equals(answer[j], answer[k])
               PROVE  j = k
    BY <1>8 DEF Distinct
  <2>1. at[j] = at[k]
    BY <1>1, <1>6, <1>8 DEF Distinct
  <2> QED BY <1>2, <1>8, <2>1
<1>10. ASSUME NEW p \in Range(list), ~Holds(answer, p)
       PROVE  /\ Len(answer) = count
              /\ \A q \in Range(answer) : Less(XorID(q, t), XorID(p, t))
  <2>1. PICK i \in 1..n : list[i] = p
    BY <1>1 DEF Range
  <2>2. PICK k \in 1..n : at[k] = i
    BY <1>2
  <2>3. k \notin 1..c
    BY <1>8, <1>10, <2>1, <2>2, Zenon DEF Holds, IndexesOf, Equals
  <2>4. c < k
    BY <1>7, <2>3
  <2>5. Len(answer) = count
    BY <1>1, <1>7, <1>8, <2>4
  <2>6. ASSUME NEW q \in Range(answer) PROVE Less(XorID(q, t), XorID(p, t))
    <3>1. PICK j \in 1..c : answer[j] = q
      BY <1>8 DEF Range
    <3>2. j \in 1..n /\ j < k /\ q = list[at[j]] /\ at[j] \in 1..n
      <4>1. j \in 1..n /\ q = list[at[j]]
        BY <1>8, <3>1
      <4>2. j < k
        BY <1>7, <2>4
      <4> QED BY <1>6, <4>1, <4>2
    <3>3. Before(keys, at[j], at[k])
      BY <1>2, <3>2
    <3>4. keys[at[j]] = XorID(q, t) /\ keys[at[k]] = XorID(p, t)
      BY <1>5, <2>1, <2>2, <3>2
    <3>5. at[j] # at[k]
      BY <1>2, <3>2
    <3>6. ~Equals(q, p) /\ q \in Peers /\ p \in Peers
      BY <1>1, <2>1, <2>2, <3>2, <3>5 DEF Distinct
    <3>7. XorID(q, t) # XorID(p, t)
      BY <3>6, Distances, Zenon
    <3> QED BY <3>3, <3>4, <3>7 DEF Before
  <2> QED BY <2>5, <2>6
<1> QED BY <1>4, <1>7, <1>8, <1>9, <1>10

----------------------------------------------------------------------------
(* FindClosestPeers while the table changes *)

(* The buckets read so far around b, when the loop has come to i = r; in    *)
(* the middle of a round, the lower one of the two has been read as well.   *)
Span(b, r) == {k \in BucketIds : k < b + r /\ b < k + r}

HalfSpan(b, r) == {k \in BucketIds : k < b + r /\ b <= k + r}

(* Of the buckets in span everybody was collected who stayed in the table. *)
Gathered(list, kept, span) ==
  /\ list \in Seq(Peers)
  /\ Distinct(list)
  /\ \A i \in DOMAIN list : BucketID(list[i]) \in span
  /\ \A p \in kept : BucketID(p) \in span => p \in Range(list)

(* A reader that stands at a step, with its target, i, what it has and what *)
(* was in the table all the time.                                           *)
Collected(at, t, r, list, kept, table) ==
  /\ r >= 1
  /\ Gathered(list, kept, IF at = "up" THEN HalfSpan(BucketID(t), r)
                          ELSE Span(BucketID(t), r))
  /\ kept \subseteq Known(table)
  /\ at = "sort" => \/ Len(list) >= Count
                    \/ Span(BucketID(t), r) = BucketIds

ReadTypes ==
  /\ pc \in [Handlers -> PC]
  /\ target \in [Handlers -> Peers]
  /\ radius \in [Handlers -> Nat]
  /\ found \in [Handlers -> Seq(Peers)]
  /\ stable \in [Handlers -> SUBSET Peers]

ReadInv ==
  /\ ReadTypes
  /\ \A h \in Handlers :
       Reading(h) => Collected(pc[h], target[h], radius[h], found[h], stable[h], buckets)

(* How the span grows, and that it is everything when the loop is left for *)
(* want of buckets.                                                        *)
LEMMA SpanFacts ==
  ASSUME NEW b \in BucketIds, NEW r \in Nat, r >= 1
  PROVE  /\ Span(b, 1) = {b}
         /\ r <= b => /\ b - r \in BucketIds
                      /\ b - r \notin Span(b, r)
                      /\ HalfSpan(b, r) = Span(b, r) \cup {b - r}
         /\ ~(r <= b) => HalfSpan(b, r) = Span(b, r)
         /\ b + r \notin HalfSpan(b, r)
         /\ b + r \in BucketIds =>
              Span(b, r + 1) = HalfSpan(b, r) \cup {b + r}
         /\ b + r \notin BucketIds => Span(b, r + 1) = HalfSpan(b, r)
         /\ ~(r <= b) /\ b + r \notin BucketIds => Span(b, r) = BucketIds
<1> PICK n \in Nat : n = Len(Self.Id)
  BY IdAssumption, LenProperties
<1>1. BucketIds = 0..(n - 1)
  BY DEF BucketIds
<1>2. Span(b, 1) = {b}
  BY <1>1 DEF Span, HalfSpan
<1>3. ASSUME r <= b
      PROVE  /\ b - r \in BucketIds
             /\ b - r \notin Span(b, r)
             /\ HalfSpan(b, r) = Span(b, r) \cup {b - r}
  BY <1>1, <1>3 DEF Span, HalfSpan
<1>4. ASSUME ~(r <= b) PROVE HalfSpan(b, r) = Span(b, r)
  BY <1>1, <1>4 DEF Span, HalfSpan
<1>5. b + r \notin HalfSpan(b, r)
  BY <1>1 DEF Span, HalfSpan
<1>6. ASSUME b + r \in BucketIds
      PROVE  Span(b, r + 1) = HalfSpan(b, r) \cup {b + r}
  BY <1>1, <1>6 DEF Span, HalfSpan
<1>7. ASSUME b + r \notin BucketIds PROVE Span(b, r + 1) = HalfSpan(b, r)
  BY <1>1, <1>7 DEF Span, HalfSpan
<1>8. ASSUME ~(r <= b), b + r \notin BucketIds PROVE Span(b, r) = BucketIds
  BY <1>1, <1>8 DEF Span, HalfSpan
<1> QED BY <1>2, <1>3, <1>4, <1>5, <1>6, <1>7, <1>8

(* A peer of the table stands in the bucket of its distance. *)
LEMMA KnownInBucket ==
  ASSUME NEW table, TableOK(table), NEW p \in Known(table)
  PROVE  p \in Peers /\ p \in Range(table[BucketID(p)])
<1>1. PICK b \in BucketIds : p \in Range(table[b])
  BY DEF Known
<1>2. PICK i \in DOMAIN table[b] : p = table[b][i]
  BY <1>1 DEF Range
<1>3. BucketID(p) = b
  BY <1>2 DEF TableOK, ListOK
<1>4. p \in Peers
  BY <1>2, ElementOfSeq, LenProperties DEF TableOK, ListOK
<1> QED BY <1>1, <1>3, <1>4

(* Reading one more bucket: nobody comes twice, for an Id has one bucket. *)
LEMMA BucketAppended ==
  ASSUME NEW table, TableOK(table), NEW span, NEW list, NEW kept \in SUBSET Known(table),
         Gathered(list, kept, span), NEW k \in BucketIds, k \notin span
  PROVE  Gathered(list \o table[k], kept, span \cup {k})
<1> DEFINE more == table[k]
           new == list \o more
<1>1. PICK m, n \in Nat :
        /\ m = Len(list) /\ n = Len(more)
        /\ DOMAIN list = 1..m /\ DOMAIN more = 1..n
        /\ list \in Seq(Peers) /\ more \in Seq(Peers)
  BY LenProperties DEF Gathered, TableOK, ListOK
<1>2. /\ \A i \in 1..n : BucketID(more[i]) = k
      /\ \A i, j \in 1..n : Equals(more[i], more[j]) => i = j
  BY <1>1 DEF TableOK, ListOK
<1>3. /\ new \in Seq(Peers) /\ DOMAIN new = 1..(m + n)
      /\ \A i \in 1..(m + n) : new[i] = IF i <= m THEN list[i] ELSE more[i - m]
  BY <1>1
<1> HIDE DEF more, new
<1>4. \A i \in 1..(m + n) : \/ i \in 1..m /\ new[i] = list[i]
                            \/ i - m \in 1..n /\ new[i] = more[i - m] /\ i > m
  BY <1>1, <1>3
<1>5. \A i \in 1..m : BucketID(list[i]) \in span
  BY <1>1 DEF Gathered
<1>6. Distinct(new)
  <2> SUFFICES ASSUME NEW i \in 1..(m + n), NEW j \in 1..(m + n), Equals(new[i], new[j])
               PROVE  i = j
    BY <1>3 DEF Distinct
  <2>1. BucketID(new[i]) = BucketID(new[j])
    BY BucketIDOfEquals, Zenon
  <2>2. CASE i <= m /\ j <= m
    <3>1. i \in 1..m /\ j \in 1..m /\ new[i] = list[i] /\ new[j] = list[j]
      BY <1>1, <1>4, <2>2
    <3> QED BY <1>1, <3>1 DEF Gathered, Distinct
  <2>3. CASE i > m /\ j > m
    <3>1. i - m \in 1..n /\ j - m \in 1..n /\ new[i] = more[i - m] /\ new[j] = more[j - m]
      BY <1>1, <1>4, <2>3
    <3>2. i - m = j - m
      BY <1>2, <3>1
    <3> QED BY <1>1, <3>2
  <2>4. CASE i <= m /\ j > m
    <3>1. i \in 1..m /\ j - m \in 1..n /\ new[i] = list[i] /\ new[j] = more[j - m]
      BY <1>1, <1>4, <2>4
    <3> QED BY <1>2, <1>5, <2>1, <3>1, Zenon
  <2>5. CASE i > m /\ j <= m
    <3>1. j \in 1..m /\ i - m \in 1..n /\ new[j] = list[j] /\ new[i] = more[i - m]
      BY <1>1, <1>4, <2>5
    <3> QED BY <1>2, <1>5, <2>1, <3>1, Zenon
  <2> QED BY <1>1, <2>2, <2>3, <2>4, <2>5
<1>7. \A i \in DOMAIN new : BucketID(new[i]) \in span \cup {k}
  BY <1>2, <1>3, <1>4, <1>5
<1>8. Range(list) \subseteq Range(new) /\ Range(more) \subseteq Range(new)
  <2>1. \A i \in 1..m : i \in 1..(m + n) /\ new[i] = list[i]
    BY <1>1, <1>3
  <2>2. \A i \in 1..n : m + i \in 1..(m + n) /\ new[m + i] = more[i]
    BY <1>1, <1>3
  <2>3. Range(list) \subseteq Range(new)
    BY <1>1, <1>3, <2>1, ZenonT(30) DEF Range
  <2>4. ASSUME NEW i \in 1..n PROVE more[i] \in Range(new)
    BY <1>3, <2>2, Zenon DEF Range
  <2>5. Range(more) \subseteq Range(new)
    BY <1>1, <2>4, Zenon DEF Range
  <2> QED BY <2>3, <2>5
<1>9. ASSUME NEW p \in kept, BucketID(p) \in span \cup {k} PROVE p \in Range(new)
  <2>1. CASE BucketID(p) \in span
    BY <1>8, <2>1 DEF Gathered
  <2>2. CASE BucketID(p) = k
    BY <1>8, <2>2, KnownInBucket DEF more
  <2> QED BY <1>9, <2>1, <2>2
<1> QED BY <1>3, <1>6, <1>7, <1>9, ZenonT(30) DEF Gathered, new, more

(* Who does not move keeps what it has, whatever happens to the table. *)
LEMMA OthersKeep ==
  ASSUME NEW at, NEW t, NEW r, NEW list, NEW kept, NEW table, NEW rest \in SUBSET kept,
         NEW new, rest \subseteq Known(new), Collected(at, t, r, list, kept, table)
  PROVE  Collected(at, t, r, list, rest, new)
BY Zenon DEF Collected, Gathered

(* The first bucket. *)
LEMMA FirstRead ==
  ASSUME NEW table, TableOK(table), NEW t \in Peers,
         NEW at \in {"down", "sort"},
         at = "sort" => ~Goes(table[BucketID(t)], BucketID(t), 1)
  PROVE  Collected(at, t, 1, table[BucketID(t)], Known(table), table)
<1> DEFINE b == BucketID(t)
           list == table[b]
<1>1. b \in BucketIds /\ ListOK(list, b)
  BY BucketIDInRange DEF TableOK
<1>2. Span(b, 1) = {b}
  BY <1>1, SpanFacts
<1>3. Gathered(list, Known(table), {b})
  BY <1>1, KnownInBucket DEF Gathered, ListOK, Distinct
<1>4. ASSUME at = "sort" PROVE Len(list) >= Count \/ Span(b, 1) = BucketIds
  <2>1. Len(list) \in Nat /\ Count \in Nat
    BY <1>1, IdAssumption, LenProperties DEF ListOK
  <2>2. ~(Len(list) < Count) \/ (~(1 <= b) /\ b + 1 \notin BucketIds)
    BY <1>4 DEF Goes
  <2> HIDE DEF b, list
  <2>3. CASE ~(Len(list) < Count)
    BY <2>1, <2>3
  <2>4. CASE ~(1 <= b) /\ b + 1 \notin BucketIds
    BY <1>1, <2>4, SpanFacts
  <2> QED BY <2>2, <2>3, <2>4, ZenonT(30)
<1>5. at # "up"
  OBVIOUS
<1>6. 1 >= 1
  OBVIOUS
<1> HIDE DEF list
<1>7. Collected(at, t, 1, list, Known(table), table)
  BY <1>2, <1>3, <1>4, <1>5, <1>6, Zenon DEF Collected
<1> QED BY <1>7 DEF list

(* The lower one of two more. *)
LEMMA DownRead ==
  ASSUME NEW table, TableOK(table), NEW t \in Peers, NEW r \in Nat, NEW list, NEW kept,
         Collected("down", t, r, list, kept, table)
  PROVE  Collected("up", t, r,
                   list \o IF r <= BucketID(t) THEN table[BucketID(t) - r] ELSE <<>>,
                   kept, table)
<1> DEFINE b == BucketID(t)
           new == list \o IF r <= b THEN table[b - r] ELSE <<>>
<1>1. b \in BucketIds /\ r >= 1 /\ kept \subseteq Known(table)
  BY BucketIDInRange DEF Collected
<1>2. Gathered(list, kept, Span(b, r))
  <2>1. "down" # "up"
    OBVIOUS
  <2> QED BY <2>1 DEF Collected
<1> HIDE DEF b
<1>3. Gathered(new, kept, HalfSpan(b, r))
  <2>1. CASE r <= b
    <3>1. /\ b - r \in BucketIds /\ b - r \notin Span(b, r)
          /\ HalfSpan(b, r) = Span(b, r) \cup {b - r}
      BY <1>1, <2>1, SpanFacts
    <3> QED BY <1>1, <1>2, <2>1, <3>1, BucketAppended
  <2>2. CASE ~(r <= b)
    <3>1. HalfSpan(b, r) = Span(b, r)
      BY <1>1, <2>2, SpanFacts
    <3>2. new = list
      BY <1>2, <2>2 DEF Gathered
    <3> QED BY <1>2, <3>1, <3>2, Zenon
  <2> QED BY <2>1, <2>2
<1>4. "up" # "sort"
  OBVIOUS
<1> HIDE DEF new
<1> QED BY <1>1, <1>3, <1>4 DEF Collected, b, new

(* The upper one, and the condition of the loop. *)
LEMMA UpRead ==
  ASSUME NEW table, TableOK(table), NEW t \in Peers, NEW r \in Nat, NEW list, NEW kept,
         Collected("up", t, r, list, kept, table),
         NEW new, new = list \o IF BucketID(t) + r \in BucketIds
                                  THEN table[BucketID(t) + r] ELSE <<>>,
         NEW at \in {"down", "sort"},
         at = "sort" => ~Goes(new, BucketID(t), r + 1)
  PROVE  Collected(at, t, r + 1, new, kept, table)
<1> DEFINE b == BucketID(t)
<1>1. b \in BucketIds /\ r >= 1 /\ kept \subseteq Known(table)
  BY BucketIDInRange DEF Collected
<1>2. Gathered(list, kept, HalfSpan(b, r))
  BY DEF Collected
<1>3. new = list \o IF b + r \in BucketIds THEN table[b + r] ELSE <<>>
  OBVIOUS
<1>4. at = "sort" => ~Goes(new, b, r + 1)
  OBVIOUS
<1> HIDE DEF b
<1>5. Gathered(new, kept, Span(b, r + 1))
  <2>1. CASE b + r \in BucketIds
    <3>1. /\ b + r \notin HalfSpan(b, r)
          /\ Span(b, r + 1) = HalfSpan(b, r) \cup {b + r}
      BY <1>1, <2>1, SpanFacts
    <3>2. new = list \o table[b + r]
      BY <1>3, <2>1, Zenon
    <3>3. Gathered(list \o table[b + r], kept, HalfSpan(b, r) \cup {b + r})
      BY <1>1, <1>2, <2>1, <3>1, BucketAppended, Zenon
    <3> QED BY <3>1, <3>2, <3>3, ZenonT(30)
  <2>2. CASE b + r \notin BucketIds
    <3>1. Span(b, r + 1) = HalfSpan(b, r)
      BY <1>1, <2>2, SpanFacts
    <3>2. new = list
      BY <1>2, <1>3, <2>2 DEF Gathered
    <3> QED BY <1>2, <3>1, <3>2, ZenonT(30)
  <2> QED BY <2>1, <2>2
<1>6. ASSUME at = "sort" PROVE Len(new) >= Count \/ Span(b, r + 1) = BucketIds
  <2>1. Len(new) \in Nat /\ Count \in Nat
    BY <1>5, IdAssumption, LenProperties DEF Gathered
  <2>2. ~(Len(new) < Count) \/ (~(r + 1 <= b) /\ b + (r + 1) \notin BucketIds)
    BY <1>4, <1>6 DEF Goes
  <2>3. CASE ~(Len(new) < Count)
    BY <2>1, <2>3
  <2>4. CASE ~(r + 1 <= b) /\ b + (r + 1) \notin BucketIds
    <3>1. r + 1 \in Nat /\ r + 1 >= 1
      BY <1>1
    <3> QED BY <1>1, <2>4, <3>1, SpanFacts
  <2> QED BY <2>2, <2>3, <2>4, Zenon
<1>7. at # "up" /\ r + 1 >= 1
  BY <1>1
<1> QED BY <1>1, <1>5, <1>6, <1>7 DEF Collected, b

(* What a step of others does for a reader: what stayed in the table until *)
(* now and is still there.                                                 *)
ReadersMarked ==
  \A g \in Handlers : Reading(g) =>
    stable'[g] \subseteq stable[g] /\ stable'[g] \subseteq Known(buckets')

LEMMA TableMarks ==
  ASSUME ReadInv, UNCHANGED tableVars \/ \E table : SetTable(table)
  PROVE  ReadersMarked /\ stable' \in [Handlers -> SUBSET Peers]
<1>1. CASE UNCHANGED tableVars
  <2>1. UNCHANGED <<buckets, stable>>
    BY <1>1 DEF tableVars
  <2>2. \A g \in Handlers : Reading(g) => stable[g] \subseteq Known(buckets)
    BY Zenon DEF ReadInv, Collected
  <2>3. Known(buckets') = Known(buckets)
    BY <2>1
  <2> QED BY <2>1, <2>2, <2>3 DEF ReadersMarked, ReadInv, ReadTypes
<1>2. ASSUME NEW table, SetTable(table)
      PROVE  ReadersMarked /\ stable' \in [Handlers -> SUBSET Peers]
  <2>1. /\ buckets' = table
        /\ stable' = [h \in Handlers |-> IF Reading(h) THEN stable[h] \cap Known(table)
                                         ELSE stable[h]]
    BY <1>2, ZenonT(30) DEF SetTable
  <2> QED BY <2>1 DEF ReadersMarked, ReadInv, ReadTypes
<1> QED BY <1>1, <1>2

(* A step in which no reader moves keeps the invariant. *)
LEMMA NoReaderMoves ==
  ASSUME ReadInv, ReadTypes', ReadersMarked,
         \A g \in Handlers : Reading(g)' =>
           /\ pc'[g] = pc[g] /\ target'[g] = target[g]
           /\ radius'[g] = radius[g] /\ found'[g] = found[g]
  PROVE  ReadInv'
<1> SUFFICES ASSUME NEW g \in Handlers, Reading(g)'
             PROVE  Collected(pc'[g], target'[g], radius'[g], found'[g], stable'[g], buckets')
  BY Zenon DEF ReadInv
<1>1. /\ pc'[g] = pc[g] /\ target'[g] = target[g]
      /\ radius'[g] = radius[g] /\ found'[g] = found[g]
  OBVIOUS
<1>2. Reading(g)
  BY <1>1, ZenonT(30) DEF Reading
<1>3. Collected(pc[g], target[g], radius[g], found[g], stable[g], buckets)
  BY <1>2, ZenonT(30) DEF ReadInv
<1>4. stable'[g] \in SUBSET stable[g] /\ stable'[g] \subseteq Known(buckets')
  BY <1>2, Zenon DEF ReadersMarked
<1> QED BY <1>1, <1>3, <1>4, OthersKeep

(* A step of one reader keeps it, if that reader has what it should. *)
LEMMA OneReaderMoves ==
  ASSUME ReadInv, ReadTypes', NEW h \in Handlers, UNCHANGED buckets,
         \A g \in Handlers \ {h} :
           /\ pc'[g] = pc[g] /\ target'[g] = target[g]
           /\ radius'[g] = radius[g] /\ found'[g] = found[g] /\ stable'[g] = stable[g],
         Collected(pc'[h], target'[h], radius'[h], found'[h], stable'[h], buckets)
         \/ ~(Reading(h)')
  PROVE  ReadInv'
<1> SUFFICES ASSUME NEW g \in Handlers, Reading(g)'
             PROVE  Collected(pc'[g], target'[g], radius'[g], found'[g], stable'[g], buckets')
  BY Zenon DEF ReadInv
<1>1. CASE g = h
  BY <1>1, ZenonT(30)
<1>2. CASE g # h
  <2>1. Reading(g)
    BY <1>2, Zenon DEF Reading
  <2> QED BY <1>2, <2>1, Zenon DEF ReadInv
<1> QED BY <1>1, <1>2, Zenon

(* Nobody reads at the start. *)
LEMMA InitReadInv == Init => ReadInv
<1> SUFFICES ASSUME Init PROVE ReadInv
  OBVIOUS
<1>1. ReadTypes
  BY EmptySeq DEF Init, ReadTypes, PC, Peers
<1>2. \A h \in Handlers : ~Reading(h)
  BY DEF Init, Reading
<1> QED BY <1>1, <1>2 DEF ReadInv

(* The steps of FindClosestPeers. *)
LEMMA ReadersStep ==
  ASSUME DiscoveryInv, ReadInv, NEW h \in Handlers,
         ReadFirst(h) \/ ReadDown(h) \/ ReadUp(h) \/ Respond(h)
  PROVE  ReadInv'
<1> DEFINE t == target[h]
           b == BucketID(t)
           r == radius[h]
           list == found[h]
<1>1. /\ t \in Peers /\ Len(t.Id) = Len(Self.Id) /\ r \in Nat /\ list \in Seq(Peers)
      /\ b \in BucketIds /\ Self \in Peers /\ TableOK(buckets)
  BY IdAssumption, BucketIDInRange, ZenonT(30) DEF ReadInv, ReadTypes, DiscoveryInv, Peers
<1>2. Known(buckets) \subseteq Peers /\ \A k \in BucketIds : buckets[k] \in Seq(Peers)
  BY <1>1, KnownInBucket, ZenonT(30) DEF TableOK
<1> USE DEF ReadTypes, PC, Step
<1>3. CASE ReadFirst(h)
  <2> DEFINE more == Goes(buckets[b], b, 1)
             at == IF more THEN "down" ELSE "sort"
  <2>1. /\ pc[h] = "first" /\ pc' = [pc EXCEPT ![h] = at]
        /\ found' = [found EXCEPT ![h] = buckets[b]]
        /\ radius' = [radius EXCEPT ![h] = 1]
        /\ stable' = [stable EXCEPT ![h] = Known(buckets)]
        /\ UNCHANGED <<buckets, target>>
    BY <1>1, <1>3, Zenon DEF ReadFirst
  <2>2. at \in {"down", "sort"} /\ (at = "sort" => ~Goes(buckets[b], b, 1))
    OBVIOUS
  <2> HIDE DEF at
  <2>3. Collected(at, t, 1, buckets[b], Known(buckets), buckets)
    BY <1>1, <2>2, FirstRead, ZenonT(30)
  <2>4. ReadTypes'
    BY <1>1, <1>2, <2>1, <2>2, ZenonT(30) DEF ReadInv
  <2>5. /\ pc'[h] = at /\ found'[h] = buckets[b] /\ radius'[h] = 1
        /\ stable'[h] = Known(buckets) /\ target'[h] = t
    BY <2>1 DEF ReadInv
  <2>6. \A g \in Handlers \ {h} :
          /\ pc'[g] = pc[g] /\ target'[g] = target[g]
          /\ radius'[g] = radius[g] /\ found'[g] = found[g] /\ stable'[g] = stable[g]
    BY <2>1, Zenon DEF ReadInv
  <2> QED BY <2>1, <2>3, <2>4, <2>5, <2>6, OneReaderMoves
<1>4. CASE ReadDown(h)
  <2> DEFINE new == list \o IF r <= b THEN buckets[b - r] ELSE <<>>
  <2>1. /\ pc[h] = "down" /\ pc' = [pc EXCEPT ![h] = "up"]
        /\ found' = [found EXCEPT ![h] = new]
        /\ UNCHANGED <<buckets, stable, target, radius>>
    BY <1>4 DEF ReadDown, tableVars
  <2>2. Collected("down", t, r, list, stable[h], buckets)
    BY <2>1 DEF ReadInv, Reading
  <2>3. Collected("up", t, r, new, stable[h], buckets)
    BY <1>1, <2>2, DownRead, ZenonT(30)
  <2> HIDE DEF new
  <2>4. new \in Seq(Peers)
    BY <2>3, Zenon DEF Collected, Gathered
  <2>5. ReadTypes'
    BY <2>1, <2>4 DEF ReadInv
  <2>6. pc'[h] = "up" /\ found'[h] = new /\ radius'[h] = r /\ target'[h] = t
    BY <2>1 DEF ReadInv
  <2>7. \A g \in Handlers \ {h} :
          /\ pc'[g] = pc[g] /\ target'[g] = target[g]
          /\ radius'[g] = radius[g] /\ found'[g] = found[g] /\ stable'[g] = stable[g]
    BY <2>1 DEF ReadInv
  <2> QED BY <2>1, <2>3, <2>5, <2>6, <2>7, OneReaderMoves, ZenonT(30)
<1>5. CASE ReadUp(h)
  <2> DEFINE new == list \o IF b + r \in BucketIds THEN buckets[b + r] ELSE <<>>
             at == IF Goes(new, b, r + 1) THEN "down" ELSE "sort"
  <2>1. /\ pc[h] = "up" /\ pc' = [pc EXCEPT ![h] = at]
        /\ found' = [found EXCEPT ![h] = new]
        /\ radius' = [radius EXCEPT ![h] = r + 1]
        /\ UNCHANGED <<buckets, stable, target>>
    BY <1>5 DEF ReadUp, tableVars
  <2>2. Collected("up", t, r, list, stable[h], buckets)
    BY <2>1, ZenonT(30) DEF ReadInv, Reading
  <2>3. at \in {"down", "sort"} /\ (at = "sort" => ~Goes(new, b, r + 1))
    BY ZenonT(30)
  <2> HIDE DEF at
  <2>4. new = list \o IF b + r \in BucketIds THEN buckets[b + r] ELSE <<>>
    OBVIOUS
  <2> HIDE DEF new
  <2>5. Collected(at, t, r + 1, new, stable[h], buckets)
    BY <1>1, <2>2, <2>3, <2>4, UpRead, Zenon
  <2>6. new \in Seq(Peers) /\ r + 1 \in Nat
    <3>1. new \in Seq(Peers)
      BY <2>5, ZenonT(30) DEF Collected, Gathered
    <3>2. r \in Nat
      BY <1>1, Zenon
    <3> HIDE DEF r
    <3>3. r + 1 \in Nat
      BY <3>2
    <3> QED BY <3>1, <3>3, Zenon
  <2>7. ReadTypes'
    BY <2>1, <2>3, <2>6 DEF ReadInv
  <2>8. pc'[h] = at /\ found'[h] = new /\ radius'[h] = r + 1 /\ target'[h] = t
    BY <2>1 DEF ReadInv
  <2>9. \A g \in Handlers \ {h} :
          /\ pc'[g] = pc[g] /\ target'[g] = target[g]
          /\ radius'[g] = radius[g] /\ found'[g] = found[g] /\ stable'[g] = stable[g]
    BY <2>1 DEF ReadInv
  <2> QED BY <2>1, <2>5, <2>7, <2>8, <2>9, OneReaderMoves, ZenonT(30)
<1>6. CASE Respond(h)
  <2>1. /\ pc' = [pc EXCEPT ![h] = "idle"] /\ found' = [found EXCEPT ![h] = <<>>]
        /\ radius' = [radius EXCEPT ![h] = 0] /\ target' = [target EXCEPT ![h] = Self]
        /\ stable' = [stable EXCEPT ![h] = {}] /\ UNCHANGED buckets
    BY <1>6 DEF Respond
  <2>2. ReadTypes'
    BY <1>1, <2>1 DEF ReadInv
  <2>3. ~(Reading(h)')
    BY <2>1 DEF Reading, ReadInv
  <2>4. \A g \in Handlers \ {h} :
          /\ pc'[g] = pc[g] /\ target'[g] = target[g]
          /\ radius'[g] = radius[g] /\ found'[g] = found[g] /\ stable'[g] = stable[g]
    BY <2>1 DEF ReadInv
  <2> QED BY <2>1, <2>2, <2>3, <2>4, OneReaderMoves, Zenon
<1> QED BY <1>3, <1>4, <1>5, <1>6

(* The other steps of the plugin, in which no reader moves. *)
LEMMA OthersStep ==
  ASSUME ReadInv,
         \/ \E c \in Contacts : Connect(c) \/ Disconnect(c) \/ DisconnectRemove(c)
         \/ \E h \in Handlers :
              \/ \E c \in Contacts : Dispatch(h, c)
              \/ \E kind \in Kinds : Receive(h, kind)
              \/ FindNode(h) \/ Learn(h) \/ LearnEnd(h)
         \/ UNCHANGED vars
  PROVE  ReadInv'
<1> DEFINE Moved(h) == /\ \E at \in {"idle", "update", "find", "learn", "first"} :
                            pc' = [pc EXCEPT ![h] = at]
                       /\ \/ UNCHANGED target
                          \/ \E p \in Peers : target' = [target EXCEPT ![h] = p]
                       /\ UNCHANGED <<radius, found>>
                       /\ UNCHANGED tableVars \/ \E table : SetTable(table)
<1>1. ASSUME UNCHANGED <<pc, target, radius, found>>,
             UNCHANGED tableVars \/ \E table : SetTable(table)
      PROVE  ReadInv'
  <2>1. ReadersMarked /\ stable' \in [Handlers -> SUBSET Peers]
    BY <1>1, TableMarks
  <2>2. ReadTypes'
    BY <1>1, <2>1 DEF ReadInv, ReadTypes
  <2> QED BY <1>1, <2>1, <2>2, NoReaderMoves, ZenonT(30)
<1>2. ASSUME NEW h \in Handlers, Moved(h) PROVE ReadInv'
  <2>1. ReadersMarked /\ stable' \in [Handlers -> SUBSET Peers]
    BY <1>2, TableMarks
  <2>2. PICK at \in {"idle", "update", "find", "learn", "first"} :
          pc' = [pc EXCEPT ![h] = at]
    BY <1>2, Zenon
  <2>3. target' \in [Handlers -> Peers] /\ \A g \in Handlers \ {h} : target'[g] = target[g]
    BY <1>2, Zenon DEF ReadInv, ReadTypes
  <2>4. ReadTypes'
    BY <1>2, <2>1, <2>2, <2>3, Zenon DEF ReadInv, ReadTypes, PC
  <2>5. ~(Reading(h)') /\ \A g \in Handlers \ {h} : pc'[g] = pc[g]
    BY <2>2 DEF Reading, ReadInv, ReadTypes
  <2>6. ASSUME NEW g \in Handlers, Reading(g)'
        PROVE  /\ pc'[g] = pc[g] /\ target'[g] = target[g]
               /\ radius'[g] = radius[g] /\ found'[g] = found[g]
    <3>1. g \in Handlers \ {h}
      BY <2>5, <2>6
    <3> QED BY <1>2, <2>3, <2>5, <3>1, ZenonT(30)
  <2> QED BY <2>1, <2>4, <2>6, NoReaderMoves, Zenon
<1>3. ASSUME NEW c \in Contacts, Connect(c) \/ Disconnect(c) \/ DisconnectRemove(c)
      PROVE  ReadInv'
  <2>1. UNCHANGED <<pc, target, radius, found>>
    BY <1>3 DEF Connect, Disconnect, DisconnectRemove, taskVars
  <2>2. UNCHANGED tableVars \/ \E table : SetTable(table)
    BY <1>3, Zenon DEF Connect, Disconnect, DisconnectRemove
  <2> QED BY <1>1, <2>1, <2>2, ZenonT(30)
<1>4. ASSUME NEW h \in Handlers, NEW c \in Contacts, Dispatch(h, c) PROVE ReadInv'
  <2>1. pc' = [pc EXCEPT ![h] = "update"] /\ UNCHANGED <<tableVars, target, radius, found>>
    BY <1>4, Zenon DEF Dispatch, Step
  <2> QED BY <1>2, <2>1, Zenon
<1>5. ASSUME NEW h \in Handlers, NEW kind \in Kinds, Receive(h, kind) PROVE ReadInv'
  <2> DEFINE at == CASE kind \in Disabled \cup {"ping"} -> "idle"
                     [] kind = "pong" -> "find"
                     [] OTHER -> "first"
  <2>1. at \in {"idle", "find", "first"}
    BY DEF Kinds
  <2>2. pc' = [pc EXCEPT ![h] = at] /\ UNCHANGED <<radius, found>>
    BY <1>5, Zenon DEF Receive, Step
  <2>3. \E p \in Peers : target' = [target EXCEPT ![h] = p]
    <3>1. PICK p \in IF kind = "lookup" THEN Targets ELSE {Self} :
            target' = [target EXCEPT ![h] = p]
      BY <1>5, Zenon DEF Receive
    <3>2. p \in Peers
      BY DEF Peers
    <3> QED BY <3>1, <3>2, Zenon
  <2>4. \E table : SetTable(table)
    BY <1>5, Zenon DEF Receive, Enter
  <2> HIDE DEF at
  <2> QED BY <1>2, <2>1, <2>2, <2>3, <2>4, Zenon
<1>6. ASSUME NEW h \in Handlers, FindNode(h) PROVE ReadInv'
  <2>1. pc' = [pc EXCEPT ![h] = "learn"] /\ UNCHANGED <<tableVars, target, radius, found>>
    BY <1>6, Zenon DEF FindNode, Step
  <2> QED BY <1>2, <2>1, Zenon
<1>7. ASSUME NEW h \in Handlers, Learn(h) PROVE ReadInv'
  <2>1. PICK p \in todo[h] :
          /\ pc' = [pc EXCEPT ![h] = "learn"]
          /\ Enter(p)
          /\ UNCHANGED <<target, radius, found>>
    BY <1>7, Zenon DEF Learn, Step
  <2>2. \E table : SetTable(table)
    BY <2>1, Zenon DEF Enter
  <2> QED BY <1>2, <2>1, <2>2, Zenon
<1>8. ASSUME NEW h \in Handlers, LearnEnd(h) PROVE ReadInv'
  <2>1. pc' = [pc EXCEPT ![h] = "idle"] /\ UNCHANGED <<tableVars, target, radius, found>>
    BY <1>8, Zenon DEF LearnEnd, Step
  <2> QED BY <1>2, <2>1, Zenon
<1>9. ASSUME UNCHANGED vars PROVE ReadInv'
  <2>1. UNCHANGED <<pc, target, radius, found>> /\ UNCHANGED tableVars
    BY <1>9 DEF vars, tableVars
  <2> QED BY <1>1, <2>1
<1> QED BY <1>3, <1>4, <1>5, <1>6, <1>7, <1>8, <1>9, ZenonT(30)

LEMMA StepReadInv == DiscoveryInv /\ ReadInv /\ [Next]_vars => ReadInv'
BY OthersStep, ReadersStep, Zenon DEF Next

(* What the readers have is enough for the answer. *)
LEMMA CollectedIsEnough == DiscoveryInv /\ ReadInv => ClosestOfStable
<1> SUFFICES ASSUME DiscoveryInv, ReadInv, NEW h \in Handlers, pc[h] = "sort"
             PROVE  LET b == BucketID(target[h])
                        searched == {k \in BucketIds : k < b + radius[h] /\ b < k + radius[h]}
                        distance(p) == XorID(p, target[h])
                        answer == Response(h)
                    IN  /\ \A i, j \in DOMAIN answer : Equals(answer[i], answer[j]) => i = j
                        /\ \A p \in stable[h] : ~Holds(answer, p) =>
                             /\ Len(answer) = Count
                             /\ BucketID(p) \in searched =>
                                  \A q \in Range(answer) : Less(distance(q), distance(p))
  BY ZenonT(30) DEF ClosestOfStable
<1> DEFINE t == target[h]
           list == found[h]
           span == Span(BucketID(t), radius[h])
           answer == Response(h)
<1>1. /\ Gathered(list, stable[h], span) /\ stable[h] \subseteq Known(buckets)
      /\ Len(list) >= Count \/ span = BucketIds
  <2>1. Collected("sort", t, radius[h], list, stable[h], buckets)
    BY ZenonT(30) DEF ReadInv, Reading
  <2> QED BY <2>1, ZenonT(30) DEF Collected
<1>2. list \in Seq(Peers) /\ Distinct(list) /\ t \in Peers /\ Count \in Nat
  BY <1>1, IdAssumption, ZenonT(30) DEF Gathered, ReadInv, ReadTypes
<1>3. /\ Distinct(answer)
      /\ Len(list) >= Count => Len(answer) = Count
      /\ \A p \in Range(list) : ~Holds(answer, p) =>
           /\ Len(answer) = Count
           /\ \A q \in Range(answer) : Less(XorID(q, t), XorID(p, t))
  BY <1>2, ClosestFacts, Zenon DEF Response
<1>4. span = {k \in BucketIds : k < BucketID(t) + radius[h] /\ BucketID(t) < k + radius[h]}
  BY Zenon DEF Span
<1> HIDE DEF answer, span, list
<1>5. ASSUME NEW p \in stable[h], ~Holds(answer, p)
      PROVE  /\ Len(answer) = Count
             /\ BucketID(p) \in span =>
                  \A q \in Range(answer) : Less(XorID(q, t), XorID(p, t))
  <2>1. BucketID(p) \in BucketIds
    BY <1>1, KnownInBucket, BucketIDInRange, Zenon DEF DiscoveryInv
  <2>2. CASE BucketID(p) \in span
    <3>1. p \in Range(list)
      BY <1>1, <2>2 DEF Gathered
    <3> QED BY <1>3, <1>5, <3>1, Zenon
  <2>3. CASE BucketID(p) \notin span
    BY <1>1, <1>3, <2>1, <2>3, Zenon
  <2> QED BY <2>2, <2>3, Zenon
<1> QED BY <1>3, <1>4, <1>5, Zenon DEF Distinct, answer

(***************************************************************************)
(* While sessions come and go, FindClosestPeers names nobody twice, and    *)
(* leaves out a peer that was in the table all the time only for Count     *)
(* others, nearer ones if its bucket was searched.  For identities of any  *)
(* length, any BucketSize and Count, and any number of goroutines.         *)
(***************************************************************************)
THEOREM ClosestAnswered == Spec => []ClosestOfStable
<1>1. Init => DiscoveryInv /\ ReadInv
  BY InitDiscoveryInv, InitReadInv
<1>2. DiscoveryInv /\ ReadInv /\ [Next]_vars => (DiscoveryInv /\ ReadInv)'
  BY StepDiscoveryInv, StepReadInv
<1> QED BY <1>1, <1>2, CollectedIsEnough, PTL DEF Spec
=============================================================================
