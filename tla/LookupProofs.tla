---------------------------- MODULE LookupProofs ----------------------------
(***************************************************************************)
(* Proofs about module Lookup, for any peers, answers, alpha and number of *)
(* disjoint paths.                                                         *)
(***************************************************************************)
EXTENDS Lookup, FiniteSetTheorems, WellFoundedInduction, TLAPS

(***************************************************************************)
(* What the proofs use of sequences.  The SMT solver knows it by itself,   *)
(* but finds it more easily when it is stated.                             *)
(***************************************************************************)
LEMMA LenProperties ==
  ASSUME NEW S, NEW s \in Seq(S)
  PROVE  Len(s) \in Nat /\ DOMAIN s = 1..Len(s) /\ s \in [1..Len(s) -> S]
OBVIOUS

LEMMA ElementOfSeq ==
  ASSUME NEW S, NEW s \in Seq(S), NEW i \in 1..Len(s)
  PROVE  s[i] \in S
OBVIOUS

LEMMA SeqDef ==
  ASSUME NEW S, NEW n \in Nat, NEW f \in [1..n -> S]
  PROVE  f \in Seq(S) /\ Len(f) = n
OBVIOUS

LEMMA EmptySeq ==
  ASSUME NEW S
  PROVE  /\ <<>> \in Seq(S) /\ Len(<<>>) = 0
         /\ \A s \in Seq(S) : s # <<>> => Len(s) \in Nat \ {0}
OBVIOUS

LEMMA ConcatProperties ==
  ASSUME NEW S, NEW s \in Seq(S), NEW t \in Seq(S)
  PROVE  /\ s \o t \in Seq(S) /\ Len(s \o t) = Len(s) + Len(t)
         /\ \A i \in 1..(Len(s) + Len(t)) :
              (s \o t)[i] = IF i <= Len(s) THEN s[i] ELSE t[i - Len(s)]
OBVIOUS

LEMMA RangeConcatenation ==
  ASSUME NEW S, NEW s \in Seq(S), NEW t \in Seq(S)
  PROVE  Range(s \o t) = Range(s) \cup Range(t)
<1> DEFINE u == s \o t
<1>1. PICK m, n \in Nat : /\ m = Len(s) /\ n = Len(t)
                          /\ DOMAIN s = 1..m /\ DOMAIN t = 1..n
  BY LenProperties
<1>2. /\ DOMAIN u = 1..(m + n)
      /\ \A i \in 1..(m + n) : u[i] = IF i <= m THEN s[i] ELSE t[i - m]
  BY <1>1
<1> HIDE DEF u
<1>3. \A i \in 1..(m + n) : \/ i \in 1..m /\ u[i] = s[i]
                            \/ i - m \in 1..n /\ u[i] = t[i - m]
  BY <1>2
<1>4. \A i \in 1..m : i \in 1..(m + n) /\ u[i] = s[i]
  BY <1>2
<1>5. \A i \in 1..n : m + i \in 1..(m + n) /\ u[m + i] = t[i]
  BY <1>2
<1>6. Range(u) \subseteq Range(s) \cup Range(t)
  BY <1>1, <1>2, <1>3, Zenon DEF Range
<1>7. \A i \in 1..(m + n) : u[i] \in Range(u)
  BY <1>2 DEF Range
<1>8. \A x \in Range(s) : x \in Range(u)
  BY <1>1, <1>4, <1>7 DEF Range
<1>9. \A x \in Range(t) : x \in Range(u)
  BY <1>1, <1>5, <1>7 DEF Range
<1> QED BY <1>6, <1>8, <1>9 DEF u

(***************************************************************************)
(* A set of numbers has a least element.  It replaces induction: a claim   *)
(* about all numbers that fails has a least one for which it fails.        *)
(***************************************************************************)
LEMMA LeastNat ==
  ASSUME NEW T \in SUBSET Nat, T # {}
  PROVE  \E m \in T : \A k \in T : m <= k
<1> DEFINE R == OpToRel(<, Nat)
<1>1. \A a, b \in Nat : <<a, b>> \in R <=> a < b
  BY DEF OpToRel
<1>2. IsWellFoundedOn(R, Nat)
  BY NatLessThanWellFounded, Zenon
<1> HIDE DEF R
<1>3. PICK m \in T : \A k \in T : ~ (<<k, m>> \in R)
  BY <1>2, WFMin, Zenon
<1>4. \A k \in T : ~ (k < m)
  BY <1>1, <1>3, Zenon
<1>5. \A k \in T : m <= k
  BY <1>4
<1> QED
  BY <1>5

\* The numbers up to n.
LEMMA UpTo ==
  ASSUME NEW n \in Nat
  PROVE  IsFiniteSet(1..n) /\ Cardinality(1..n) = n
BY FS_Interval

\* f lists S in increasing order.
Lists(f, S) ==
  /\ f \in Bijection(1..Cardinality(S), S)
  /\ \A i, j \in 1..Cardinality(S) : i < j => f[i] < f[j]

\* A list of S without its greatest element is a list of S with one more.
LEMMA ListsOneMore ==
  ASSUME NEW m \in Nat, NEW S \in SUBSET (1..m), m \in S, NEW f, Lists(f, S \ {m})
  PROVE  \E g : Lists(g, S)
<1> DEFINE T == S \ {m}
           c == Cardinality(T)
           g == [k \in 1..(c + 1) |-> IF k = c + 1 THEN m ELSE f[k]]
<1>1. IsFiniteSet(S)
  <2>1. IsFiniteSet(1..m)
    BY UpTo
  <2> QED
    BY <2>1, FS_Subset, Zenon
<1>2. c \in Nat /\ Cardinality(S) = c + 1
  <2>1. IsFiniteSet(T) /\ Cardinality(T) = Cardinality(S) - 1
    BY <1>1, FS_RemoveElement
  <2>2. Cardinality(T) \in Nat /\ Cardinality(S) \in Nat
    BY <1>1, <2>1, FS_CardinalityType
  <2> QED
    BY <2>1, <2>2
<1>3. /\ f \in [1..c -> T]
      /\ \A i, j \in 1..c : f[i] = f[j] => i = j
      /\ \A t \in T : \E i \in 1..c : f[i] = t
      /\ \A i, j \in 1..c : i < j => f[i] < f[j]
  BY Zenon DEF Lists, Bijection, Injection, Surjection, IsInjective
<1> HIDE DEF c
<1>4. \A k \in 1..(c + 1) : k = c + 1 \/ k \in 1..c
  BY <1>2
<1>5. \A k \in 1..c : f[k] \in Nat /\ f[k] < m /\ f[k] \in S
  <2>1. \A t \in T : t \in Nat /\ t < m /\ t \in S
    OBVIOUS
  <2> QED
    BY <1>3, <2>1, Zenon
<1>6. g \in [1..(c + 1) -> S]
  BY <1>3, <1>4, <1>5
<1>7. \A k \in 1..c : g[k] = f[k] /\ g[c + 1] = m
  BY <1>2
<1>8. g[c + 1] = m
  BY <1>2
<1> HIDE DEF g
<1>9. ASSUME NEW i \in 1..(c + 1), NEW j \in 1..(c + 1), i < j
      PROVE  g[i] < g[j]
  <2>1. i \in 1..c /\ g[i] = f[i]
    BY <1>2, <1>7, <1>9
  <2>2. CASE j = c + 1
    BY <1>5, <1>8, <2>1, <2>2
  <2>3. CASE j \in 1..c
    BY <1>3, <1>7, <1>9, <2>1, <2>3
  <2> QED
    BY <1>4, <2>2, <2>3
<1>10. \A i, j \in 1..(c + 1) : g[i] = g[j] => i = j
  <2>1. \A k \in 1..(c + 1) : k \in Int /\ g[k] \in Int
    <3>1. \A x \in S : x \in Int
      OBVIOUS
    <3>2. \A k \in 1..(c + 1) : k \in Int
      BY <1>2
    <3> QED
      BY <1>6, <3>1, <3>2, Zenon
  <2>2. \A i, j \in 1..(c + 1) : i < j => g[i] < g[j]
    BY <1>9, Zenon
  <2> QED
    BY <2>1, <2>2
<1>11. \A t \in S : \E i \in 1..(c + 1) : g[i] = t
  <2> SUFFICES ASSUME NEW t \in S PROVE \E i \in 1..(c + 1) : g[i] = t
    OBVIOUS
  <2>1. CASE t = m
    BY <1>2, <1>8, <2>1
  <2>2. CASE t # m
    <3>1. PICK i \in 1..c : f[i] = t
      BY <1>3, <2>2
    <3>2. i \in 1..(c + 1) /\ g[i] = t
      BY <1>2, <1>7, <3>1
    <3> QED
      BY <3>2
  <2> QED
    BY <2>1, <2>2
<1>12. g \in Bijection(1..(c + 1), S)
  BY <1>6, <1>10, <1>11 DEF Bijection, Injection, Surjection, IsInjective
<1>13. Lists(g, S)
  BY <1>2, <1>9, <1>12 DEF Lists
<1> QED
  BY <1>13

\* Every set of numbers below a bound can be listed in increasing order.
LEMMA ListExists ==
  ASSUME NEW n \in Nat, NEW S \in SUBSET (1..n)
  PROVE  \E f : Lists(f, S)
<1> DEFINE Fails == {k \in Nat : \E U \in SUBSET (1..k) : ~ \E f : Lists(f, U)}
<1> SUFFICES Fails = {}
  BY Zenon
<1> SUFFICES ASSUME Fails # {} PROVE FALSE
  OBVIOUS
<1>1. PICK m \in Fails : \A k \in Fails : m <= k
  <2>1. Fails \in SUBSET Nat
    OBVIOUS
  <2> HIDE DEF Fails
  <2> QED
    BY <2>1, LeastNat
<1>2. m \in Nat
  OBVIOUS
<1>3. PICK U \in SUBSET (1..m) : ~ \E f : Lists(f, U)
  OBVIOUS
<1>4. m # 0
  <2> SUFFICES ASSUME m = 0 PROVE FALSE
    OBVIOUS
  <2> DEFINE none == [x \in {} |-> x]
  <2>1. U = {}
    OBVIOUS
  <2>2. Cardinality(U) = 0
    BY <2>1, FS_EmptySet
  <2>3. 1..Cardinality(U) = {}
    BY <2>2
  <2>4. none \in Bijection(1..Cardinality(U), U)
    BY <2>1, <2>3 DEF Bijection, Injection, Surjection, IsInjective
  <2>5. Lists(none, U)
    BY <2>3, <2>4 DEF Lists
  <2> QED
    BY <1>3, <2>5
<1>5. m - 1 \in Nat /\ m - 1 \notin Fails
  BY <1>1, <1>2, <1>4
<1>6. \A V \in SUBSET (1..(m - 1)) : \E f : Lists(f, V)
  BY <1>5
<1>7. CASE m \notin U
  <2>1. U \in SUBSET (1..(m - 1))
    BY <1>2, <1>7
  <2> QED
    BY <1>3, <1>6, <2>1, Zenon
<1>8. CASE m \in U
  <2>1. U \ {m} \in SUBSET (1..(m - 1))
    BY <1>2, <1>8
  <2>2. PICK f : Lists(f, U \ {m})
    BY <1>6, <2>1, Zenon
  <2> HIDE DEF Fails
  <2>3. \E g : Lists(g, U)
    BY <1>2, <1>8, <2>2, ListsOneMore
  <2> QED
    BY <1>3, <2>3
<1> QED
  BY <1>7, <1>8

\* InOrder lists its argument.
LEMMA InOrderLists ==
  ASSUME NEW n \in Nat, NEW S \in SUBSET (1..n)
  PROVE  InOrder(S) \in Bijection(1..Cardinality(S), S)
<1>1. PICK f : Lists(f, S)
  BY ListExists
<1>2. \E g \in Bijection(1..Cardinality(S), S) :
        \A i, j \in 1..Cardinality(S) : i < j => g[i] < g[j]
  BY <1>1 DEF Lists
<1> QED
  BY <1>2, Zenon DEF InOrder

-----------------------------------------------------------------------------
(* What the loops over a list keep.                                        *)

LEMMA KeptFacts ==
  ASSUME NEW S, NEW list \in Seq(S), NEW places \in SUBSET DOMAIN list,
         \A i, j \in places : list[i] = list[j] => i = j
  PROVE  /\ Kept(list, places) \in Seq(S)
         /\ IsInjective(Kept(list, places))
         /\ Range(Kept(list, places)) = {list[i] : i \in places}
<1> DEFINE c == Cardinality(places)
           f == InOrder(places)
           kept == [k \in 1..c |-> list[f[k]]]
<1>1. Len(list) \in Nat /\ DOMAIN list = 1..Len(list)
  BY LenProperties
<1>2. c \in Nat
  <2>1. IsFiniteSet(1..Len(list))
    BY <1>1, UpTo
  <2>2. IsFiniteSet(places)
    BY <1>1, <2>1, FS_Subset
  <2> QED
    BY <2>2, FS_CardinalityType
<1>3. f \in Bijection(1..c, places)
  BY <1>1, InOrderLists, Zenon
<1> HIDE DEF c, f
<1>4. /\ f \in [1..c -> places]
      /\ \A i, j \in 1..c : f[i] = f[j] => i = j
      /\ \A t \in places : \E i \in 1..c : f[i] = t
  BY <1>3 DEF Bijection, Injection, Surjection, IsInjective
<1>5. \A i \in places : list[i] \in S
  BY <1>1, ElementOfSeq
<1>6. kept \in [1..c -> S]
  BY <1>4, <1>5
<1>7. kept \in Seq(S)
  BY <1>2, <1>6, SeqDef
<1>8. IsInjective(kept)
  BY <1>4 DEF IsInjective
<1>9. Range(kept) = {list[i] : i \in places}
  BY <1>4 DEF Range
<1> QED
  BY <1>7, <1>8, <1>9 DEF Kept, c, f

\* lookups[i%disjointPaths]: a lookup starts with distinct peers of Start,
\* and no two lookups with the same.
LEMMA ShareFacts ==
  /\ \A l \in Lookups : /\ Share(l) \in Seq(Peers) /\ IsInjective(Share(l))
                        /\ Range(Share(l)) \subseteq Range(Start)
  /\ \A l, k \in Lookups : l # k => Range(Share(l)) \cap Range(Share(k)) = {}
<1> DEFINE Mine(l) == {i \in DOMAIN Start : (i - 1) % DisjointPaths = l - 1}
<1>1. Start \in Seq(Peers) /\ \A i, j \in DOMAIN Start : Start[i] = Start[j] => i = j
  BY StartAssumption DEF IsInjective
<1>2. \A l \in Lookups : Mine(l) \in SUBSET DOMAIN Start
  OBVIOUS
<1>3. \A l, k \in Lookups : l # k => Mine(l) \cap Mine(k) = {}
  BY DEF Lookups
<1>4. \A l : Share(l) = Kept(Start, Mine(l))
  BY DEF Share
<1> HIDE DEF Mine
<1>5. \A l \in Lookups :
        /\ Share(l) \in Seq(Peers) /\ IsInjective(Share(l))
        /\ Range(Share(l)) = {Start[i] : i \in Mine(l)}
  BY <1>1, <1>2, <1>4, KeptFacts
<1>6. \A l \in Lookups : Range(Share(l)) \subseteq Range(Start)
  BY <1>2, <1>5 DEF Range
<1>7. ASSUME NEW l \in Lookups, NEW k \in Lookups, l # k
      PROVE  Range(Share(l)) \cap Range(Share(k)) = {}
  BY <1>1, <1>2, <1>3, <1>5, <1>7
<1> QED
  BY <1>5, <1>6, <1>7

\* visited.LoadOrStore: the new peers are those of the answer that were not
\* seen, each once.
LEMMA NewPeersFacts ==
  ASSUME NEW seen, NEW answer \in Seq(Peers)
  PROVE  /\ NewPeers(seen, answer) \in Seq(Peers)
         /\ IsInjective(NewPeers(seen, answer))
         /\ Range(NewPeers(seen, answer)) = Range(answer) \ seen
<1> DEFINE new == {i \in DOMAIN answer : /\ answer[i] \notin seen
                                        /\ \A j \in 1..(i - 1) : answer[j] # answer[i]}
<1>1. Len(answer) \in Nat /\ DOMAIN answer = 1..Len(answer)
  BY LenProperties
<1>2. new \in SUBSET DOMAIN answer
  OBVIOUS
<1>3. \A i, j \in new : answer[i] = answer[j] => i = j
  BY <1>1
<1>4. \A i \in new : answer[i] \notin seen
  OBVIOUS
<1>5. NewPeers(seen, answer) = Kept(answer, new)
  BY DEF NewPeers
<1> HIDE DEF new
<1>6. /\ Kept(answer, new) \in Seq(Peers)
      /\ IsInjective(Kept(answer, new))
      /\ Range(Kept(answer, new)) = {answer[i] : i \in new}
  BY <1>2, <1>3, KeptFacts
<1>7. ASSUME NEW i \in DOMAIN answer, answer[i] \notin seen
      PROVE  \E k \in new : answer[k] = answer[i]
  <2> DEFINE same == {k \in DOMAIN answer : answer[k] = answer[i]}
  <2>1. same \in SUBSET Nat /\ i \in same
    BY <1>1
  <2>2. PICK k \in same : \A j \in same : k <= j
    <3> HIDE DEF same
    <3> QED
      BY <2>1, LeastNat
  <2>3. \A j \in 1..(k - 1) : answer[j] # answer[k]
    BY <1>1, <2>2
  <2>4. k \in new
    BY <1>7, <2>3 DEF new
  <2> QED
    BY <2>4
<1>8. {answer[i] : i \in new} = Range(answer) \ seen
  BY <1>2, <1>4, <1>7, Zenon DEF Range
<1> QED
  BY <1>5, <1>6, <1>8

-----------------------------------------------------------------------------
(* Sending out queries.                                                    *)

\* The front of a list without repetitions has none either, and as many
\* elements as it is long.
LEMMA FrontFacts ==
  ASSUME NEW S, NEW list \in Seq(S), IsInjective(list), NEW n \in 0..Len(list)
  PROVE  LET front == SubSeq(list, 1, n) IN
         /\ front \in Seq(S) /\ Len(front) = n /\ IsInjective(front)
         /\ Range(front) \subseteq Range(list)
         /\ \A i \in 1..n : front[i] = list[i]
<1> DEFINE front == SubSeq(list, 1, n)
<1>1. Len(list) \in Nat /\ DOMAIN list = 1..Len(list)
  BY LenProperties
<1>2. front \in Seq(S) /\ Len(front) = n /\ DOMAIN front = 1..n
      /\ \A i \in 1..n : front[i] = list[i]
  BY <1>1
<1> HIDE DEF front
<1>3. IsInjective(front)
  BY <1>1, <1>2 DEF IsInjective
<1>4. Range(front) \subseteq Range(list)
  BY <1>1, <1>2 DEF Range
<1> QED
  BY <1>2, <1>3, <1>4 DEF front

\* A query just sent names its lookup and its peer.
LEMMA NewQueryFacts ==
  /\ \A l, p : NewQuery(l, p).lookup = l /\ NewQuery(l, p).peer = p
  /\ \A l \in Lookups, p \in Peers : NewQuery(l, p) \in Query
BY StartAssumption DEF NewQuery, Query

\* The queries for the peers of a list without repetitions.
LEMMA QueriesFor ==
  ASSUME NEW l, NEW list \in Seq(Peers), IsInjective(list)
  PROVE  LET new == {NewQuery(l, p) : p \in Range(list)} IN
         IsFiniteSet(new) /\ Cardinality(new) = Len(list)
<1> DEFINE new == {NewQuery(l, p) : p \in Range(list)}
           f == [i \in 1..Len(list) |-> NewQuery(l, list[i])]
<1>1. Len(list) \in Nat /\ DOMAIN list = 1..Len(list)
  BY LenProperties
<1>2. \A p, q : NewQuery(l, p) = NewQuery(l, q) => p = q
  BY DEF NewQuery
<1>3. f \in [1..Len(list) -> new]
  BY <1>1 DEF Range
<1>4. \A i, j \in 1..Len(list) : f[i] = f[j] => i = j
  BY <1>1, <1>2 DEF IsInjective
<1>5. \A q \in new : \E i \in 1..Len(list) : f[i] = q
  BY <1>1 DEF Range
<1> HIDE DEF f, new
<1>6. f \in Bijection(1..Len(list), new)
  BY <1>3, <1>4, <1>5 DEF Bijection, Injection, Surjection, IsInjective
<1>7. ExistsBijection(1..Len(list), new)
  BY <1>6 DEF ExistsBijection
<1>8. IsFiniteSet(1..Len(list)) /\ Cardinality(1..Len(list)) = Len(list)
  BY <1>1, UpTo
<1>9. IsFiniteSet(new) /\ Cardinality(new) = Len(list)
  BY <1>7, <1>8, FS_Bijection
<1> QED
  BY <1>9 DEF new

\* How often a peer occurs in a list without repetitions.
LEMMA OccursOnce ==
  ASSUME NEW list \in Seq(Peers), IsInjective(list), NEW p
  PROVE  Cardinality({i \in DOMAIN list : list[i] = p}) = IF p \in Range(list) THEN 1 ELSE 0
<1>1. CASE p \in Range(list)
  <2>1. PICK i \in DOMAIN list : list[i] = p
    BY <1>1 DEF Range
  <2>2. {k \in DOMAIN list : list[k] = p} = {i}
    BY <2>1 DEF IsInjective
  <2> QED
    BY <1>1, <2>2, FS_Singleton, Zenon
<1>2. CASE p \notin Range(list)
  <2>1. {i \in DOMAIN list : list[i] = p} = {}
    BY <1>2 DEF Range
  <2> QED
    BY <1>2, <2>1, FS_EmptySet, Zenon
<1> QED
  BY <1>1, <1>2

\* Ask sends queries to the peers of next, the front of the list.
Asks(next, l, running, others, list) ==
  /\ Range(next) \subseteq Range(list)
  /\ SubSeq(list, 1, Len(next)) = next
  /\ IsFiniteSet({NewQuery(l, p) : p \in Range(next)})
  /\ Cardinality({NewQuery(l, p) : p \in Range(next)}) = Len(next)
  /\ running + Len(next) \in 0..Alpha
  /\ pending' = [pending EXCEPT ![l] = running + Len(next)]
  /\ queue' = [queue EXCEPT ![l] = <<>>]
  /\ queries' = others \cup {NewQuery(l, p) : p \in Range(next)}
  /\ asked' = [p \in Peers |-> asked[p] + IF p \in Range(next) THEN 1 ELSE 0]

\* Ask sends at most as many queries as alpha leaves room for, each to
\* another peer of the list.
LEMMA AskFacts ==
  ASSUME TypeOK, NEW l \in Lookups, NEW running \in 0..Alpha, NEW others,
         NEW list \in Seq(Peers), IsInjective(list), Ask(l, running, others, list)
  PROVE  \E next \in Seq(Peers) : Asks(next, l, running, others, list)
<1> DEFINE n == IF Len(list) < Alpha - running THEN Len(list) ELSE Alpha - running
           next == SubSeq(list, 1, n)
<1>1. Len(list) \in Nat
  BY LenProperties
<1>2. n \in 0..Len(list) /\ running + n \in 0..Alpha
  BY <1>1, StartAssumption
<1>3. /\ pending' = [pending EXCEPT ![l] = running + Len(next)]
      /\ queue' = [queue EXCEPT ![l] = <<>>]
      /\ queries' = others \cup {NewQuery(l, p) : p \in Range(next)}
      /\ asked' = [p \in Peers |-> asked[p] + Cardinality({i \in DOMAIN next : next[i] = p})]
  BY DEF Ask
<1> HIDE DEF n
<1>4. /\ next \in Seq(Peers) /\ Len(next) = n /\ IsInjective(next)
      /\ Range(next) \subseteq Range(list)
  BY <1>2, FrontFacts
<1>5. SubSeq(list, 1, Len(next)) = next
  BY <1>4
<1> HIDE DEF next
<1>6. \A p \in Peers : Cardinality({i \in DOMAIN next : next[i] = p})
                         = IF p \in Range(next) THEN 1 ELSE 0
  BY <1>4, OccursOnce
<1>7. asked' = [p \in Peers |-> asked[p] + IF p \in Range(next) THEN 1 ELSE 0]
  BY <1>3, <1>6
<1>8. /\ IsFiniteSet({NewQuery(l, p) : p \in Range(next)})
      /\ Cardinality({NewQuery(l, p) : p \in Range(next)}) = Len(next)
  BY <1>4, QueriesFor, Zenon
<1>9. Asks(next, l, running, others, list)
  BY <1>2, <1>3, <1>4, <1>5, <1>7, <1>8 DEF Asks
<1> QED
  BY <1>4, <1>9

-----------------------------------------------------------------------------
(***************************************************************************)
(* The invariant.                                                          *)
(*                                                                         *)
(* FindNode: the counter of the WaitGroup is what was added without the    *)
(* lookups that are done.  wait.Add comes after the start of the goroutine *)
(* and may be one behind what was started, but never when Wait is called.  *)
(***************************************************************************)
DoneLookups == {l \in Lookups : lpc[l] = "done"}

MainInv ==
  /\ pc = "spawn" => spawned = added /\ added < Cardinality(Lookups)
  /\ pc = "add" => spawned = added + 1 /\ spawned <= Cardinality(Lookups)
  /\ pc \in {"wait", "sort", "done"} => spawned = added /\ added = Cardinality(Lookups)
  /\ \A l \in Lookups : l > spawned => lpc[l] = "none"
  /\ pc # "panic" => counter + Cardinality(DoneLookups) = added
  /\ pc \in {"sort", "done"} => counter = 0

\* The lookup inside performLookup holds the mutex.
MutexInv ==
  \A l \in Lookups : lpc[l] \in {"start", "loop"} <=> mutex = l

\* A peer that was asked is in visited, and nobody was asked that is still
\* in the queue of a lookup that has not begun.
AskedInv ==
  /\ \A p \in Peers : asked[p] <= 1 /\ (asked[p] = 1 => p \in visited)
  /\ Range(Start) \subseteq visited
  /\ \A l \in Lookups :
       IF lpc[l] \in {"none", "lock", "start"}
         THEN queue[l] = Share(l) /\ \A p \in Range(Share(l)) : asked[p] = 0
         ELSE queue[l] = <<>>

\* The queries belong to the lookup in its loop, which counts them, and
\* went to different peers.
QueryInv ==
  /\ IsFiniteSet(queries)
  /\ \A q \in queries : lpc[q.lookup] = "loop" /\ asked[q.peer] = 1
  /\ \A q, r \in queries : q.peer = r.peer => q = r
  /\ \A l \in Lookups :
       pending[l] = IF lpc[l] = "loop" THEN Cardinality(queries) ELSE 0

\* What was visited is among the results of FindNode or of the lookup in
\* its loop.
ResultInv ==
  /\ \A l \in Lookups : lpc[l] = "loop" => visited = Range(results) \cup Range(found[l])
  /\ (\A l \in Lookups : lpc[l] # "loop") => visited = Range(results)
  /\ pc = "done" => \/ returned = Range(results)
                    \/ returned \subseteq Range(results) /\ Len(results) > BucketSize

LookupInv == TypeOK /\ MainInv /\ MutexInv /\ AskedInv /\ QueryInv /\ ResultInv

\* Lookups are numbered from 1.
LEMMA LookupsFacts ==
  /\ IsFiniteSet(Lookups) /\ Cardinality(Lookups) \in Nat
  /\ Lookups = 1..Cardinality(Lookups)
<1> DEFINE n == IF Len(Start) < DisjointPaths THEN Len(Start) ELSE DisjointPaths
<1>1. n \in Nat
  BY StartAssumption, LenProperties
<1>2. Lookups = 1..n
  BY DEF Lookups
<1> HIDE DEF n
<1>3. IsFiniteSet(1..n) /\ Cardinality(1..n) = n
  BY <1>1, UpTo
<1> QED
  BY <1>1, <1>2, <1>3

LEMMA DoneLookupsFinite ==
  IsFiniteSet(DoneLookups) /\ Cardinality(DoneLookups) \in Nat
<1>1. DoneLookups \in SUBSET Lookups
  BY DEF DoneLookups
<1>2. IsFiniteSet(DoneLookups)
  BY <1>1, LookupsFacts, FS_Subset
<1> QED
  BY <1>2, FS_CardinalityType

\* Nothing has begun.
LEMMA InitLookupInv == Init => LookupInv
<1> SUFFICES ASSUME Init PROVE LookupInv
  OBVIOUS
<1>1. TypeOK
  <2>1. \A l \in Lookups : Share(l) \in Seq(Peers)
    BY ShareFacts
  <2>2. Range(Start) \subseteq Peers
    BY StartAssumption DEF Range
  <2>3. 0 \in 0..Alpha /\ <<>> \in Seq(Peers)
    BY StartAssumption, EmptySeq
  <2> QED
    BY <2>1, <2>2, <2>3, StartAssumption DEF Init, TypeOK
<1>2. MainInv
  <2>1. DoneLookups = {}
    BY DEF Init, DoneLookups
  <2>2. Cardinality(DoneLookups) = 0
    BY <2>1, FS_EmptySet
  <2>3. Start = <<>> => Lookups = {}
    BY StartAssumption DEF Lookups
  <2>4. Start # <<>> => 1 \in Lookups
    <3>1. Start # <<>> => Len(Start) >= 1
      BY StartAssumption, EmptySeq, LenProperties
    <3> QED
      BY <3>1, StartAssumption, LenProperties DEF Lookups
  <2>5. Start = <<>> => Cardinality(Lookups) = 0
    BY <2>3, FS_EmptySet
  <2>6. Start # <<>> => 0 < Cardinality(Lookups)
    BY <2>4, LookupsFacts
  <2> QED
    BY <2>2, <2>5, <2>6, LookupsFacts DEF Init, MainInv
<1>3. MutexInv
  BY LookupsFacts DEF Init, MutexInv
<1>4. AskedInv
  <2>1. \A l \in Lookups : Range(Share(l)) \subseteq Peers
    BY ShareFacts, StartAssumption DEF Range
  <2> QED
    BY <2>1 DEF Init, AskedInv
<1>5. QueryInv
  BY FS_EmptySet DEF Init, QueryInv
<1>6. ResultInv
  BY DEF Init, ResultInv
<1> QED
  BY <1>1, <1>2, <1>3, <1>4, <1>5, <1>6 DEF LookupInv

-----------------------------------------------------------------------------
(* Steps of FindNode.                                                      *)

\* go func starts the next lookup.
LEMMA SpawnKeeps == LookupInv /\ Spawn => LookupInv'
<1> SUFFICES ASSUME LookupInv, Spawn PROVE LookupInv'
  OBVIOUS
<1> DEFINE l == spawned + 1
<1>1. /\ pc = "spawn" /\ spawned = added /\ added < Cardinality(Lookups) /\ spawned \in Nat
      /\ l \in Lookups /\ l \in Nat
  BY LookupsFacts DEF LookupInv, MainInv, TypeOK, Spawn
<1>2. lpc[l] = "none"
  BY <1>1 DEF LookupInv, MainInv
<1>3. /\ lpc' = [lpc EXCEPT ![l] = "lock"] /\ spawned' = l /\ pc' = "add"
      /\ UNCHANGED <<added, counter, returned, mutex, pending, queue, found, visited,
                     results, queries, asked>>
  BY DEF Spawn
<1> HIDE DEF l
<1>4. lpc'[l] = "lock" /\ \A k \in Lookups : k # l => lpc'[k] = lpc[k]
  BY <1>1, <1>3 DEF LookupInv, TypeOK
<1>5. TypeOK'
  BY <1>1, <1>3 DEF LookupInv, TypeOK
<1>6. MainInv'
  <2>1. DoneLookups' = DoneLookups
    BY <1>1, <1>2, <1>4, Zenon DEF DoneLookups
  <2>2. \A k \in Lookups : k > l => lpc'[k] = "none"
    <3> SUFFICES ASSUME NEW k \in Lookups, k > l PROVE lpc'[k] = "none"
      OBVIOUS
    <3>1. k \in Nat /\ k > spawned /\ k # l
      BY <1>1, LookupsFacts DEF l
    <3> QED
      BY <1>4, <3>1 DEF LookupInv, MainInv
  <2>3. l = added + 1 /\ l <= Cardinality(Lookups)
    BY <1>1, LookupsFacts DEF l
  <2> QED
    BY <1>1, <1>3, <2>1, <2>2, <2>3 DEF LookupInv, MainInv
<1>7. MutexInv'
  BY <1>2, <1>3, <1>4 DEF LookupInv, MutexInv
<1>8. AskedInv'
  BY <1>2, <1>3, <1>4 DEF LookupInv, AskedInv
<1>9. QueryInv'
  <2>1. \A q \in queries : q.lookup \in Lookups
    BY DEF LookupInv, TypeOK, Query
  <2> QED
    BY <1>2, <1>3, <1>4, <2>1 DEF LookupInv, QueryInv
<1>10. ResultInv'
  BY <1>1, <1>2, <1>3, <1>4 DEF LookupInv, ResultInv
<1> QED
  BY <1>5, <1>6, <1>7, <1>8, <1>9, <1>10 DEF LookupInv

\* wait.Add(1)
LEMMA AddKeeps == LookupInv /\ Add => LookupInv'
<1> SUFFICES ASSUME LookupInv, Add PROVE LookupInv'
  OBVIOUS
<1>1. /\ pc = "add" /\ added' = added + 1 /\ counter' = counter + 1
      /\ pc' = IF added' = Cardinality(Lookups) THEN "wait" ELSE "spawn"
      /\ UNCHANGED <<spawned, returned, mutex, lpc, pending, queue, found, visited,
                     results, queries, asked>>
  BY DEF Add, searchVars
<1>2. TypeOK'
  BY <1>1 DEF LookupInv, TypeOK
<1>3. MainInv'
  <2>1. DoneLookups' = DoneLookups
    BY <1>1 DEF DoneLookups
  <2>2. /\ added \in Nat /\ counter \in Nat /\ spawned = added + 1
        /\ spawned <= Cardinality(Lookups)
        /\ counter + Cardinality(DoneLookups) = added
    BY <1>1 DEF LookupInv, MainInv, TypeOK
  <2>3. counter' + Cardinality(DoneLookups') = added'
    <3>1. PICK c \in Nat : c = Cardinality(DoneLookups) /\ c = Cardinality(DoneLookups')
      BY <2>1, DoneLookupsFinite
    <3>2. added' = added + 1 /\ counter' = counter + 1
      BY <1>1
    <3>3. counter + c = added
      BY <2>2, <3>1
    <3>4. counter' + c = added'
      BY <2>2, <3>2, <3>3
    <3> QED
      BY <3>1, <3>4
  <2>4. added' = Cardinality(Lookups) \/ added' < Cardinality(Lookups)
    BY <1>1, <2>2, LookupsFacts
  <2> QED
    BY <1>1, <2>2, <2>3, <2>4 DEF LookupInv, MainInv
<1>4. MutexInv' /\ AskedInv' /\ QueryInv' /\ ResultInv'
  BY <1>1 DEF LookupInv, MutexInv, AskedInv, QueryInv, ResultInv
<1> QED
  BY <1>2, <1>3, <1>4 DEF LookupInv

\* wait.Wait() returns.
LEMMA WaitKeeps == LookupInv /\ Wait => LookupInv'
<1> SUFFICES ASSUME LookupInv, Wait PROVE LookupInv'
  OBVIOUS
<1>1. /\ pc = "wait" /\ counter = 0 /\ pc' = "sort"
      /\ UNCHANGED <<spawned, added, counter, returned, mutex, lpc, pending, queue, found,
                     visited, results, queries, asked>>
  BY DEF Wait, searchVars
<1>2. TypeOK'
  BY <1>1 DEF LookupInv, TypeOK
<1>3. MainInv'
  BY <1>1, Zenon DEF LookupInv, MainInv, DoneLookups
<1>4. MutexInv' /\ AskedInv' /\ QueryInv' /\ ResultInv'
  BY <1>1 DEF LookupInv, MutexInv, AskedInv, QueryInv, ResultInv
<1> QED
  BY <1>2, <1>3, <1>4 DEF LookupInv

\* sort.Slice, and the cut to dht.BucketSize.
LEMMA ReturnKeeps == LookupInv /\ Return => LookupInv'
<1> SUFFICES ASSUME LookupInv, Return PROVE LookupInv'
  OBVIOUS
<1> DEFINE n == IF Len(results) > BucketSize THEN BucketSize ELSE Len(results)
<1>1. /\ pc = "sort" /\ pc' = "done"
      /\ UNCHANGED <<spawned, added, counter, mutex, lpc, pending, queue, found,
                     visited, results, queries, asked>>
  BY DEF Return, searchVars
<1>2. PICK kept \in kSubset(n, DOMAIN results) : returned' = {results[i] : i \in kept}
  BY DEF Return
<1>3. kept \in SUBSET DOMAIN results /\ Cardinality(kept) = n
  BY DEF kSubset
<1>4. returned' \subseteq Range(results)
  BY <1>2, <1>3 DEF Range
<1>5. Len(results) \in Nat /\ DOMAIN results = 1..Len(results) /\ Range(results) \subseteq Peers
  BY LenProperties DEF LookupInv, TypeOK, Range
<1>6. Len(results) > BucketSize \/ returned' = Range(results)
  <2> SUFFICES ASSUME ~(Len(results) > BucketSize) PROVE returned' = Range(results)
    OBVIOUS
  <2>1. IsFiniteSet(1..Len(results)) /\ Cardinality(1..Len(results)) = Len(results)
    BY <1>5, UpTo
  <2>2. kept = DOMAIN results
    BY <1>3, <1>5, <2>1, FS_Subset
  <2> QED
    BY <1>2, <2>2 DEF Range
<1>7. TypeOK'
  BY <1>1, <1>4, <1>5 DEF LookupInv, TypeOK
<1>8. MainInv'
  BY <1>1, Zenon DEF LookupInv, MainInv, DoneLookups
<1>9. MutexInv' /\ AskedInv' /\ QueryInv'
  BY <1>1 DEF LookupInv, MutexInv, AskedInv, QueryInv
<1>10. ResultInv'
  BY <1>1, <1>4, <1>6 DEF LookupInv, ResultInv
<1> QED
  BY <1>7, <1>8, <1>9, <1>10, Zenon DEF LookupInv

-----------------------------------------------------------------------------
(* Steps of the goroutine of a lookup.                                     *)

\* Once Wait has returned, every lookup is done: the counter is 0 and all were
\* added.
LEMMA AllDone ==
  ASSUME LookupInv, pc \in {"sort", "done"}
  PROVE  \A l \in Lookups : lpc[l] = "done"
<1>1. /\ counter = 0 /\ added = Cardinality(Lookups)
      /\ counter + Cardinality(DoneLookups) = added
  BY DEF LookupInv, MainInv
<1>2. Cardinality(DoneLookups) = Cardinality(Lookups)
  BY <1>1, DoneLookupsFinite
<1>3. DoneLookups \in SUBSET Lookups
  BY DEF DoneLookups
<1>4. DoneLookups = Lookups
  BY <1>2, <1>3, LookupsFacts, FS_Subset
<1> QED
  BY <1>4 DEF DoneLookups

\* A lookup that moves on is one that was started.
LEMMA LStepFacts ==
  ASSUME LookupInv, NEW l \in Lookups, NEW here, NEW there, LStep(l, here, there),
         here # "none"
  PROVE  /\ lpc[l] = here /\ lpc'[l] = there
         /\ \A k \in Lookups : k # l => lpc'[k] = lpc[k]
         /\ l <= spawned
<1>1. /\ lpc[l] = here /\ lpc'[l] = there
      /\ \A k \in Lookups : k # l => lpc'[k] = lpc[k]
  BY DEF LStep, LookupInv, TypeOK
<1>2. l \in Nat /\ spawned \in Nat
  BY LookupsFacts DEF LookupInv, TypeOK
<1>3. ~ (l > spawned)
  BY <1>1 DEF LookupInv, MainInv
<1> QED
  BY <1>1, <1>2, <1>3

\* Moving on, but not to its end, does not matter to FindNode.
LEMMA MainInvKept ==
  ASSUME LookupInv, NEW l \in Lookups, l <= spawned,
         lpc[l] # "done", lpc'[l] # "done",
         \A k \in Lookups : k # l => lpc'[k] = lpc[k],
         UNCHANGED mainVars
  PROVE  MainInv'
<1>1. DoneLookups' = DoneLookups
  BY DEF DoneLookups
<1>2. l \in Nat /\ spawned \in Nat
  BY LookupsFacts DEF LookupInv, TypeOK
<1>3. ASSUME NEW k \in Lookups, k > spawned PROVE lpc'[k] = "none"
  <2>1. k # l
    BY <1>2, <1>3
  <2> QED
    BY <1>3, <2>1 DEF LookupInv, MainInv
<1> QED
  BY <1>1, <1>3 DEF LookupInv, MainInv, mainVars

\* mutex.Lock()
LEMMA LockKeeps ==
  ASSUME LookupInv, NEW l \in Lookups, Lock(l)
  PROVE  LookupInv'
<1>1. /\ LStep(l, "lock", "start") /\ mutex = 0 /\ mutex' = l /\ UNCHANGED mainVars
      /\ UNCHANGED <<pc, spawned, added, counter, returned, pending, queue, found,
                     visited, results, queries, asked>>
  BY DEF Lock, mainVars
<1>2. /\ lpc[l] = "lock" /\ lpc'[l] = "start"
      /\ \A k \in Lookups : k # l => lpc'[k] = lpc[k]
      /\ l <= spawned
  BY <1>1, LStepFacts
<1>3. TypeOK'
  BY <1>1 DEF LookupInv, TypeOK, LStep
<1>4. MainInv'
  BY <1>1, <1>2, MainInvKept
<1>5. MutexInv'
  <2>1. \A k \in Lookups : lpc[k] \notin {"start", "loop"}
    BY <1>1, LookupsFacts DEF LookupInv, MutexInv
  <2> QED
    BY <1>1, <1>2, <2>1 DEF MutexInv
<1>6. AskedInv'
  BY <1>1, <1>2, Zenon DEF LookupInv, AskedInv
<1>7. QueryInv'
  <2>1. \A q \in queries : q.lookup \in Lookups
    BY DEF LookupInv, TypeOK, Query
  <2> QED
    BY <1>1, <1>2, <2>1, Zenon DEF LookupInv, QueryInv
<1>8. ResultInv'
  BY <1>1, <1>2 DEF LookupInv, ResultInv
<1> QED
  BY <1>3, <1>4, <1>5, <1>6, <1>7, <1>8 DEF LookupInv

\* While a lookup is in performLookup, no other has queries out.
LEMMA OnlyMine ==
  ASSUME LookupInv, NEW l \in Lookups, lpc[l] \in {"start", "loop"}
  PROVE  /\ \A k \in Lookups : k # l => lpc[k] \notin {"start", "loop"}
         /\ \A q \in queries : q.lookup = l
         /\ lpc[l] = "start" => queries = {}
<1>1. mutex = l
  BY DEF LookupInv, MutexInv
<1>2. \A k \in Lookups : k # l => lpc[k] \notin {"start", "loop"}
  BY <1>1 DEF LookupInv, MutexInv
<1>3. \A q \in queries : q.lookup \in Lookups /\ lpc[q.lookup] = "loop"
  BY DEF LookupInv, TypeOK, Query, QueryInv
<1> QED
  BY <1>2, <1>3

\* mutex.Unlock() after performLookup returned.
LEMMA UnlockKeeps ==
  ASSUME LookupInv, NEW l \in Lookups, Unlock(l)
  PROVE  LookupInv'
<1>1. /\ LStep(l, "loop", "unlock") /\ pending[l] = 0 /\ UNCHANGED mainVars
      /\ results' = results \o found[l] /\ mutex' = 0
      /\ UNCHANGED <<pc, spawned, added, counter, returned, pending, queue, found,
                     visited, queries, asked>>
  BY DEF Unlock, mainVars
<1>2. /\ lpc[l] = "loop" /\ lpc'[l] = "unlock"
      /\ \A k \in Lookups : k # l => lpc'[k] = lpc[k]
      /\ l <= spawned
  BY <1>1, LStepFacts
<1>3. \A k \in Lookups : k # l => lpc[k] \notin {"start", "loop"}
  BY <1>2, OnlyMine
<1>4. queries = {}
  <2>1. IsFiniteSet(queries) /\ Cardinality(queries) = 0
    BY <1>1, <1>2 DEF LookupInv, QueryInv
  <2> QED
    BY <2>1, FS_EmptySet
<1>5. results \in Seq(Peers) /\ found[l] \in Seq(Peers)
  BY DEF LookupInv, TypeOK
<1>6. results' \in Seq(Peers) /\ Range(results') = Range(results) \cup Range(found[l])
  <2>1. results' \in Seq(Peers)
    BY <1>1, <1>5
  <2>2. Range(results \o found[l]) = Range(results) \cup Range(found[l])
    BY <1>5, RangeConcatenation
  <2> QED
    BY <1>1, <2>1, <2>2
<1>7. TypeOK'
  BY <1>1, <1>6 DEF LookupInv, TypeOK, LStep
<1>8. MainInv'
  BY <1>1, <1>2, MainInvKept
<1>9. MutexInv'
  BY <1>1, <1>2, <1>3, LookupsFacts DEF MutexInv
<1>10. AskedInv'
  BY <1>1, <1>2 DEF LookupInv, AskedInv
<1>11. QueryInv'
  <2>1. \A k \in Lookups : pending[k] = 0
    BY <1>1, <1>3 DEF LookupInv, QueryInv
  <2>2. \A k \in Lookups : lpc'[k] # "loop"
    BY <1>2, <1>3
  <2> QED
    BY <1>1, <1>4, <2>1, <2>2, FS_EmptySet DEF QueryInv
<1>12. ResultInv'
  <2>1. visited = Range(results) \cup Range(found[l])
    BY <1>2 DEF LookupInv, ResultInv
  <2>2. \A k \in Lookups : lpc'[k] # "loop"
    BY <1>2, <1>3
  <2>3. pc # "done"
    BY <1>2, AllDone
  <2> QED
    BY <1>1, <1>6, <2>1, <2>2, <2>3 DEF ResultInv
<1> QED
  BY <1>7, <1>8, <1>9, <1>10, <1>11, <1>12 DEF LookupInv

\* defer wait.Done()
LEMMA DoneKeeps ==
  ASSUME LookupInv, NEW l \in Lookups, Done(l)
  PROVE  LookupInv'
<1>1. /\ LStep(l, "unlock", "done")
      /\ \/ counter = 0 /\ pc' = "panic" /\ counter' = counter
         \/ counter # 0 /\ counter' = counter - 1 /\ pc' = pc
      /\ UNCHANGED <<spawned, added, returned, mutex, pending, queue, found, visited,
                     results, queries, asked>>
  BY DEF Done
<1>2. /\ lpc[l] = "unlock" /\ lpc'[l] = "done"
      /\ \A k \in Lookups : k # l => lpc'[k] = lpc[k]
      /\ l <= spawned
  BY <1>1, LStepFacts
<1>3. counter' \in Nat /\ counter \in Nat /\ added \in Nat
  BY <1>1 DEF LookupInv, TypeOK
<1>4. TypeOK'
  BY <1>1, <1>3 DEF LookupInv, TypeOK, LStep
<1>5. MainInv'
  <2>1. DoneLookups' = DoneLookups \cup {l} /\ l \notin DoneLookups
    BY <1>2 DEF DoneLookups
  <2>2. PICK c \in Nat : c = Cardinality(DoneLookups)
    BY DoneLookupsFinite
  <2>3. Cardinality(DoneLookups') = c + 1
    BY <2>1, <2>2, DoneLookupsFinite, FS_AddElement, Zenon
  <2>4. \A k \in Lookups : k > spawned => lpc'[k] = "none"
    <3> SUFFICES ASSUME NEW k \in Lookups, k > spawned PROVE lpc'[k] = "none"
      OBVIOUS
    <3>1. l \in Nat /\ spawned \in Nat
      BY LookupsFacts DEF LookupInv, TypeOK
    <3>2. l <= spawned
      BY <1>2, Zenon
    <3>3. k # l
      BY <3>1, <3>2
    <3> QED
      BY <1>2, <3>3 DEF LookupInv, MainInv
  <2>5. CASE pc' = "panic"
    BY <1>1, <2>4, <2>5 DEF MainInv
  <2>6. CASE pc' # "panic"
    <3>1. counter # 0 /\ counter' = counter - 1 /\ pc' = pc /\ pc # "panic"
      BY <1>1, <2>6
    <3>2. counter + c = added
      BY <2>2, <3>1 DEF LookupInv, MainInv
    <3>3. counter' + (c + 1) = added
      BY <1>3, <3>1, <3>2
    <3>4. counter' + Cardinality(DoneLookups') = added
      BY <2>3, <3>3
    <3>5. pc \notin {"sort", "done"}
      BY <3>1 DEF LookupInv, MainInv
    <3> QED
      BY <1>1, <2>4, <3>1, <3>4, <3>5 DEF LookupInv, MainInv
  <2> QED
    BY <2>5, <2>6
<1>6. MutexInv'
  BY <1>1, <1>2, Zenon DEF LookupInv, MutexInv
<1>7. AskedInv'
  BY <1>1, <1>2 DEF LookupInv, AskedInv
<1>8. QueryInv'
  <2>1. \A q \in queries : q.lookup \in Lookups
    BY DEF LookupInv, TypeOK, Query
  <2> QED
    BY <1>1, <1>2, <2>1, Zenon DEF LookupInv, QueryInv
<1>9. ResultInv'
  BY <1>1, <1>2 DEF LookupInv, ResultInv
<1> QED
  BY <1>4, <1>5, <1>6, <1>7, <1>8, <1>9 DEF LookupInv

-----------------------------------------------------------------------------
(* Steps of performLookup that send queries.                               *)

\* What performLookup knows when it sends queries to the front of list while
\* the queries of others are out: nobody in list was asked, all of list is
\* marked as visited, and no lookup that has yet to begin starts with one.
MayAsk(l, running, others, list) ==
  /\ lpc'[l] = "loop" /\ \A k \in Lookups : k # l => lpc'[k] = lpc[k]
  /\ others \in SUBSET queries /\ IsFiniteSet(others) /\ Cardinality(others) = running
  /\ \A p \in Range(list) : asked[p] = 0 /\ p \in visited'
  /\ \A k \in Lookups : k # l /\ lpc[k] \in {"none", "lock"}
                          => Range(list) \cap Range(Share(k)) = {}
  /\ visited \subseteq visited'

\* Queries to peers that were never asked, none of which another lookup will
\* begin with.
LEMMA AskKeeps ==
  ASSUME LookupInv, NEW l \in Lookups, lpc[l] \in {"start", "loop"},
         NEW running \in 0..Alpha, NEW others, NEW list \in Seq(Peers), IsInjective(list),
         MayAsk(l, running, others, list), Ask(l, running, others, list)
  PROVE  /\ AskedInv' /\ QueryInv'
         /\ pending' \in [Lookups -> 0..Alpha] /\ queue' \in [Lookups -> Seq(Peers)]
         /\ queries' \in SUBSET Query /\ asked' \in [Peers -> Nat]
<1>1. TypeOK /\ AskedInv /\ QueryInv
  BY DEF LookupInv
<1>2. PICK next \in Seq(Peers) : Asks(next, l, running, others, list)
  BY <1>1, AskFacts, Zenon
<1> DEFINE new == {NewQuery(l, p) : p \in Range(next)}
<1>3. Range(next) \subseteq Peers /\ \A p \in Range(next) : asked[p] = 0 /\ p \in visited'
  <2>1. Range(next) \subseteq Range(list)
    BY <1>2, Zenon DEF Asks
  <2>2. Range(list) \subseteq Peers
    BY DEF Range
  <2> QED
    BY <2>1, <2>2, Zenon DEF MayAsk
<1>4. \A p \in Peers : asked[p] \in Nat
  BY <1>1 DEF TypeOK
<1>5. /\ \A p \in Range(next) : asked'[p] = 1
      /\ \A p \in Peers \ Range(next) : asked'[p] = asked[p]
  <2>1. asked' = [p \in Peers |-> asked[p] + IF p \in Range(next) THEN 1 ELSE 0]
    BY <1>2, Zenon DEF Asks
  <2>2. \A p \in Peers : asked'[p] = asked[p] + IF p \in Range(next) THEN 1 ELSE 0
    BY <2>1, Zenon
  <2>3. ASSUME NEW p \in Range(next) PROVE asked'[p] = 1
    <3>1. p \in Peers /\ asked[p] = 0
      BY <1>3, Zenon
    <3>2. asked'[p] = 0 + 1
      BY <2>2, <3>1, Zenon
    <3> QED
      BY <3>2
  <2>4. ASSUME NEW p \in Peers \ Range(next) PROVE asked'[p] = asked[p]
    <3>1. asked'[p] = asked[p] + 0
      BY <2>2, Zenon
    <3>2. asked[p] \in Nat
      BY <1>4, Zenon
    <3> QED
      BY <3>1, <3>2
  <2> QED
    BY <2>3, <2>4, Zenon
<1>6. new \in SUBSET Query
  BY <1>3, NewQueryFacts, Zenon
<1>7. \A q \in new : q.lookup = l /\ q.peer \in Range(next)
  BY NewQueryFacts, Zenon
<1>8. \A q, r \in new : q.peer = r.peer => q = r
  <2>1. \A q \in new : q = NewQuery(l, q.peer)
    BY NewQueryFacts, Zenon
  <2> HIDE DEF new
  <2> QED
    BY <2>1, Zenon
<1>9. IsFiniteSet(new) /\ Cardinality(new) = Len(next) /\ queries' = others \cup new
  BY <1>2, Zenon DEF Asks
<1> HIDE DEF new
<1>10. \A q \in others : /\ q \in queries /\ q \in Query /\ q.lookup = l /\ q.peer \in Peers
                         /\ asked[q.peer] = 1 /\ q.peer \notin Range(next)
  <2>1. \A q \in queries : q.lookup = l
    BY OnlyMine, Zenon
  <2>2. \A q \in queries : q \in Query /\ q.peer \in Peers
    BY <1>1 DEF TypeOK, Query
  <2>3. \A q \in queries : asked[q.peer] = 1
    BY <1>1, Zenon DEF QueryInv
  <2>4. \A p \in Range(next) : asked[p] # 1
    BY <1>3
  <2>5. \A q \in others : q \in queries
    BY Zenon DEF MayAsk
  <2> QED
    BY <2>1, <2>2, <2>3, <2>4, <2>5, Zenon
<1>11. lpc'[l] = "loop" /\ \A k \in Lookups : k # l => lpc'[k] = lpc[k]
  BY Zenon DEF MayAsk
<1>12. AskedInv'
  <2>1. ASSUME NEW p \in Peers
        PROVE  asked'[p] <= 1 /\ (asked'[p] = 1 => p \in visited')
    <3>1. CASE p \in Range(next)
      BY <1>3, <1>5, <3>1
    <3>2. CASE p \notin Range(next)
      <4>1. asked'[p] = asked[p]
        BY <1>5, <3>2, Zenon
      <4>2. asked[p] <= 1 /\ (asked[p] = 1 => p \in visited')
        BY <1>1, Zenon DEF AskedInv, MayAsk
      <4> QED
        BY <4>1, <4>2, Zenon
    <3> QED
      BY <3>1, <3>2, Zenon
  <2>2. Range(Start) \subseteq visited'
    BY <1>1, Zenon DEF AskedInv, MayAsk
  <2>3. ASSUME NEW k \in Lookups, lpc'[k] \in {"none", "lock", "start"}
        PROVE  queue'[k] = Share(k) /\ \A p \in Range(Share(k)) : asked'[p] = 0
    <3>1. k # l /\ lpc[k] \in {"none", "lock", "start"}
      BY <1>11, <2>3
    <3>2. lpc[k] # "start"
      BY <3>1, OnlyMine, Zenon
    <3>3. queue'[k] = queue[k]
      <4>1. queue' = [queue EXCEPT ![l] = <<>>] /\ queue \in [Lookups -> Seq(Peers)]
        BY <1>1, <1>2, Zenon DEF TypeOK, Asks
      <4> QED
        BY <3>1, <4>1, Zenon
    <3>4. queue[k] = Share(k) /\ \A p \in Range(Share(k)) : asked[p] = 0
      BY <1>1, <3>1, Zenon DEF AskedInv
    <3>5. Range(next) \cap Range(Share(k)) = {}
      <4>1. Range(list) \cap Range(Share(k)) = {}
        BY <3>1, <3>2, Zenon DEF MayAsk
      <4> QED
        BY <1>2, <4>1, Zenon DEF Asks
    <3>6. Range(Share(k)) \subseteq Peers
      BY ShareFacts DEF Range
    <3> QED
      BY <1>5, <3>3, <3>4, <3>5, <3>6, Zenon
  <2>4. ASSUME NEW k \in Lookups, lpc'[k] \notin {"none", "lock", "start"}
        PROVE  queue'[k] = <<>>
    <3>1. queue' = [queue EXCEPT ![l] = <<>>] /\ queue \in [Lookups -> Seq(Peers)]
      BY <1>1, <1>2, Zenon DEF TypeOK, Asks
    <3>2. k # l => queue[k] = <<>>
      BY <1>1, <1>11, <2>4, Zenon DEF AskedInv
    <3> QED
      BY <3>1, <3>2, Zenon
  <2> QED
    BY <2>1, <2>2, <2>3, <2>4, Zenon DEF AskedInv
<1>13. QueryInv'
  <2>1. IsFiniteSet(queries') /\ Cardinality(queries') = running + Len(next)
    <3>1. others \cap new = {}
      BY <1>7, <1>10, Zenon
    <3>2. IsFiniteSet(others \cap new) /\ Cardinality(others \cap new) = 0
      BY <3>1, FS_EmptySet, Zenon
    <3>3. IsFiniteSet(others) /\ Cardinality(others) = running
      BY Zenon DEF MayAsk
    <3>4. /\ IsFiniteSet(others \cup new)
          /\ Cardinality(others \cup new)
               = Cardinality(others) + Cardinality(new) - Cardinality(others \cap new)
      BY <1>9, <3>3, FS_Union, Zenon
    <3>5. Len(next) \in Nat
      BY LenProperties, Zenon
    <3>6. Cardinality(others \cup new) = running + Len(next)
      BY <1>9, <3>2, <3>3, <3>4, <3>5
    <3> QED
      BY <1>9, <3>4, <3>6, Zenon
  <2>2. \A q \in queries' : lpc'[q.lookup] = "loop" /\ asked'[q.peer] = 1
    <3>1. \A q \in others : asked'[q.peer] = 1
      BY <1>5, <1>10, Zenon
    <3> QED
      BY <1>5, <1>7, <1>9, <1>10, <1>11, <3>1, Zenon
  <2>3. \A q, r \in queries' : q.peer = r.peer => q = r
    <3>1. \A q, r \in others : q.peer = r.peer => q = r
      BY <1>1, <1>10, Zenon DEF QueryInv
    <3> QED
      BY <1>7, <1>8, <1>9, <1>10, <3>1, Zenon
  <2>4. ASSUME NEW k \in Lookups
        PROVE  pending'[k] = IF lpc'[k] = "loop" THEN Cardinality(queries') ELSE 0
    <3>1. /\ pending' = [pending EXCEPT ![l] = running + Len(next)]
          /\ pending \in [Lookups -> 0..Alpha]
      BY <1>1, <1>2, Zenon DEF TypeOK, Asks
    <3>2. CASE k = l
      BY <1>11, <2>1, <3>1, <3>2, Zenon
    <3>3. CASE k # l
      <4>1. pending'[k] = pending[k] /\ lpc'[k] = lpc[k]
        BY <1>11, <3>1, <3>3, Zenon
      <4>2. lpc[k] # "loop"
        BY <3>3, OnlyMine, Zenon
      <4> QED
        BY <1>1, <4>1, <4>2, Zenon DEF QueryInv
    <3> QED
      BY <3>2, <3>3, Zenon
  <2> QED
    BY <2>1, <2>2, <2>3, <2>4, Zenon DEF QueryInv
<1>14. pending' \in [Lookups -> 0..Alpha] /\ queue' \in [Lookups -> Seq(Peers)]
  <2>1. /\ pending' = [pending EXCEPT ![l] = running + Len(next)]
        /\ queue' = [queue EXCEPT ![l] = <<>>]
        /\ running + Len(next) \in 0..Alpha
    BY <1>2, Zenon DEF Asks
  <2>2. pending \in [Lookups -> 0..Alpha] /\ queue \in [Lookups -> Seq(Peers)]
    BY <1>1, Zenon DEF TypeOK
  <2>3. <<>> \in Seq(Peers)
    BY EmptySeq, Zenon
  <2> QED
    BY <2>1, <2>2, <2>3, Zenon
<1>15. queries' \in SUBSET Query
  BY <1>6, <1>9, <1>10, Zenon
<1>16. asked' \in [Peers -> Nat]
  <2>1. asked' = [p \in Peers |-> asked[p] + IF p \in Range(next) THEN 1 ELSE 0]
    BY <1>2, Zenon DEF Asks
  <2>2. \A a \in Nat : a + 0 \in Nat /\ a + 1 \in Nat
    OBVIOUS
  <2>3. \A p \in Peers : asked[p] + (IF p \in Range(next) THEN 1 ELSE 0) \in Nat
    BY <1>4, <2>2, Zenon
  <2> QED
    BY <2>1, <2>3, Zenon
<1> QED
  BY <1>12, <1>13, <1>14, <1>15, <1>16, Zenon

\* performLookup begins with its share of the closest peers.
LEMMA BeginKeeps ==
  ASSUME LookupInv, NEW l \in Lookups, Begin(l)
  PROVE  LookupInv'
<1>1. /\ LStep(l, "start", "loop") /\ UNCHANGED mainVars
      /\ Ask(l, 0, queries, queue[l])
      /\ found' = [found EXCEPT ![l] = SubSeq(queue[l], 1, pending'[l])]
      /\ UNCHANGED <<pc, spawned, added, counter, returned, mutex, visited, results>>
  BY DEF Begin, mainVars
<1>2. /\ lpc[l] = "start" /\ lpc'[l] = "loop"
      /\ \A k \in Lookups : k # l => lpc'[k] = lpc[k]
      /\ l <= spawned
  BY <1>1, LStepFacts
<1>3. /\ queries = {}
      /\ \A k \in Lookups : k # l => lpc[k] \notin {"start", "loop"}
  BY <1>2, OnlyMine, Zenon
<1>4. queue[l] = Share(l) /\ \A p \in Range(Share(l)) : asked[p] = 0
  BY <1>2 DEF LookupInv, AskedInv
<1>5. /\ Share(l) \in Seq(Peers) /\ IsInjective(Share(l))
      /\ Range(Share(l)) \subseteq Range(Start)
      /\ \A k \in Lookups : k # l => Range(Share(l)) \cap Range(Share(k)) = {}
  BY ShareFacts
<1>6. Range(Start) \subseteq visited
  BY DEF LookupInv, AskedInv
<1>7. IsFiniteSet(queries) /\ Cardinality(queries) = 0 /\ 0 \in 0..Alpha
  BY <1>3, FS_EmptySet, StartAssumption
<1>8. TypeOK /\ Ask(l, 0, queries, Share(l))
  BY <1>1, <1>4 DEF LookupInv
<1>9. /\ AskedInv' /\ QueryInv'
      /\ pending' \in [Lookups -> 0..Alpha] /\ queue' \in [Lookups -> Seq(Peers)]
      /\ queries' \in SUBSET Query /\ asked' \in [Peers -> Nat]
  <2>1. \A p \in Range(Share(l)) : asked[p] = 0 /\ p \in visited'
    BY <1>1, <1>4, <1>5, <1>6
  <2>2. lpc[l] \in {"start", "loop"} /\ queries \in SUBSET queries /\ visited \subseteq visited'
    BY <1>1, <1>2
  <2>3. MayAsk(l, 0, queries, Share(l))
    BY <1>2, <1>5, <1>7, <2>1, <2>2, Zenon DEF MayAsk
  <2> QED
    BY <1>5, <1>7, <1>8, <2>2, <2>3, AskKeeps, Zenon
<1>10. PICK next \in Seq(Peers) : Asks(next, l, 0, queries, Share(l))
  BY <1>5, <1>7, <1>8, AskFacts, ZenonT(30)
<1>11. pending'[l] = Len(next) /\ SubSeq(Share(l), 1, Len(next)) = next
  <2>1. pending' = [pending EXCEPT ![l] = 0 + Len(next)] /\ Len(next) \in Nat
    BY <1>10, LenProperties DEF Asks
  <2> QED
    BY <1>8, <1>10, <2>1 DEF Asks, TypeOK
<1>12. found' \in [Lookups -> Seq(Peers)] /\ found'[l] = next
  <2>1. found' = [found EXCEPT ![l] = next]
    BY <1>1, <1>4, <1>11, Zenon
  <2> QED
    BY <1>8, <2>1 DEF TypeOK
<1>13. TypeOK'
  BY <1>1, <1>8, <1>9, <1>12, ZenonT(30) DEF TypeOK, LStep
<1>14. MainInv'
  BY <1>1, <1>2, MainInvKept
<1>15. MutexInv'
  BY <1>1, <1>2 DEF LookupInv, MutexInv
<1>16. ResultInv'
  <2>1. visited = Range(results)
    BY <1>2, <1>3 DEF LookupInv, ResultInv
  <2>2. Range(next) \subseteq visited
    BY <1>5, <1>6, <1>10 DEF Asks
  <2>3. \A k \in Lookups : lpc'[k] = "loop" => k = l
    BY <1>2, <1>3
  <2> QED
    BY <1>1, <1>2, <1>12, <2>1, <2>2, <2>3, ZenonT(30) DEF LookupInv, ResultInv
<1> QED
  BY <1>9, <1>13, <1>14, <1>15, <1>16 DEF LookupInv

\* An answer arrives; its new peers are asked, as far as alpha allows.
LEMMA ExpandKeeps ==
  ASSUME LookupInv, NEW l \in Lookups, Expand(l)
  PROVE  LookupInv'
<1>1. PICK q \in queries :
        /\ LStep(l, "loop", "loop") /\ pending[l] > 0
        /\ visited' = Store(visited, NewPeers(visited, q.answer))
        /\ found' = [found EXCEPT ![l] = @ \o NewPeers(visited, q.answer)]
        /\ Ask(l, pending[l] - 1, queries \ {q}, queue[l] \o NewPeers(visited, q.answer))
        /\ UNCHANGED <<mainVars, mutex, results>>
  BY Zenon DEF Expand
<1> DEFINE new == NewPeers(visited, q.answer)
           others == queries \ {q}
<1>2. /\ lpc[l] = "loop" /\ lpc'[l] = "loop"
      /\ \A k \in Lookups : k # l => lpc'[k] = lpc[k]
      /\ l <= spawned
  BY <1>1, LStepFacts
<1>3. \A k \in Lookups : k # l => lpc[k] \notin {"start", "loop"}
  BY <1>2, OnlyMine
<1>4. q.answer \in Seq(Peers)
  BY StartAssumption DEF LookupInv, TypeOK, Query
<1>5. new \in Seq(Peers) /\ IsInjective(new) /\ Range(new) = Range(q.answer) \ visited
  BY <1>4, NewPeersFacts
<1>6. Range(new) \subseteq Peers
  BY <1>5 DEF Range
<1> HIDE DEF new
<1>7. queue[l] = <<>> /\ TypeOK /\ AskedInv
  BY <1>2 DEF LookupInv, AskedInv
<1>8. visited' = visited \cup Range(new)
  BY <1>1 DEF Store, new
<1>9. Ask(l, pending[l] - 1, others, new)
  <2>1. queue[l] \o new = new
    BY <1>5, <1>7
  <2> QED
    BY <1>1, <2>1, Zenon DEF new
<1>10. /\ IsFiniteSet(others) /\ Cardinality(others) = pending[l] - 1
       /\ pending[l] - 1 \in 0..Alpha
  <2>1. IsFiniteSet(queries) /\ pending[l] = Cardinality(queries)
    BY <1>2 DEF LookupInv, QueryInv
  <2>2. pending[l] \in 0..Alpha /\ pending[l] > 0
    BY <1>1, <1>7 DEF TypeOK
  <2>3. IsFiniteSet(others) /\ Cardinality(others) = pending[l] - 1
    BY <2>1, FS_RemoveElement
  <2> QED
    BY <2>2, <2>3, StartAssumption
<1>11. /\ AskedInv' /\ QueryInv'
       /\ pending' \in [Lookups -> 0..Alpha] /\ queue' \in [Lookups -> Seq(Peers)]
       /\ queries' \in SUBSET Query /\ asked' \in [Peers -> Nat]
  <2>1. \A p \in Range(new) : asked[p] = 0 /\ p \in visited'
    <3>1. \A p \in Peers : asked[p] \in Nat /\ asked[p] <= 1 /\ (asked[p] = 1 => p \in visited)
      BY <1>7 DEF TypeOK, AskedInv
    <3>2. \A p \in Range(new) : asked[p] = 0
      BY <1>5, <1>6, <3>1
    <3> QED
      BY <1>8, <3>2
  <2>2. \A k \in Lookups : Range(new) \cap Range(Share(k)) = {}
    BY <1>5, <1>7, ShareFacts DEF AskedInv
  <2>3. lpc[l] \in {"start", "loop"} /\ others \in SUBSET queries /\ visited \subseteq visited'
    BY <1>2, <1>8
  <2> HIDE DEF others
  <2>4. MayAsk(l, pending[l] - 1, others, new)
    BY <1>2, <1>10, <2>1, <2>2, <2>3, Zenon DEF MayAsk
  <2> QED
    BY <1>5, <1>9, <1>10, <2>3, <2>4, AskKeeps, Zenon
<1>12. found[l] \in Seq(Peers) /\ found'[l] = found[l] \o new
       /\ found' \in [Lookups -> Seq(Peers)]
  <2>1. found' = [found EXCEPT ![l] = found[l] \o new] /\ found[l] \in Seq(Peers)
    BY <1>1, <1>7 DEF new, TypeOK
  <2>2. found[l] \o new \in Seq(Peers)
    BY <1>5, <2>1, ConcatProperties
  <2> QED
    BY <1>7, <2>1, <2>2, Zenon DEF TypeOK
<1>13. TypeOK'
  BY <1>1, <1>6, <1>7, <1>8, <1>11, <1>12, Zenon DEF TypeOK, LStep, mainVars
<1>14. MainInv'
  BY <1>1, <1>2, MainInvKept
<1>15. MutexInv'
  BY <1>1, <1>2, Zenon DEF LookupInv, MutexInv
<1>16. ResultInv'
  <2>1. visited = Range(results) \cup Range(found[l])
    BY <1>2 DEF LookupInv, ResultInv
  <2>2. Range(found'[l]) = Range(found[l]) \cup Range(new)
    BY <1>5, <1>12, RangeConcatenation
  <2>3. \A k \in Lookups : lpc'[k] = "loop" => k = l
    BY <1>2, <1>3
  <2>4. visited' = Range(results') \cup Range(found'[l])
    BY <1>1, <1>8, <2>1, <2>2, Zenon
  <2>5. pc' = pc /\ returned' = returned /\ results' = results
    BY <1>1 DEF mainVars
  <2> QED
    BY <1>2, <2>3, <2>4, <2>5 DEF LookupInv, ResultInv
<1> QED
  BY <1>11, <1>13, <1>14, <1>15, <1>16 DEF LookupInv

-----------------------------------------------------------------------------
(* Steps of a query.                                                       *)

\* The answer of a query, or nothing after a failure, gets to the channel.
LEMMA DeliverKeeps ==
  ASSUME LookupInv, NEW q, NEW answer \in Answers, Deliver(q, answer)
  PROVE  LookupInv'
<1> DEFINE r == [q EXCEPT !.at = "channel", !.answer = answer]
           others == queries \ {q}
<1>1. /\ q \in queries /\ q.at = "peer" /\ queries' = others \cup {r}
      /\ UNCHANGED <<pc, spawned, added, counter, returned, mutex, lpc, pending, queue,
                     found, visited, results, asked>>
  BY DEF Deliver, mainVars
<1>2. q \in Query
  BY <1>1 DEF LookupInv, TypeOK
<1>3. r \in Query /\ r.lookup = q.lookup /\ r.peer = q.peer
  BY <1>2, Zenon DEF Query
<1> HIDE DEF r
<1>4. TypeOK'
  BY <1>1, <1>3 DEF LookupInv, TypeOK
<1>5. MainInv'
  BY <1>1, Zenon DEF LookupInv, MainInv, DoneLookups
<1>6. MutexInv' /\ AskedInv' /\ ResultInv'
  BY <1>1, Zenon DEF LookupInv, MutexInv, AskedInv, ResultInv
<1>7. QueryInv'
  <2>1. \A s \in others : s.peer # q.peer
    BY <1>1, ZenonT(30) DEF LookupInv, QueryInv
  <2>2. r \notin others
    BY <1>3, <2>1
  <2>3. IsFiniteSet(queries') /\ Cardinality(queries') = Cardinality(queries)
    <3>1. IsFiniteSet(queries) /\ Cardinality(queries) \in Nat
      BY FS_CardinalityType DEF LookupInv, QueryInv
    <3>2. IsFiniteSet(others) /\ Cardinality(others) = Cardinality(queries) - 1
      BY <1>1, <3>1, FS_RemoveElement
    <3>3. IsFiniteSet(others \cup {r}) /\ Cardinality(others \cup {r}) = Cardinality(others) + 1
      BY <2>2, <3>2, FS_AddElement
    <3>4. Cardinality(others \cup {r}) = Cardinality(queries)
      BY <3>1, <3>2, <3>3
    <3> QED
      BY <1>1, <3>3, <3>4
  <2>4. \A s \in queries' : lpc'[s.lookup] = "loop" /\ asked'[s.peer] = 1
    BY <1>1, <1>3, ZenonT(30) DEF LookupInv, QueryInv
  <2>5. \A s, t \in queries' : s.peer = t.peer => s = t
    BY <1>1, <1>3, <2>1 DEF LookupInv, QueryInv
  <2>6. \A l \in Lookups :
          pending'[l] = IF lpc'[l] = "loop" THEN Cardinality(queries') ELSE 0
    BY <1>1, <2>3 DEF LookupInv, QueryInv
  <2> QED
    BY <2>3, <2>4, <2>5, <2>6, ZenonT(30) DEF QueryInv
<1> QED
  BY <1>4, <1>5, <1>6, <1>7 DEF LookupInv

-----------------------------------------------------------------------------
(* The theorems.                                                           *)

LEMMA StepLookupInv == LookupInv /\ [Next]_vars => LookupInv'
<1> SUFFICES ASSUME LookupInv, [Next]_vars PROVE LookupInv'
  OBVIOUS
<1>1. CASE FindNode
  BY <1>1, SpawnKeeps, AddKeeps, WaitKeeps, ReturnKeeps DEF FindNode
<1>2. CASE \E l \in Lookups : Goroutine(l)
  BY <1>2, LockKeeps, BeginKeeps, ExpandKeeps, UnlockKeeps, DoneKeeps DEF Goroutine
<1>3. CASE QueryPeer
  <2>1. <<>> \in Answers
    BY StartAssumption
  <2> QED
    BY <1>3, <2>1, DeliverKeeps DEF QueryPeer, Answered, Failed
<1>4. CASE UNCHANGED vars
  <2>1. UNCHANGED <<pc, spawned, added, counter, returned, mutex, lpc, pending, queue,
                    found, visited, results, queries, asked>>
    BY <1>4 DEF vars, mainVars, searchVars
  <2> QED
    BY <2>1, ZenonT(30) DEF LookupInv, TypeOK, MainInv, DoneLookups, MutexInv, AskedInv, QueryInv,
                ResultInv
<1> QED
  BY <1>1, <1>2, <1>3, <1>4 DEF Next

LEMMA LookupInvHolds == Spec => []LookupInv
BY InitLookupInv, StepLookupInv, PTL DEF Spec

(***************************************************************************)
(* FindNode asks a peer once, whichever lookups and answers name it.       *)
(***************************************************************************)
THEOREM PeersAskedOnce == Spec => []AskedOnce
<1>1. LookupInv => AskedOnce
  BY Zenon DEF LookupInv, AskedInv, AskedOnce
<1> QED
  BY <1>1, LookupInvHolds, PTL

(***************************************************************************)
(* At most alpha queries are out at a time, over all lookups together, and *)
(* pending of a lookup is the number of those it waits for.                *)
(***************************************************************************)
THEOREM AlphaQueries == Spec => []QueriesBounded
<1>1. ASSUME LookupInv PROVE QueriesBounded
  <2>1. Alpha \in Nat /\ IsFiniteSet(queries)
    BY <1>1, StartAssumption DEF LookupInv, QueryInv
  <2>2. \A q \in queries : q.lookup \in Lookups /\ lpc[q.lookup] = "loop"
    BY <1>1 DEF LookupInv, TypeOK, Query, QueryInv
  <2>3. \A l \in Lookups : pending[l] \in 0..Alpha
    BY <1>1 DEF LookupInv, TypeOK
  <2>4. Cardinality(queries) <= Alpha
    <3>1. CASE queries = {}
      <4>1. Cardinality(queries) = 0
        BY <3>1, FS_EmptySet
      <4> QED
        BY <2>1, <4>1
    <3>2. CASE queries # {}
      <4>1. PICK q \in queries : TRUE
        BY <3>2
      <4>2. pending[q.lookup] = Cardinality(queries)
        BY <1>1, <2>2 DEF LookupInv, QueryInv
      <4>3. Cardinality(queries) \in 0..Alpha
        BY <2>2, <2>3, <4>2
      <4> QED
        BY <2>1, <4>3
    <3> QED
      BY <3>1, <3>2
  <2>5. ASSUME NEW l \in Lookups
        PROVE  pending[l] = Cardinality({q \in queries : q.lookup = l})
    <3>1. CASE lpc[l] = "loop"
      <4>1. {q \in queries : q.lookup = l} = queries
        BY <1>1, <3>1, OnlyMine
      <4> QED
        BY <1>1, <3>1, <4>1, Zenon DEF LookupInv, QueryInv
    <3>2. CASE lpc[l] # "loop"
      <4>1. {q \in queries : q.lookup = l} = {}
        BY <2>2, <3>2
      <4>2. Cardinality({q \in queries : q.lookup = l}) = 0
        BY <4>1, FS_EmptySet
      <4> QED
        BY <1>1, <3>2, <4>2 DEF LookupInv, QueryInv
    <3> QED
      BY <3>1, <3>2
  <2> QED
    BY <2>4, <2>5 DEF QueriesBounded
<1>2. LookupInv => QueriesBounded
  BY <1>1
<1> QED
  BY <1>2, LookupInvHolds, PTL

(***************************************************************************)
(* FindNode sorts and returns only after every lookup has handed over its  *)
(* results, although wait.Add(1) comes after the start of the goroutine.   *)
(***************************************************************************)
THEOREM WaitCoversLookups == Spec => []WaitCovers
<1>1. ASSUME LookupInv, pc \in {"sort", "done"}
      PROVE  /\ \A l \in Lookups : lpc[l] = "done"
             /\ queries = {} /\ Range(results) = visited
             /\ pc = "done" => \/ returned = visited
                               \/ returned \subseteq visited /\ Len(results) > BucketSize
  <2>1. \A l \in Lookups : lpc[l] = "done"
    BY <1>1, AllDone
  <2>2. queries = {}
    <3>1. \A q \in queries : q.lookup \in Lookups /\ lpc[q.lookup] = "loop"
      BY <1>1 DEF LookupInv, TypeOK, Query, QueryInv
    <3> QED
      BY <2>1, <3>1
  <2>3. Range(results) = visited
    BY <1>1, <2>1 DEF LookupInv, ResultInv
  <2> QED
    BY <1>1, <2>1, <2>2, <2>3 DEF LookupInv, ResultInv
<1>2. LookupInv => WaitCovers
  BY <1>1 DEF WaitCovers
<1> QED
  BY <1>2, LookupInvHolds, PTL
=============================================================================
