----------------------------- MODULE NodeProofs -----------------------------
(***************************************************************************)
(* Proofs about the start of the node of module Node, for any plugins in   *)
(* any order and any answers of the domain name system: SortByPriority     *)
(* puts nat before discovery (PluginInv) and what the cache answers is an  *)
(* IP address (BootInv), so that Bootstrap dials the right addresses in    *)
(* the name of the right ID.                                               *)
(***************************************************************************)
EXTENDS BackoffProofs, FiniteSetTheorems

(***************************************************************************)
(* What the proofs use of sequences.  The SMT solver knows it by itself,   *)
(* but finds it more easily when it is stated.                             *)
(***************************************************************************)
LEMMA LenProperties ==
  ASSUME NEW S, NEW s \in Seq(S)
  PROVE  Len(s) \in Nat /\ DOMAIN s = 1..Len(s) /\ s \in [1..Len(s) -> S]
OBVIOUS

LEMMA ElementOfSeq ==
  ASSUME NEW S, NEW s \in Seq(S), NEW i \in 1..Len(s)
  PROVE  s[i] \in S
OBVIOUS

LEMMA SeqDef ==
  ASSUME NEW S, NEW n \in Nat, NEW f \in [1..n -> S]
  PROVE  f \in Seq(S) /\ Len(f) = n
OBVIOUS

LEMMA EmptySeq ==
  ASSUME NEW S
  PROVE  /\ <<>> \in Seq(S) /\ Len(<<>>) = 0
         /\ \A s \in Seq(S) : s # <<>> => Len(s) \in Nat \ {0}
OBVIOUS

LEMMA HeadTailProperties ==
  ASSUME NEW S, NEW s \in Seq(S), s # <<>>
  PROVE  /\ Head(s) \in S /\ Tail(s) \in Seq(S) /\ Len(Tail(s)) = Len(s) - 1
         /\ \A i \in 1..Len(Tail(s)) : Tail(s)[i] = s[i + 1]
OBVIOUS

-----------------------------------------------------------------------------
(* Sorting by priority                                                     *)

\* A strict order of 1..n, and the place of each by counting those below it.
Ordered(B, n) ==
  /\ \A i \in 1..n : <<i, i>> \notin B
  /\ \A i, j, k \in 1..n : <<i, j>> \in B /\ <<j, k>> \in B => <<i, k>> \in B
  /\ \A i, j \in 1..n : i = j \/ <<i, j>> \in B \/ <<j, i>> \in B

Counts(place, B, n) ==
  /\ place \in [1..n -> Nat]
  /\ \A i \in 1..n : place[i] = Cardinality({j \in 1..n : <<j, i>> \in B}) + 1

LEMMA PlacesInOrder ==
  ASSUME NEW n \in Nat, NEW B, NEW place, Ordered(B, n), Counts(place, B, n)
  PROVE  /\ \A i \in 1..n : place[i] \in 1..n
         /\ \A i, j \in 1..n : place[i] < place[j] <=> <<i, j>> \in B
         /\ \A k \in 1..n : \E i \in 1..n : place[i] = k
<1> DEFINE below(i) == {j \in 1..n : <<j, i>> \in B}
<1>1. IsFiniteSet(1..n) /\ Cardinality(1..n) = n
  BY FS_Interval
<1>2. \A i \in 1..n : /\ below(i) \in SUBSET (1..n) /\ i \notin below(i)
                      /\ place[i] = Cardinality(below(i)) + 1
  BY Zenon DEF Ordered, Counts
<1>3. \A i, j \in 1..n : <<i, j>> \in B => below(i) \subseteq below(j) /\ i \in below(j)
  BY Zenon DEF Ordered
<1> HIDE DEF below
<1>4. \A i \in 1..n : IsFiniteSet(below(i)) /\ Cardinality(below(i)) \in Nat
  BY <1>1, <1>2, FS_Subset, FS_CardinalityType
<1>5. ASSUME NEW i \in 1..n PROVE place[i] \in 1..n
  <2>1. Cardinality(below(i)) <= n /\ (Cardinality(below(i)) = n => below(i) = 1..n)
    BY <1>1, <1>2, FS_Subset
  <2>2. below(i) # 1..n
    BY <1>2
  <2> QED BY <1>2, <1>4, <2>1, <2>2
<1>6. ASSUME NEW i \in 1..n, NEW j \in 1..n, <<i, j>> \in B PROVE place[i] < place[j]
  <2>1. below(i) \subseteq below(j) /\ below(i) # below(j)
    BY <1>2, <1>3, <1>6
  <2>2. Cardinality(below(i)) < Cardinality(below(j))
    <3>1. /\ Cardinality(below(i)) <= Cardinality(below(j))
          /\ Cardinality(below(i)) = Cardinality(below(j)) => below(i) = below(j)
      BY <1>4, <2>1, FS_Subset
    <3> QED BY <1>4, <2>1, <3>1
  <2> QED BY <1>2, <1>4, <2>2
<1>7. ASSUME NEW i \in 1..n, NEW j \in 1..n
      PROVE  (place[i] < place[j] <=> <<i, j>> \in B) /\ (place[i] = place[j] => i = j)
  <2>1. place[i] \in Nat /\ place[j] \in Nat
    BY DEF Counts
  <2>2. <<i, j>> \in B => place[i] < place[j]
    BY <1>6
  <2>3. <<j, i>> \in B => place[j] < place[i]
    BY <1>6
  <2>4. i = j \/ <<i, j>> \in B \/ <<j, i>> \in B
    BY DEF Ordered
  <2> QED BY <2>1, <2>2, <2>3, <2>4
<1>8. \A i, j \in 1..n : place[i] = place[j] => i = j
  BY <1>7, Zenon
<1> DEFINE used == {place[i] : i \in 1..n}
<1>9. used = 1..n
  <2>1. used \in SUBSET (1..n)
    BY <1>5
  <2>2. place \in Bijection(1..n, used)
    BY <1>8 DEF Counts, Bijection, Injection, Surjection, IsInjective
  <2>3. ExistsBijection(1..n, used)
    BY <2>2 DEF ExistsBijection
  <2>4. Cardinality(used) = n
    BY <1>1, <2>3, FS_Bijection
  <2> HIDE DEF used
  <2> QED BY <1>1, <2>1, <2>4, FS_Subset, Zenon
<1>10. \A k \in 1..n : \E i \in 1..n : place[i] = k
  BY <1>9
<1> QED BY <1>5, <1>7, <1>10

-----------------------------------------------------------------------------
(* Plugins                                                                 *)

\* The list of a Builder: nobody twice, and only nat has a negative priority.
PluginInfo == [name : Plugins, priority : Int]

ListOK(list) ==
  /\ list \in Seq(PluginInfo)
  /\ \A i, j \in DOMAIN list : list[i].name = list[j].name => i = j
  /\ \A i \in DOMAIN list :
       IF list[i].name = "nat" THEN list[i].priority = NatPriority
       ELSE list[i].priority \in Nat

\* nat starts before discovery.
InOrder(list) ==
  \A i, j \in DOMAIN list :
    list[i].name = "nat" /\ list[j].name = "discovery" => i < j

\* SortByPriority leaves every plugin, the ones of lower priority in front.
Sorts(list, at) ==
  LET n == Len(list) IN
  /\ at \in [1..n -> 1..n]
  /\ SortByPriority(list) = [k \in 1..n |-> list[at[k]]]
  /\ \A j, k \in 1..n : j < k => Precedes(list, at[j], at[k])
  /\ \A j, k \in 1..n : at[j] = at[k] => j = k

LEMMA SortedByPriority ==
  ASSUME NEW list, ListOK(list)
  PROVE  \E at : Sorts(list, at)
<1> PICK n \in Nat : /\ n = Len(list) /\ DOMAIN list = 1..n
                     /\ \A i \in 1..n : list[i] \in PluginInfo
  BY LenProperties, ElementOfSeq DEF ListOK
<1>0. \A i \in 1..n : list[i].priority \in Int
  BY DEF PluginInfo
<1> DEFINE B == {e \in (1..n) \X (1..n) : Precedes(list, e[1], e[2])}
           place == [i \in 1..n |-> Rank(list, i)]
           at == [k \in 1..n |-> CHOOSE i \in DOMAIN list : Rank(list, i) = k]
<1>1. \A i, j \in 1..n : <<i, j>> \in B <=> Precedes(list, i, j)
  OBVIOUS
<1>2. \A i \in 1..n : {j \in 1..n : <<j, i>> \in B} =
                       {j \in DOMAIN list : Precedes(list, j, i)}
  BY <1>1
<1> HIDE DEF B
<1>3. Ordered(B, n)
  <2>1. \A i \in 1..n : <<i, i>> \notin B
    BY <1>0, <1>1 DEF Precedes
  <2>2. \A i, j, k \in 1..n : <<i, j>> \in B /\ <<j, k>> \in B => <<i, k>> \in B
    BY <1>0, <1>1 DEF Precedes
  <2>3. ASSUME NEW i \in 1..n, NEW j \in 1..n, i # j PROVE <<i, j>> \in B \/ <<j, i>> \in B
    <3>1. list[i].priority \in Int /\ list[j].priority \in Int
      BY <1>0
    <3>2. Precedes(list, i, j) \/ Precedes(list, j, i)
      BY <2>3, <3>1 DEF Precedes
    <3> QED BY <1>1, <3>2
  <2> QED BY <2>1, <2>2, <2>3 DEF Ordered
<1>4. \A i \in 1..n : /\ place[i] \in Nat
                      /\ place[i] = Cardinality({j \in 1..n : <<j, i>> \in B}) + 1
  <2>0. 1 \in Int /\ n \in Int
    OBVIOUS
  <2>1. IsFiniteSet(1..n)
    BY <2>0, FS_Interval, Zenon
  <2>2. \A i \in 1..n : IsFiniteSet({j \in 1..n : <<j, i>> \in B})
    BY <2>1, FS_Subset, Zenon
  <2>3. \A i \in 1..n : Cardinality({j \in 1..n : <<j, i>> \in B}) \in Nat
    BY <2>2, FS_CardinalityType
  <2>4. \A i \in 1..n : place[i] = Cardinality({j \in 1..n : <<j, i>> \in B}) + 1
    BY <1>2, Zenon DEF Rank
  <2> QED BY <2>3, <2>4
<1>5. place \in [1..n -> Nat]
  BY <1>4, Zenon
<1> HIDE DEF place
<1>6. /\ \A i \in 1..n : place[i] \in 1..n
      /\ \A i, j \in 1..n : place[i] < place[j] <=> <<i, j>> \in B
      /\ \A k \in 1..n : \E i \in 1..n : place[i] = k
  <2>1. Counts(place, B, n)
    BY <1>4, <1>5 DEF Counts
  <2>2. n \in Nat
    OBVIOUS
  <2> QED BY <1>3, <2>1, <2>2, PlacesInOrder
<1>7. \A k \in 1..n : at[k] \in 1..n /\ place[at[k]] = k
  <2>1. \A i \in 1..n : place[i] = Rank(list, i)
    BY DEF place
  <2>2. \A k \in 1..n : \E i \in DOMAIN list : Rank(list, i) = k
    BY <1>6, <2>1, Zenon
  <2>3. \A k \in 1..n : at[k] \in DOMAIN list /\ Rank(list, at[k]) = k
    BY <2>2
  <2> QED BY <2>1, <2>3
<1>8. SortByPriority(list) = [k \in 1..n |-> list[at[k]]]
  BY DEF SortByPriority
<1>9. at \in [1..n -> 1..n]
  BY <1>7
<1> HIDE DEF at
<1>10. ASSUME NEW j \in 1..n, NEW k \in 1..n PROVE at[j] = at[k] => j = k
  BY <1>7
<1>11. ASSUME NEW j \in 1..n, NEW k \in 1..n, j < k PROVE Precedes(list, at[j], at[k])
  <2>1. place[at[j]] < place[at[k]] /\ at[j] \in 1..n /\ at[k] \in 1..n
    BY <1>7, <1>11
  <2>2. <<at[j], at[k]>> \in B
    BY <1>6, <2>1, Zenon
  <2> QED BY <1>1, <2>1, <2>2
<1>12. Sorts(list, at)
  BY <1>8, <1>9, <1>10, <1>11 DEF Sorts
<1> QED BY <1>12

LEMMA SortedInOrder ==
  ASSUME NEW list, ListOK(list)
  PROVE  /\ ListOK(SortByPriority(list)) /\ InOrder(SortByPriority(list))
         /\ Len(SortByPriority(list)) = Len(list)
<1> DEFINE new == SortByPriority(list)
<1>1. PICK n \in Nat : n = Len(list) /\ DOMAIN list = 1..n /\ \A i \in 1..n : list[i] \in PluginInfo
  BY LenProperties, ElementOfSeq DEF ListOK
<1>2. PICK at : Sorts(list, at)
  BY SortedByPriority
<1>3. /\ at \in [1..n -> 1..n]
      /\ new = [k \in 1..n |-> list[at[k]]]
      /\ \A j, k \in 1..n : j < k => Precedes(list, at[j], at[k])
      /\ \A j, k \in 1..n : at[j] = at[k] => j = k
  BY <1>1, <1>2 DEF Sorts
<1> HIDE DEF new
<1>4. new \in [1..n -> PluginInfo] /\ \A k \in 1..n : at[k] \in 1..n /\ new[k] = list[at[k]]
  BY <1>1, <1>3
<1>5. new \in Seq(PluginInfo) /\ DOMAIN new = 1..n /\ Len(new) = n
  <2>1. new \in Seq(PluginInfo) /\ DOMAIN new = 1..n
    <3>1. new \in UNION {[1..m -> PluginInfo] : m \in Nat}
      BY <1>4
    <3> QED BY <1>4, <3>1, SeqDef
  <2> QED BY <2>1, LenProperties
<1>6. ListOK(new)
  <2>1. ASSUME NEW j \in 1..n, NEW k \in 1..n, new[j].name = new[k].name PROVE j = k
    <3>1. /\ at[j] \in 1..n /\ at[k] \in 1..n
          /\ list[at[j]].name = list[at[k]].name
      BY <1>4, <2>1
    <3>2. at[j] = at[k]
      BY <1>1, <3>1 DEF ListOK
    <3> QED BY <1>3, <3>2
  <2>2. \A k \in 1..n : IF new[k].name = "nat" THEN new[k].priority = NatPriority
                        ELSE new[k].priority \in Nat
    BY <1>1, <1>4 DEF ListOK
  <2> QED BY <1>5, <2>1, <2>2 DEF ListOK
<1>7. InOrder(new)
  <2> SUFFICES ASSUME NEW i \in 1..n, NEW j \in 1..n,
                      new[i].name = "nat", new[j].name = "discovery"
               PROVE  i < j
    BY <1>5 DEF InOrder
  <2>1. new[i].priority = NatPriority /\ new[j].priority \in Nat
    BY <1>5, <1>6, Zenon DEF ListOK
  <2>2. i # j
    OBVIOUS
  <2>3. ~ (j < i)
    <3>1. SUFFICES ASSUME j < i PROVE FALSE
      OBVIOUS
    <3>2. Precedes(list, at[j], at[i])
      BY <1>3, <3>1
    <3>3. /\ list[at[j]].priority = new[j].priority
          /\ list[at[i]].priority = new[i].priority
      BY <1>4
    <3>4. new[j].priority < new[i].priority \/ new[j].priority = new[i].priority
      BY <3>2, <3>3 DEF Precedes
    <3> QED BY <2>1, <3>4 DEF NatPriority
  <2> QED BY <2>2, <2>3
<1> QED BY <1>1, <1>5, <1>6, <1>7 DEF new

\* All plugins are in a list of that length without a duplicate.
LEMMA AllThere ==
  ASSUME NEW list, ListOK(list), Len(list) = Cardinality(Plugins), NEW name \in Plugins
  PROVE  \E i \in DOMAIN list : list[i].name = name
<1> PICK n \in Nat : n = Len(list) /\ DOMAIN list = 1..n
  BY LenProperties DEF ListOK
<1> DEFINE names == {list[i].name : i \in 1..n}
           f == [i \in 1..n |-> list[i].name]
<1>1. IsFiniteSet(Plugins)
  <2>1. IsFiniteSet({"nat", "discovery", "backoff"})
    <3>1. IsFiniteSet({"nat"})
      BY FS_Singleton, Zenon
    <3>2. IsFiniteSet({"nat"} \cup {"discovery"})
      BY <3>1, FS_AddElement
    <3>3. IsFiniteSet({"nat"} \cup {"discovery"} \cup {"backoff"})
      BY <3>2, FS_AddElement
    <3>4. {"nat"} \cup {"discovery"} \cup {"backoff"} = {"nat", "discovery", "backoff"}
      OBVIOUS
    <3> QED BY <3>3, <3>4
  <2> QED BY <2>1, FS_Subset, NodeAssumption, Zenon
<1>2. names \in SUBSET Plugins
  <2>1. \A i \in 1..n : list[i] \in PluginInfo
    BY ElementOfSeq DEF ListOK
  <2>2. \A i \in 1..n : list[i].name \in Plugins
    BY <2>1 DEF PluginInfo
  <2> QED BY <2>2
<1>3. f \in Bijection(1..n, names)
  BY DEF ListOK, Bijection, Injection, Surjection, IsInjective
<1>4. ExistsBijection(1..n, names)
  BY <1>3 DEF ExistsBijection
<1> HIDE DEF names, f
<1>5. IsFiniteSet(1..n) /\ Cardinality(1..n) = n
  BY FS_Interval
<1>6. Cardinality(names) = n
  BY <1>4, <1>5, FS_Bijection
<1>7. names = Plugins
  BY <1>1, <1>2, <1>6, FS_Subset
<1> QED BY <1>7 DEF names

\* What holds of the plugins and of the node's ID.
PluginInv ==
  /\ ListOK(plugins) /\ pluginCount \in Nat /\ turn \in Nat \ {0}
  /\ id = address
  /\ stage = "build" => turn = 1
  /\ stage # "build" =>
       /\ InOrder(plugins) /\ Len(plugins) = Cardinality(Plugins)
       /\ \A j \in DOMAIN plugins :
            plugins[j].name = "discovery" /\ j < turn => routes = id
  /\ Listened => turn > Len(plugins)
  /\ boot # "block" => Listened

\* AddPlugin.
LEMMA AddKeepsListOK ==
  ASSUME ListOK(plugins), pluginCount \in Nat, NEW name \in Plugins, AddPlugin(name)
  PROVE  ListOK(plugins') /\ pluginCount' \in Nat
<1> DEFINE priority == IF name = "nat" THEN NatPriority ELSE pluginCount
           info == [name |-> name, priority |-> priority]
<1>1. /\ name \notin {plugins[i].name : i \in DOMAIN plugins}
      /\ plugins' = Append(plugins, info)
      /\ pluginCount' \in Nat
  BY DEF AddPlugin, Put
<1>2. info \in PluginInfo /\ info.name = name /\ info.priority = priority
  BY DEF PluginInfo, NatPriority
<1>3. IF name = "nat" THEN priority = NatPriority ELSE priority \in Nat
  OBVIOUS
<1> HIDE DEF info, priority
<1>4. PICK n \in Nat : /\ n = Len(plugins) /\ DOMAIN plugins = 1..n
                       /\ plugins \in Seq(PluginInfo)
  BY LenProperties DEF ListOK
<1>5. /\ plugins' \in Seq(PluginInfo) /\ DOMAIN plugins' = 1..(n + 1)
      /\ \A i \in 1..n : plugins'[i] = plugins[i]
      /\ plugins'[n + 1] = info
  BY <1>1, <1>2, <1>4
<1>6. \A i \in 1..(n + 1) : i \in 1..n \/ i = n + 1
  OBVIOUS
<1>7. ASSUME NEW i \in 1..(n + 1), NEW j \in 1..(n + 1), plugins'[i].name = plugins'[j].name
      PROVE  i = j
  <2>1. \A k \in 1..n : plugins'[k].name # name
    BY <1>1, <1>4, <1>5
  <2>2. plugins'[n + 1].name = name
    BY <1>2, <1>5
  <2>3. CASE i \in 1..n /\ j \in 1..n
    BY <1>4, <1>5, <1>7, <2>3 DEF ListOK
  <2> QED BY <1>6, <1>7, <2>1, <2>2, <2>3, Zenon
<1>8. \A i \in 1..(n + 1) :
        IF plugins'[i].name = "nat" THEN plugins'[i].priority = NatPriority
        ELSE plugins'[i].priority \in Nat
  BY <1>2, <1>3, <1>4, <1>5, <1>6, ZenonT(30) DEF ListOK
<1> QED BY <1>1, <1>5, <1>7, <1>8 DEF ListOK

\* The steps that build the node and start its plugins.
LEMMA PluginsStep ==
  ASSUME PluginInv, (\E name \in Plugins : AddPlugin(name)) \/ Build \/ Startup
  PROVE  PluginInv'
<1> USE DEF PluginInv, Listened
<1>1. ASSUME NEW name \in Plugins, AddPlugin(name) PROVE PluginInv'
  <2>1. ListOK(plugins') /\ pluginCount' \in Nat
    BY <1>1, AddKeepsListOK
  <2>2. stage = "build" /\ UNCHANGED <<stage, turn, address, id, routes, boot>>
    BY <1>1, ZenonT(30) DEF AddPlugin, nodeVars, bootVars
  <2> QED BY <2>1, <2>2
<1>2. CASE Build
  <2>1. /\ stage = "build" /\ Len(plugins) = Cardinality(Plugins)
        /\ plugins' = SortByPriority(plugins)
        /\ UNCHANGED <<pluginCount, turn, routes, boot>>
    BY <1>2, ZenonT(30) DEF Build, bootVars
  <2>2. \/ stage' = "build" /\ UNCHANGED <<address, id>>
        \/ stage' = "startup" /\ id' = address'
    BY <1>2, ZenonT(30) DEF Build
  <2>3. /\ ListOK(plugins') /\ InOrder(plugins') /\ Len(plugins') = Len(plugins)
    BY <2>1, SortedInOrder, ZenonT(30)
  <2>4. \A j \in DOMAIN plugins' : ~(j < turn)
    BY <2>1, <2>3, LenProperties DEF ListOK
  <2> QED BY <2>1, <2>2, <2>3, <2>4
<1>3. CASE Startup
  <2>1. /\ stage = "startup" /\ turn <= Len(plugins) /\ turn' = turn + 1
        /\ UNCHANGED <<stage, plugins, pluginCount, boot>>
    BY <1>3, Zenon DEF Startup, buildVars, bootVars
  <2>2. turn \in DOMAIN plugins /\ DOMAIN plugins = 1..Len(plugins) /\ Len(plugins) \in Nat
    <3>1. Len(plugins) \in Nat /\ DOMAIN plugins = 1..Len(plugins)
      BY LenProperties DEF ListOK
    <3> QED BY <2>1, <3>1
  <2>3. id' = address' /\ \A j \in DOMAIN plugins :
                            plugins[j].name = "discovery" /\ j < turn' => routes' = id'
    <3>1. CASE plugins[turn].name = "nat"
      <4>1. StartNat
        BY <1>3, <3>1 DEF Startup
      <4>2. id' = address'
        BY <4>1 DEF StartNat, nodeVars
      <4>3. \A j \in DOMAIN plugins : plugins[j].name = "discovery" => turn < j
        BY <2>1, <2>2, <3>1 DEF InOrder
      <4>4. \A j \in DOMAIN plugins : plugins[j].name = "discovery" => ~(j < turn')
        BY <2>1, <2>2, <4>3
      <4> QED BY <4>2, <4>4
    <3>2. CASE plugins[turn].name = "discovery"
      <4>1. StartDiscovery
        BY <1>3, <3>2 DEF Startup
      <4> QED BY <4>1 DEF StartDiscovery
    <3>3. CASE plugins[turn].name = "backoff"
      <4>1. UNCHANGED <<address, id, routes>>
        BY <1>3, <3>3 DEF Startup, nodeVars
      <4>2. \A j \in DOMAIN plugins : plugins[j].name = "discovery" /\ j < turn' => j < turn
        BY <2>1, <2>2, <3>3
      <4> QED BY <2>1, <4>1, <4>2
    <3>4. plugins[turn].name \in {"nat", "discovery", "backoff"}
      <4>1. plugins[turn] \in PluginInfo
        BY <2>2, ElementOfSeq DEF ListOK
      <4> QED BY <4>1, NodeAssumption, ZenonT(30) DEF PluginInfo
    <3> QED BY <3>1, <3>2, <3>3, <3>4, ZenonT(30)
  <2> QED BY <2>1, <2>2, <2>3
<1> QED BY <1>1, <1>2, <1>3

\* The others, which leave the plugins and the addresses alone.
LEMMA LaterStep ==
  ASSUME PluginInv, UNCHANGED <<plugins, pluginCount, turn, address, id, routes>>,
         \/ stage' = stage
         \/ stage = "startup" /\ turn > Len(plugins) /\ stage' \in {"listening", "failed"}
         \/ stage = "listening" /\ stage' = "down",
         boot' # "block" => boot # "block" \/ Listened
  PROVE  PluginInv'
BY DEF PluginInv, Listened

-----------------------------------------------------------------------------
(* The cache                                                               *)

Items == [key : Hosts, value : IPs]

\* Whatever the cache holds or evicts: it holds and returns IP addresses.
LEMMA CacheHoldsIPs ==
  ASSUME NEW store \in Seq(Items), NEW key \in Hosts, NEW init \in IPs \cup {Fail}
  PROVE  LET got == CacheGet(store, key, init)
         IN  got.cache \in Seq(Items) /\ got.value \in IPs \cup {Fail}
<1> DEFINE at == {i \in DOMAIN store : store[i].key = key}
           hit == CHOOSE i \in at : TRUE
           kept == IF Len(store) >= CacheLimit THEN Without(store, Len(store)) ELSE store
           got == CacheGet(store, key, init)
<1>1. /\ Len(store) \in Nat /\ DOMAIN store = 1..Len(store)
      /\ \A i \in DOMAIN store : store[i] \in Items
  BY LenProperties, ElementOfSeq
<1>2. ASSUME NEW i \in DOMAIN store PROVE Without(store, i) \in Seq(Items)
  <2>1. /\ SubSeq(store, 1, i - 1) \in Seq(Items)
        /\ SubSeq(store, i + 1, Len(store)) \in Seq(Items)
    BY <1>1
  <2> QED BY <2>1 DEF Without
<1>4. CASE at # {}
  <2>1. hit \in DOMAIN store
    BY <1>4
  <2>2. got = [cache |-> <<store[hit]>> \o Without(store, hit), value |-> store[hit].value]
    BY <1>4 DEF CacheGet
  <2> HIDE DEF hit, at, got
  <2>3. store[hit] \in Items /\ store[hit].value \in IPs
    BY <1>1, <2>1 DEF Items
  <2>4. Without(store, hit) \in Seq(Items)
    BY <1>2, <2>1
  <2>5. <<store[hit]>> \o Without(store, hit) \in Seq(Items)
    BY <2>3, <2>4
  <2> QED BY <2>2, <2>3, <2>5 DEF got
<1>3. CASE at = {}
  <2>1. got = IF init = Fail THEN [cache |-> kept, value |-> Fail]
              ELSE [cache |-> <<[key |-> key, value |-> init]>> \o kept, value |-> init]
    BY <1>3 DEF CacheGet
  <2>2. kept \in Seq(Items)
    <3>1. CASE Len(store) >= CacheLimit
      <4>1. Len(store) \in DOMAIN store
        BY <1>1, <3>1, NodeAssumption
      <4> QED BY <1>2, <3>1, <4>1
    <3> QED BY <3>1
  <2> HIDE DEF kept, got
  <2>3. init # Fail => [key |-> key, value |-> init] \in Items
    BY DEF Items
  <2>4. init # Fail => <<[key |-> key, value |-> init]>> \o kept \in Seq(Items)
    BY <2>2, <2>3
  <2>5. CASE init = Fail
    <3>1. got = [cache |-> kept, value |-> Fail]
      BY <2>1, <2>5
    <3>2. got.cache = kept /\ got.value = Fail
      BY <3>1
    <3> QED BY <2>2, <3>2, ZenonT(30) DEF got
  <2>6. CASE init # Fail
    <3> DEFINE front == <<[key |-> key, value |-> init]>> \o kept
    <3>1. got = [cache |-> front, value |-> init]
      BY <2>1, <2>6
    <3> HIDE DEF front
    <3>2. got.cache = front /\ got.value = init
      BY <3>1
    <3>3. front \in Seq(Items)
      BY <2>4, <2>6 DEF front
    <3> QED BY <3>2, <3>3, ZenonT(30) DEF got
  <2> QED BY <2>5, <2>6
<1> QED BY <1>3, <1>4

\* What an address may become.
Unified(p) == {Address(p.protocol, ip, p.port) : ip \in IPs}

\* ToUnifiedAddress fails, or answers with an IP address as host.
LEMMA UnifiedHasIP ==
  ASSUME NEW store \in Seq(Items), NEW dns \in Lookups, NEW p \in Range(Peers) \cup {Own}
  PROVE  LET got == ToUnifiedAddress(store, dns, p)
         IN  /\ got.cache \in Seq(Items)
             /\ got.value # NoAddress => got.value \in Unified(p)
<1>1. CASE p.form # "ok"
  BY <1>1, Zenon DEF ToUnifiedAddress
<1>2. CASE p.form = "ok"
  <2> DEFINE host == p.host
             init == CASE host \in IPs -> host
                       [] host \notin IPs /\ dns[host] = <<>> -> Fail
                       [] OTHER -> IF Head(dns[host]) = "::1" THEN Localhost
                                   ELSE Head(dns[host])
             one == CacheGet(store, host, init)
  <2>1. host \in IPs \cup DOMAIN dns /\ host \in Hosts
    BY <1>2, NodeAssumption DEF Hosts
  <2>2. init \in IPs \cup {Fail}
    <3>1. CASE host \in IPs
      BY <3>1
    <3>2. CASE host \notin IPs
      <4>1. dns[host] \in Seq(IPs \cup {"::1"})
        BY <2>1, <3>2, NodeAssumption
      <4>2. dns[host] # <<>> => Head(dns[host]) \in IPs \cup {"::1"}
        BY <4>1
      <4>3. Localhost \in IPs
        BY NodeAssumption
      <4> QED BY <3>2, <4>2, <4>3
    <3> QED BY <3>1, <3>2
  <2> HIDE DEF init
  <2>3. one.cache \in Seq(Items) /\ one.value \in IPs \cup {Fail}
    BY <2>1, <2>2, CacheHoldsIPs
  <2>4. ToUnifiedHost(store, dns, host) = one
    BY DEF ToUnifiedHost, init
  <2> HIDE DEF one
  <2>5. ToUnifiedAddress(store, dns, p) =
          [cache |-> one.cache,
           value |-> IF one.value = Fail THEN NoAddress
                     ELSE Address(p.protocol, one.value, p.port)]
    BY <1>2, <2>4, Zenon DEF ToUnifiedAddress
  <2>6. one.value # Fail => Address(p.protocol, one.value, p.port) \in Unified(p)
    BY <2>3, ZenonT(30) DEF Unified
  <2> QED BY <2>3, <2>5, <2>6
<1> QED BY <1>1, <1>2

-----------------------------------------------------------------------------
(* Bootstrap                                                               *)

\* What the addresses given to Bootstrap may become.
Candidates == UNION {Unified(p) : p \in Range(Peers)}

\* Addresses that differ from one another and from a node's own.
Others(list, own) ==
  \A i \in DOMAIN list :
    list[i] # own /\ \A j \in DOMAIN list : list[i] = list[j] => i = j

BootInv ==
  /\ cache \in Seq(Items)
  /\ given \in Seq(Range(Peers))
  /\ contacts \in Seq(Candidates)
  /\ boot = "block" => contacts = <<>>
  /\ Others(contacts, address)

\* A unified address is looked up as it is.
LEMMA ResolveKeeps ==
  ASSUME BootInv, NEW a, a.host \in IPs, Resolve(a)
  PROVE  cache' \in Seq(Items)
<1>1. a.host \in Hosts
  BY DEF Hosts
<1> QED BY <1>1, CacheHoldsIPs, Zenon DEF BootInv, Resolve

\* One round of FilterPeers.
LEMMA FilterKeeps ==
  ASSUME BootInv, FilterPeers
  PROVE  BootInv'
<1>1. PICK dns \in Lookups :
        LET got == ToUnifiedAddress(cache, dns, Head(given)) IN
        /\ cache' = got.cache
        /\ contacts' = IF got.value \in {NoAddress, address} \cup Range(contacts)
                       THEN contacts ELSE Append(contacts, got.value)
  BY Zenon DEF FilterPeers
<1>2. /\ boot = "filter" /\ given # <<>> /\ given' = Tail(given)
      /\ UNCHANGED <<boot, address>>
  BY Zenon DEF FilterPeers, nodeVars
<1> DEFINE got == ToUnifiedAddress(cache, dns, Head(given))
<1>3. Head(given) \in Range(Peers) /\ given' \in Seq(Range(Peers))
  BY <1>2, HeadTailProperties DEF BootInv
<1>4. got.cache \in Seq(Items) /\ (got.value # NoAddress => got.value \in Unified(Head(given)))
  BY <1>3, UnifiedHasIP DEF BootInv
<1>5. cache' \in Seq(Items)
  BY <1>1, <1>4
<1> DEFINE a == got.value
<1>6. CASE a \in {NoAddress, address} \cup Range(contacts)
  <2>1. contacts' = contacts
    BY <1>1, <1>6
  <2> QED BY <1>2, <1>3, <1>5, <2>1 DEF BootInv
<1>7. CASE a \notin {NoAddress, address} \cup Range(contacts)
  <2>1. contacts' = Append(contacts, a)
    BY <1>1, <1>7
  <2>2. a \in Candidates
    BY <1>3, <1>4, <1>7 DEF Candidates
  <2>3. a # address /\ \A i \in DOMAIN contacts : contacts[i] # a
    BY <1>7 DEF Range
  <2> HIDE DEF a
  <2>4. PICK n \in Nat : n = Len(contacts) /\ DOMAIN contacts = 1..n /\ contacts \in Seq(Candidates)
    BY LenProperties DEF BootInv
  <2>5. /\ contacts' \in Seq(Candidates) /\ DOMAIN contacts' = 1..(n + 1)
        /\ \A i \in 1..n : contacts'[i] = contacts[i]
        /\ contacts'[n + 1] = a
    BY <2>1, <2>2, <2>4
  <2>6. \A i \in 1..(n + 1) : i \in 1..n \/ i = n + 1
    BY <2>4
  <2>7. \A i \in 1..(n + 1) : contacts'[i] # address
    BY <2>3, <2>4, <2>5, <2>6, Zenon DEF BootInv, Others
  <2>8. ASSUME NEW i \in 1..(n + 1), NEW j \in 1..(n + 1), contacts'[i] = contacts'[j]
        PROVE  i = j
    <3>1. CASE i \in 1..n /\ j \in 1..n
      BY <2>4, <2>5, <2>8, <3>1, ZenonT(30) DEF BootInv, Others
    <3> QED BY <2>3, <2>4, <2>5, <2>6, <2>8, <3>1, Zenon
  <2>9. Others(contacts', address)
    BY <2>5, <2>7, <2>8 DEF Others
  <2> QED BY <1>2, <1>3, <1>5, <2>5, <2>9 DEF BootInv
<1> QED BY <1>6, <1>7

\* The address that is dialled leaves the list.
LEMMA DialKeeps ==
  ASSUME BootInv, BootstrapDial
  PROVE  BootInv'
<1>1. /\ boot = "dial" /\ contacts # <<>> /\ contacts' = Tail(contacts)
      /\ Resolve(Head(contacts)) /\ UNCHANGED <<boot, given, address>>
  BY Zenon DEF BootstrapDial, nodeVars
<1>2. contacts \in Seq(Candidates)
  BY DEF BootInv
<1>3. Head(contacts) \in Candidates /\ contacts' \in Seq(Candidates)
  BY <1>1, <1>2, HeadTailProperties
<1>4. Head(contacts).host \in IPs
  BY <1>3 DEF Candidates, Unified, Address
<1>5. cache' \in Seq(Items)
  BY <1>1, <1>4, ResolveKeeps
<1>6. PICK n \in Nat : n = Len(contacts) /\ DOMAIN contacts = 1..n /\ n # 0
  BY <1>1, <1>2, LenProperties, EmptySeq
<1>7. /\ DOMAIN contacts' = 1..(n - 1)
      /\ \A i \in 1..(n - 1) : i + 1 \in 1..n /\ contacts'[i] = contacts[i + 1]
  BY <1>1, <1>2, <1>6
<1>8. \A i \in 1..(n - 1) : contacts'[i] # address
  BY <1>6, <1>7 DEF BootInv, Others
<1>9. ASSUME NEW i \in 1..(n - 1), NEW j \in 1..(n - 1), contacts'[i] = contacts'[j]
      PROVE  i = j
  <2>1. /\ i + 1 \in DOMAIN contacts /\ j + 1 \in DOMAIN contacts
        /\ contacts[i + 1] = contacts[j + 1]
    BY <1>6, <1>7, <1>9
  <2>2. i + 1 = j + 1
    BY <2>1, Zenon DEF BootInv, Others
  <2> QED BY <2>2
<1>10. Others(contacts', address)
  BY <1>7, <1>8, <1>9 DEF Others
<1> QED BY <1>1, <1>3, <1>5, <1>10 DEF BootInv

\* Build and the Startup of nat, which set the address, come before.
LEMMA BootStep ==
  ASSUME PluginInv, Uncounted, BootInv, [Next]_vars
  PROVE  BootInv'
<1>1. ASSUME UNCHANGED <<cache, given, contacts, boot>>, boot = "block" \/ UNCHANGED address
      PROVE  BootInv'
  <2>1. boot = "block" => DOMAIN contacts = {}
    BY EmptySeq DEF BootInv
  <2>2. Others(contacts, address')
    BY <1>1, <2>1 DEF BootInv, Others
  <2> QED BY <1>1, <2>2 DEF BootInv
<1>2. ASSUME UNCHANGED <<given, contacts, boot, address>>, cache' \in Seq(Items) PROVE BootInv'
  BY <1>2 DEF BootInv
<1>3. ASSUME NEW name \in Plugins, AddPlugin(name) PROVE BootInv'
  <2>1. UNCHANGED <<cache, given, contacts, boot, address>>
    BY <1>3, Zenon DEF AddPlugin, nodeVars, bootVars
  <2> QED BY <1>1, <2>1
<1>4. CASE Build
  <2>1. stage = "build" /\ UNCHANGED <<given, contacts, boot>>
    BY <1>4, Zenon DEF Build, bootVars
  <2>2. boot = "block"
    BY <2>1 DEF PluginInv, Listened
  <2>3. PICK dns \in Lookups : cache' = ToUnifiedAddress(cache, dns, Own).cache
    BY <1>4, Zenon DEF Build
  <2>4. cache' \in Seq(Items)
    BY <2>3, UnifiedHasIP DEF BootInv
  <2>5. contacts' = <<>> /\ Others(contacts', address')
    BY <2>1, <2>2, EmptySeq DEF BootInv, Others
  <2> QED BY <2>1, <2>4, <2>5 DEF BootInv
<1>5. CASE Startup
  <2>1. stage = "startup" /\ UNCHANGED <<cache, given, contacts, boot>>
    BY <1>5, ZenonT(30) DEF Startup, bootVars
  <2>2. boot = "block"
    BY <2>1 DEF PluginInv, Listened
  <2> QED BY <1>1, <2>1, <2>2
<1>6. CASE StartListening \/ StopListening \/ Close \/ UNCHANGED vars
  <2>1. UNCHANGED <<cache, given, contacts, boot, address>>
    BY <1>6, Zenon DEF StartListening, StopListening, Close, vars, nodeVars, bootVars
  <2> QED BY <1>1, <2>1
<1>7. CASE BlockUntilListening
  <2>1. given' = Peers /\ boot' = "filter" /\ UNCHANGED <<cache, contacts, address>>
    BY <1>7, Zenon DEF BlockUntilListening, nodeVars
  <2> QED BY <2>1, NodeAssumption DEF BootInv
<1>8. CASE FilterEnd \/ BootstrapEnd
  <2>1. boot' # "block" /\ UNCHANGED <<cache, given, contacts, address>>
    BY <1>8 DEF FilterEnd, BootstrapEnd, nodeVars
  <2> QED BY <2>1 DEF BootInv
<1>9. ASSUME NEW a \in Addrs, Incoming(a) PROVE BootInv'
  <2>1. Resolve(a) /\ UNCHANGED <<given, contacts, boot, address>>
    BY <1>9, ZenonT(30) DEF Incoming, nodeVars, bootVars
  <2>2. cache' \in Seq(Items)
    BY <2>1, ResolveKeeps, NodeAssumption
  <2> QED BY <1>2, <2>1, <2>2
<1>10. ASSUME NEW a \in Addrs, Disconnect(a) PROVE BootInv'
  <2>1. UNCHANGED <<cache, given, contacts, boot, address>>
    BY <1>10, Zenon DEF Disconnect, nodeVars, bootVars
  <2> QED BY <1>1, <2>1
<1>11. ASSUME NEW w \in Workers, Worker(w) PROVE BootInv'
  <2>1. /\ IF pc[w] = "dial" THEN Resolve(addr[w]) ELSE UNCHANGED cache
        /\ UNCHANGED <<given, contacts, boot, address>>
    BY <1>11, Zenon DEF Worker, nodeVars, bootVars
  <2>2. CASE pc[w] = "dial"
    <3>1. addr[w].host \in IPs /\ Resolve(addr[w])
      BY <2>1, <2>2, NodeAssumption, Zenon DEF Uncounted
    <3>2. cache' \in Seq(Items)
      BY <3>1, ResolveKeeps
    <3> QED BY <1>2, <2>1, <3>2
  <2>3. CASE pc[w] # "dial"
    BY <1>1, <2>1, <2>3
  <2> QED BY <2>2, <2>3
<1> QED BY <1>3, <1>4, <1>5, <1>6, <1>7, <1>8, <1>9, <1>10, <1>11, FilterKeeps,
           DialKeeps, ZenonT(30)
        DEF Next, Listen, Bootstrap

LEMMA PluginStep ==
  ASSUME PluginInv, [Next]_vars
  PROVE  PluginInv'
<1> DEFINE Same == UNCHANGED <<plugins, pluginCount, turn, address, id, routes>>
<1>1. CASE (\E name \in Plugins : AddPlugin(name)) \/ Build \/ Startup
  BY <1>1, PluginsStep
<1>2. CASE StartListening
  <2>1. /\ Same /\ boot' = boot /\ stage = "startup" /\ turn > Len(plugins)
        /\ stage' \in {"listening", "failed"}
    BY <1>2, Zenon DEF StartListening, buildVars, nodeVars, bootVars
  <2> QED BY <2>1, LaterStep
<1>3. CASE StopListening
  <2>1. Same /\ boot' = boot /\ stage = "listening" /\ stage' = "down"
    BY <1>3, Zenon DEF StopListening, buildVars, bootVars
  <2> QED BY <2>1, LaterStep
<1>4. CASE BlockUntilListening
  <2>1. Same /\ Listened /\ stage' = stage
    BY <1>4, Zenon DEF BlockUntilListening, buildVars, nodeVars
  <2> QED BY <2>1, LaterStep
<1>5. CASE FilterPeers \/ FilterEnd \/ BootstrapDial \/ BootstrapEnd
  <2>1. Same /\ boot # "block" /\ stage' = stage
    BY <1>5 DEF FilterPeers, FilterEnd, BootstrapDial, BootstrapEnd, buildVars, nodeVars
  <2> QED BY <2>1, LaterStep
<1>6. ASSUME \/ Close \/ UNCHANGED vars
             \/ \E a \in Addrs : Incoming(a) \/ Disconnect(a)
             \/ \E w \in Workers : Worker(w)
      PROVE  PluginInv'
  <2>1. Same /\ boot' = boot /\ stage' = stage
    BY <1>6, Zenon DEF Close, vars, Incoming, Disconnect, Worker, buildVars, nodeVars, bootVars
  <2> QED BY <2>1, LaterStep
<1> QED BY <1>1, <1>2, <1>3, <1>4, <1>5, <1>6, Zenon DEF Next, Listen, Bootstrap

LEMMA InitNode == Init => PluginInv /\ BootInv
<1> SUFFICES ASSUME Init PROVE PluginInv /\ BootInv
  OBVIOUS
<1>1. PluginInv
  <2>1. plugins = <<>> /\ DOMAIN plugins = {} /\ <<>> \in Seq(PluginInfo)
    BY EmptySeq DEF Init
  <2>2. ListOK(plugins)
    BY <2>1, Zenon DEF ListOK
  <2>3. /\ pluginCount \in Nat /\ turn \in Nat \ {0} /\ turn = 1
        /\ id = address /\ stage = "build" /\ ~Listened /\ boot = "block"
    BY DEF Init, Listened
  <2> QED BY <2>2, <2>3, Zenon DEF PluginInv
<1>2. BootInv
  BY EmptySeq DEF Init, BootInv, Others
<1> QED BY <1>1, <1>2

LEMMA NodeInvIsEnough == PluginInv /\ BootInv => BootstrapAfterStartup
<1> SUFFICES ASSUME PluginInv, BootInv, boot # "block"
             PROVE  /\ stage \in {"listening", "down"}
                    /\ "discovery" \in Plugins => routes = id
                    /\ id = address
                    /\ \A i \in DOMAIN contacts :
                         /\ contacts[i].host \in IPs /\ contacts[i] # address
                         /\ \A j \in DOMAIN contacts : contacts[i] = contacts[j] => i = j
  BY DEF BootstrapAfterStartup
<1>1. stage \in {"listening", "down"} /\ turn > Len(plugins) /\ id = address
  BY DEF PluginInv, Listened
<1>2. ASSUME "discovery" \in Plugins PROVE routes = id
  <2>1. ListOK(plugins) /\ Len(plugins) = Cardinality(Plugins)
    BY <1>1 DEF PluginInv
  <2>2. PICK j \in DOMAIN plugins : plugins[j].name = "discovery"
    BY <1>2, <2>1, AllThere
  <2>3. j < turn
    <3>1. DOMAIN plugins = 1..Len(plugins) /\ Len(plugins) \in Nat /\ turn \in Nat
      BY <2>1, LenProperties, Zenon DEF ListOK, PluginInv
    <3> QED BY <1>1, <3>1
  <2> QED BY <1>1, <2>2, <2>3 DEF PluginInv
<1>3. ASSUME NEW i \in DOMAIN contacts PROVE contacts[i].host \in IPs
  <2>1. contacts[i] \in Candidates
    BY ElementOfSeq, LenProperties DEF BootInv
  <2>2. PICK p \in Range(Peers) : contacts[i] \in Unified(p)
    BY <2>1, Zenon DEF Candidates
  <2>3. PICK ip \in IPs : contacts[i] = Address(p.protocol, ip, p.port)
    BY <2>2, Zenon DEF Unified
  <2>4. Address(p.protocol, ip, p.port).host = ip
    BY DEF Address
  <2> QED BY <2>3, <2>4, Zenon
<1> QED BY <1>1, <1>2, <1>3, ZenonT(30) DEF BootInv, Others

(***************************************************************************)
(* Bootstrap goes on only when every plugin was started, the routing table *)
(* has the ID that the node goes by, whatever the order of registration,   *)
(* and the addresses left to dial are resolved, distinct and not its own,  *)
(* whatever the domain name system answers and the cache evicts.           *)
(***************************************************************************)
THEOREM BootstrapsWhenStarted == Spec => []BootstrapAfterStartup
<1>1. BackoffInv => Uncounted
  BY DEF BackoffInv
<1>2. Uncounted /\ PluginInv /\ BootInv /\ [Next]_vars => PluginInv' /\ BootInv'
  BY PluginStep, BootStep
<1> QED BY <1>1, <1>2, BackoffInvAlways, InitNode, NodeInvIsEnough, PTL DEF Spec
=============================================================================
