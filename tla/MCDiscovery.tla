---------------------------- MODULE MCDiscovery ----------------------------
EXTENDS Discovery, TLC

CONSTANTS a1, a2, h1, h2

Node(bits, address) == [Id |-> bits, Address |-> address]

(* Three Ids in bucket 0, which holds two; one of them at two addresses. *)
MCSelf == Node(<<0, 0, 0>>, a1)
MCContacts ==
  {Node(<<1, 0, 0>>, a1), Node(<<1, 0, 1>>, a1), Node(<<1, 0, 1>>, a2)}
MCReported == {Node(<<1, 1, 0>>, a1), Node(<<0, 1, 0>>, a1)}
MCTargets == {Node(<<1, 0, 0>>, a1), Node(<<0, 1, 1>>, a1)}
Symmetry == Permutations(Handlers)
=============================================================================
