------------------------------ MODULE Addresses ------------------------------
(***************************************************************************)
(* Addresses and their unified form: network/address.go over the cache of  *)
(* types/lru.                                                              *)
(*                                                                         *)
(* An address is a record: the text of an address, which may be empty or   *)
(* malformed, or its protocol, host and port.  Spaces around a text are    *)
(* trimmed before anything else and are left out.  A cache is the list     *)
(* order, from the item used last to the one to be evicted first.          *)
(***************************************************************************)
EXTENDS Naturals, Sequences, Functions

CONSTANTS
  IPs,          \* hosts that are IP addresses
  CacheLimit    \* limit of domainLookupCache

Fail == "error"                    \* an error instead of a host
NoAddress == [form |-> "error"]    \* an error instead of an address
Localhost == "127.0.0.1"

Address(protocol, host, port) ==
  [form |-> "ok", protocol |-> protocol, host |-> host, port |-> port]
Empty == [form |-> "empty"]
Malformed == [form |-> "malformed"]

-----------------------------------------------------------------------------
\* Remove of a list.
Without(list, i) == SubSeq(list, 1, i - 1) \o SubSeq(list, i + 1, Len(list))

\* Cache.Get: the cache afterwards and the value.  An item is evicted before
\* init is called; it is gone even if init fails.
CacheGet(cache, key, init) ==
  LET at == {i \in DOMAIN cache : cache[i].key = key}
      hit == CHOOSE i \in at : TRUE
      kept == IF Len(cache) >= CacheLimit THEN Without(cache, Len(cache)) ELSE cache
  IN CASE at # {} -> [cache |-> <<cache[hit]>> \o Without(cache, hit),
                      value |-> cache[hit].value]
       [] at = {} /\ init = Fail -> [cache |-> kept, value |-> Fail]
       [] OTHER -> [cache |-> <<[key |-> key, value |-> init]>> \o kept, value |-> init]

\* dns: what net.LookupHost answers for each name, nothing if it fails.
ToUnifiedHost(cache, dns, host) ==
  CacheGet(cache, host,
           CASE host \in IPs -> host
             [] host \notin IPs /\ dns[host] = <<>> -> Fail
             [] OTHER -> IF Head(dns[host]) = "::1" THEN Localhost ELSE Head(dns[host]))

\* ParseAddress fails on a malformed text; String puts the parts together
\* again.
ToUnifiedAddress(cache, dns, address) ==
  IF address.form # "ok" THEN [cache |-> cache, value |-> NoAddress]
  ELSE LET got == ToUnifiedHost(cache, dns, address.host) IN
       [cache |-> got.cache,
        value |-> IF got.value = Fail THEN NoAddress
                  ELSE Address(address.protocol, got.value, address.port)]
=============================================================================
