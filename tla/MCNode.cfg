SPECIFICATION Spec
CONSTANTS
  Addrs <- MCAddrs
  Workers = {1, 2}
  MaxTries = 2
  MaxAttempts = 2
  None = None
  IPs <- MCIPs
  CacheLimit = 2
  Plugins = {"nat", "discovery"}
  Own <- MCOwn
  External <- MCExternal
  Peers <- MCPeers
  Lookups <- MCLookups
INVARIANTS
  BootstrapAfterStartup
  GivenUpForACause
CHECK_DEADLOCK FALSE
