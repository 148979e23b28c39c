SPECIFICATION Spec
CONSTANTS
  ru = ru
  ru1 = ru1
  fo = fo
  lan = lan
  lan2 = lan2
  ep = ep
  ep2 = ep2
  v6 = v6
  NoAddr = NoAddr
  Resolver <- MCResolver
  DirectResolver <- MCDirectResolver
  Addr4 <- MCAddr4
  Hosts <- MCHosts
  Addr6 <- MCAddr6
  Text <- MCText
  Policies <- TogglePolicies
  Procs = {g1, g2}
  Fallible = {"sysctl read", "sysctl echo", "sysctl write", "sysctl reread",
    "nft list", "nft apply", "link show", "link add", "route del", "link down",
    "wg dump", "addr show", "wg key", "wg peer", "addr replace",
    "link up", "route replace", "rule show", "rule del", "rule add",
    "table show", "table add", "clear wg-exit", "clear rule",
    "clear table", "clear nft", "kill", "link lost", "link forced down",
    "roam"}
  MaxFaults = 1
  ForeignRules <- OtherRules
  RoamedTo = "roamed"
  SetReference = "object"
  Commands = {"apply"}
SYMMETRY Symmetry
INVARIANTS
  FailClosed
  HomeIsolation
