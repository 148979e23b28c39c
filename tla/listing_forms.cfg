SPECIFICATION Spec
CONSTANTS
  ru = ru
  ru1 = ru1
  fo = fo
  lan = lan
  lan2 = lan2
  ep = ep
  ep2 = ep2
  v6 = v6
  NoAddr = NoAddr
  Resolver <- MCResolver
  DirectResolver <- MCDirectResolver
  Addr4 <- MCAddr4
  Hosts <- MCHosts
  Addr6 <- MCAddr6
  Text <- MCText
  Policies <- OneHostPolicy
  Procs = {g1}
  Fallible = {}
  MaxFaults = 0
  ForeignRules <- OtherRules
  RoamedTo = "roamed"
  SetReference = "string"
  Commands = {"apply"}
INVARIANTS
  ZeroChangesOnReapply
