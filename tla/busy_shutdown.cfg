SPECIFICATION FairSpec
CONSTANTS
  Destinations <- MCDestinations
  Plain <- MCPlain
  Ways = {"wg-exit", "blackhole", "isp"}
  c1 = c1
  c2 = c2
  Clients <- MCClients
  Asks <- MCOnePerSocket
  Names <- MCNames
  DirectSuffixes <- MCDirectSuffixes
  Configured = {"direct", "exit"}
  Mark = 1
  GatewayMark = 1
  Timeout = 1
  Grace = 1
PROPERTIES
  ShutdownReturns
