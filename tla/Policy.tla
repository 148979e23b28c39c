------------------------------- MODULE Policy -------------------------------
(***************************************************************************)
(* The policy package: what an operator asks for (Policy) and what the     *)
(* kernel should look like (DesiredKernelState, computed by Compile).      *)
(*                                                                         *)
(* Data abstraction.  An IPv4 prefix is the set of the addresses it        *)
(* covers, so Addr4 itself is 0.0.0.0/0.  A destination stands for a block *)
(* of addresses with one fate, or is a single address, one of Hosts.       *)
(* DirectPrefixes have been through prefixes.CollapseIPv4, whose result is *)
(* the canonical prefix list of the addresses it covers, and are kept as   *)
(* that set of destinations.  Mark, table and rule priority are the        *)
(* defaults: the command line sets no others.  Empty Go strings are empty  *)
(* TLA+ strings, absent values zero.                                       *)
(***************************************************************************)
EXTENDS Naturals, Sequences

CONSTANTS Addr4,      \* IPv4 destinations
          Hosts,      \* the IPv4 destinations that are single addresses
          Addr6,      \* IPv6 destinations
          NoAddr,     \* the zero netip.Addr
          Text,       \* keys, endpoints and interface addresses, "" for none
          Policies    \* the policies gotun apply is run with

CIDR == SUBSET Addr4

TunnelIface  == "wg-exit"
ClientsIface == "wg-clients"
Ifaces       == {TunnelIface, ClientsIface}

WireGuardPeer == [PublicKey: Text, Endpoint: Text,
                  AllowedIPs: SUBSET CIDR, PersistentKeepalive: Nat]

WireGuardConfig == [PrivateKey: Text, ListenPort: Nat,
                    Address: Text, Peer: WireGuardPeer]

Policy == [DirectPrefixes: SUBSET (Addr4 \cup Addr6),
           TunnelEndpoint: Addr4 \cup Addr6 \cup {NoAddr},
           LANs: SUBSET CIDR,
           TunnelUp: BOOLEAN,
           WireGuard: WireGuardConfig,
           InboundWireGuard: WireGuardConfig]

ASSUME PolicyAssumption ==
  /\ Policies \subseteq Policy
  /\ Policies # {}
  /\ "" \in Text
  /\ Hosts \subseteq Addr4
  /\ \A p \in Policies : p.TunnelEndpoint \in Addr4 => p.TunnelEndpoint \in Hosts
  /\ Addr4 \cap Addr6 = {}
  /\ NoAddr \notin Addr4 \cup Addr6

(* What makes the sets above prefixes: none is empty, and of two that      *)
(* overlap one contains the other.                                         *)
AllPrefixes ==
  UNION { p.LANs \cup p.WireGuard.Peer.AllowedIPs
                 \cup p.InboundWireGuard.Peer.AllowedIPs : p \in Policies }

ASSUME PrefixAssumption ==
  \A a, b \in AllPrefixes :
     /\ a # {}
     /\ a \cap b # {} => a \subseteq b \/ b \subseteq a

-----------------------------------------------------------------------------
(* validate: the policies Compile accepts.                                 *)
Validate(p) ==
  /\ p.TunnelEndpoint # NoAddr
  /\ p.DirectPrefixes \subseteq Addr4
  /\ p.InboundWireGuard.PrivateKey # "" => p.LANs # {}

SysctlSpecs == << "net.ipv4.ip_forward",
                  "net.ipv6.conf.all.disable_ipv6",
                  "net.ipv6.conf.default.disable_ipv6" >>
SysctlKeys  == { SysctlSpecs[i] : i \in 1 .. 3 }

(* A rule is its comment and the destinations it matches on; the lines     *)
(* rendered for one list of exclusions are one rule here.                  *)
NftRule == [Comment: {"drop-ipv6", "exclude-lan", "exclude-endpoint",
                      "mark-non-direct", "isolate-inbound-from-home"},
            DAddrs: SUBSET (SUBSET (Addr4 \cup Addr6 \cup {NoAddr}))]

Rule(c, d) == [Comment |-> c, DAddrs |-> d]

(* The rules of the prerouting chain, in the order they are rendered: the  *)
(* exclusions come before the rule that marks.                             *)
PreroutingRules(p) ==
  << Rule("drop-ipv6", {}),
     Rule("exclude-lan", p.LANs),
     Rule("exclude-endpoint", {{p.TunnelEndpoint}}),
     Rule("mark-non-direct", {}) >>

(* The nft part of the desired state.  home_nets and the forward chain are *)
(* part of it only when gotun manages the clients' interface.              *)
NftSpec(p) ==
  LET inbound == p.InboundWireGuard.PrivateKey # ""
  IN [ru_nets    |-> p.DirectPrefixes,
      home_nets  |-> IF inbound THEN p.LANs ELSE {},
      prerouting |-> PreroutingRules(p),
      forward    |-> IF inbound
                     THEN << Rule("isolate-inbound-from-home", {}) >>
                     ELSE << >>]

IPRule == [Priority: Nat, Mark: Nat, Table: Nat]
OwnedRule == [Priority |-> 100, Mark |-> 1, Table |-> 100]

TunnelRoute   == [Device |-> TunnelIface, Metric |-> 10]
Blackhole     == [Device |-> "blackhole", Metric |-> 100]
OwnedRoutes   == {TunnelRoute, Blackhole}

(* Two mistakes that would be easy to make there: no blackhole behind the  *)
(* tunnel, and a blackhole that is not given its metric.                   *)
RoutesWithoutBlackhole(p) ==
  IF p.TunnelUp THEN << TunnelRoute >> ELSE << Blackhole >>

RoutesWithoutMetric(p) ==
  LET bh == [Blackhole EXCEPT !.Metric = 0]
  IN IF p.TunnelUp THEN << TunnelRoute, bh >> ELSE << bh >>

(* routesForTunnel: a terminal blackhole, and before it the tunnel.        *)
RoutesForTunnel(p) ==
  IF p.TunnelUp THEN << TunnelRoute, Blackhole >> ELSE << Blackhole >>

(* The WireGuardSpec of an interface.                                      *)
WGSpec(p, iface) ==
  LET c == IF iface = TunnelIface THEN p.WireGuard ELSE p.InboundWireGuard
  IN [cfg     |-> c,
      Managed |-> c.PrivateKey # "",
      Up      |-> IF iface = TunnelIface THEN p.TunnelUp
                                         ELSE c.PrivateKey # ""]
=============================================================================
