------------------------- MODULE ConvergenceProofs -------------------------
(***************************************************************************)
(* What a successful apply has achieved, for every set of addresses,       *)
(* policies, processes and faults: the kernel does what the policy says,   *)
(* and applying the policy again neither counts nor makes a change.        *)
(***************************************************************************)
EXTENDS FailClosedProofs

(* "ip route flush table 100" may fail unnoticed.  That leaves a tunnel    *)
(* route in the table of a policy without tunnel, unless wg-exit is gotun's *)
(* and has been set down before.                                           *)
FlushSafe ==
  "table flush" \in Fallible =>
    \A p \in Policies : Validate(p) => p.TunnelUp \/ p.WireGuard.PrivateKey # ""

(* The AllowedIPs of wg-exit become routes of main, and stay there when    *)
(* another policy is applied: they are tunnelled under every policy (run   *)
(* full_tunnel has one where they are not).                                *)
CarriesTunnelled ==
  \A p, q \in Policies :
    (Validate(p) /\ Validate(q)) =>
      \A c \in q.WireGuard.Peer.AllowedIPs : c \subseteq Tunnelled(p)

(* nft lists what the policies want in the form it is compared with: no    *)
(* single addresses, and the reference to home_nets, which only a policy   *)
(* with clients has, as an object (run listing_forms lacks both).          *)
Listable ==
  /\ \/ SetReference = "object"
     \/ \A p \in Policies : Validate(p) => p.InboundWireGuard.PrivateKey = ""
  /\ \A p \in Policies : Validate(p) => /\ p.DirectPrefixes \cap Hosts = {}
                                       /\ \A c \in p.LANs : ~IsHost(c)

(* gotun never takes a wg-exit it manages down: "ip link set down" is run  *)
(* and counted on each apply (run repeat_down).                            *)
AlwaysUp == \A p \in Policies : Validate(p) => (p.WireGuard.PrivateKey # "" => p.TunnelUp)

(* wg-exit and wg-clients are not given one prefix by one policy: each     *)
(* apply could hand its route from the one to the other.                   *)
SeparateRoutes ==
  \A p \in Policies : Validate(p) =>
    p.WireGuard.Peer.AllowedIPs \cap p.InboundWireGuard.Peer.AllowedIPs = {}

(* wg set adds a peer but removes none, and what a policy leaves out of a  *)
(* peer stays as it was: the policies name one peer for an interface, and  *)
(* leave out the same of it.  An endpoint that is left out must not be     *)
(* learned from the peer either.                                           *)
EmptyPeer == [PublicKey |-> "", Endpoint |-> "",
              AllowedIPs |-> {}, PersistentKeepalive |-> 0]

SameGaps(peer, want) ==
  /\ peer.PublicKey = want.PublicKey
  /\ want.Endpoint = "" => peer.Endpoint = ""
  /\ want.AllowedIPs = {} => peer.AllowedIPs = {}
  /\ want.PersistentKeepalive = 0 => peer.PersistentKeepalive = 0

Manages(p, i) == Validate(p) /\ WGSpec(p, i).Managed

OnePeer ==
  \A i \in Ifaces : \A p, q \in { r \in Policies : Manages(r, i) } :
    LET P == WGSpec(p, i).cfg.Peer
        Q == WGSpec(q, i).cfg.Peer
    IN /\ SameGaps(P, Q)
       /\ P.PublicKey = "" => P = EmptyPeer
       /\ P.PublicKey # "" /\ "roam" \in Fallible => P.Endpoint # ""

-----------------------------------------------------------------------------
(* The inductive invariant, first what holds of every state.               *)

(* A table that marks nothing but what p tunnels, and one that says        *)
(* nothing but what p says.                                                *)
Excludes(rule, d) == rule.Comment \in {"exclude-lan", "exclude-endpoint"} /\ Matches(rule, d)

Unmarks(t, p) ==
  \A d \in Addr4 \ Tunnelled(p), i \in DOMAIN t.prerouting :
     t.prerouting[i].Comment = "mark-non-direct"
       => d \in t.ru_nets \/ \E j \in 1 .. (i - 1) : Excludes(t.prerouting[j], d)

Within(t, p) ==
  /\ t.ru_nets \subseteq p.DirectPrefixes
  /\ t.home_nets \subseteq p.LANs
  /\ \A i \in DOMAIN t.prerouting :
       /\ t.prerouting[i].Comment = "exclude-lan" => t.prerouting[i].DAddrs \subseteq p.LANs
       /\ t.prerouting[i].Comment = "exclude-endpoint"
            => t.prerouting[i].DAddrs \subseteq {{p.TunnelEndpoint}}

Extends(t, p) == Spares(t, p) /\ Unmarks(t, p) /\ Within(t, p)

Accepted == \A s \in Procs : phase[s] \notin {"idle", "clear"} => Validate(pol[s])

TableInv ==
  /\ Accepted
  /\ SameFirewall => \A q \in Policies : Validate(q) => Extends(nft, q)
  /\ KnownFirewall => TableShape
  /\ rules \subseteq ForeignRules \cup {OwnedRule}

(* The routes of main through wg-exit are AllowedIPs of its peer.          *)
Carried(c) == \E q \in Policies : Validate(q) /\ c \in q.WireGuard.Peer.AllowedIPs

CarriedInv == \A r \in main : r.Dev = TunnelIface => Carried(r.Dst)

(* There are routes only through a link that is up.                        *)
LinkInv ==
  /\ \A r \in main : r.Dev \in Ifaces => link[r.Dev] = "up"
  /\ TunnelRoute \in t100 => link[TunnelIface] = "up"

(* A process works on an interface only if its policy manages it, and does *)
(* what the policy wants of it.                                            *)
DownLabels == {"route del", "link down"}
SetLabels  == {"wg key", "wg peer", "addr replace", "link up", "route replace"}
UpLabels   == SetLabels \cup {"wg dump", "addr show"}

ModeInv ==
  \A s \in Procs :
    /\ pc[s] \in WGLabels \ {"link show"} => WGWant(s).Managed
    /\ pc[s] \in DownLabels => ~WGWant(s).Up
    /\ pc[s] \in UpLabels => WGWant(s).Up
    /\ pc[s] = "wg peer" => WGWant(s).cfg.Peer.PublicKey # ""
    /\ pc[s] \in {"addr show", "addr replace"} => WGWant(s).cfg.Address # ""
    /\ pc[s] = "route replace" => todo[s] \subseteq WGWant(s).cfg.Peer.AllowedIPs

(* An apply that is not interfered with runs alone, and what is stable     *)
(* lasts until the next command.                                           *)
Undisturbed(s) == pc[s] # "idle" /\ run[s] # "disturbed"

SoleInv ==
  /\ \A s \in Procs : Undisturbed(s) =>
       phase[s] # "clear" /\ \A t \in Procs \ {s} : pc[t] = "idle"
  /\ stable # {} => \A s \in Procs : pc[s] = "idle"

-----------------------------------------------------------------------------
(* Then what an undisturbed apply has done so far.                         *)
Forwarding == \A j \in 1 .. 3 : sysctl[SysctlSpecs[j]] = "1"

Isolates(t, p) ==
  p.InboundWireGuard.PrivateKey # "" =>
    /\ HasComment(t.forward, "isolate-inbound-from-home")
    /\ \A d \in LANAddrs(p) : \E c \in t.home_nets : d \in c

Filters(t, p) ==
  HasComment(t.prerouting, "drop-ipv6") /\ Serves(t, p) /\ Unmarks(t, p) /\ Isolates(t, p)

Routed(p) == OwnedRule \in rules /\ t100 = RangeOf(RoutesForTunnel(p))

Returned(s, ph) == phase[s] = ph /\ pc[s] = "return" /\ res[s] = "ok"

PastExit(s) == phase[s] \in {ClientsIface, "routing"} \/ Returned(s, TunnelIface)

Progress(s) ==
  /\ \A j \in 1 .. 3 : (phase[s] # "sysctl" \/ Returned(s, "sysctl") \/ j < n[s])
                         => sysctl[SysctlSpecs[j]] = "1"
  /\ PastNft(s) => Filters(nft, pol[s])
  /\ PastExit(s) /\ pol[s].WireGuard.PrivateKey # "" /\ ~pol[s].TunnelUp
       => link[TunnelIface] = "down"
  /\ AtTable(s) => OwnedRule \in rules
  /\ pc[s] = "table add" => IF pol[s].TunnelUp THEN n[s] = 2 => TunnelRoute \in t100
                                               ELSE TunnelRoute \notin t100
  /\ Done(s) => Routed(pol[s])

ProgressInv ==
  /\ \A s \in Procs : Undisturbed(s) => Progress(s)
  /\ \A p \in stable : Validate(p) /\ Forwarding /\ Filters(nft, p) /\ Routed(p)

ConvergedInv ==
  TableInv /\ CarriedInv /\ LinkInv /\ ModeInv /\ SoleInv /\ ProgressInv

-----------------------------------------------------------------------------
(* What a repeated apply finds: a device that passes for the wanted one,   *)
(* or one that "set" commands make no different.                           *)
KeySet(dev, cfg) ==
  /\ dev.PrivateKey = cfg.PrivateKey
  /\ cfg.ListenPort > 0 => dev.ListenPort = cfg.ListenPort

PeerSet(dev, cfg) == cfg.Peer.PublicKey # "" => WGSetPeer(dev.Peers, cfg.Peer) = dev.Peers

AddressSet(dev, cfg) == cfg.Address # "" => cfg.Address \in dev.Addresses

RoutesSet(ps, i) == \A c \in ps : MainReplace(c, i) = main

Matched(cfg, i) == DumpMatches(wg[i], cfg) /\ AddressSet(wg[i], cfg)

Rewritten(cfg, i) ==
  /\ KeySet(wg[i], cfg) /\ PeerSet(wg[i], cfg) /\ AddressSet(wg[i], cfg)
  /\ RoutesSet(cfg.Peer.AllowedIPs, i)

FixedDevice(p, i) ==
  LET spec == WGSpec(p, i)
  IN spec.Managed =>
       IF spec.Up THEN link[i] = "up" /\ (Matched(spec.cfg, i) \/ Rewritten(spec.cfg, i))
                  ELSE link[i] = "down"

Listed(p) == nft.exists /\ SemanticMatch(nft, NftSpec(p))

Fixed(p) == Forwarding /\ Listed(p) /\ (\A i \in Ifaces : FixedDevice(p, i)) /\ Routed(p)

(* How far wireguard.Reconcile has come with its interface.                *)
DeviceAt(s, i) ==
  LET dev == wg[i]
      cfg == WGWant(s).cfg
  IN /\ pc[s] \in {"wg dump", "addr show", "route replace"} => link[i] = "up"
     /\ pc[s] = "addr show" => DumpMatches(dev, cfg)
     /\ pc[s] \in SetLabels \ {"wg key"} => KeySet(dev, cfg)
     /\ pc[s] \in {"addr replace", "link up", "route replace"} => PeerSet(dev, cfg)
     /\ pc[s] \in {"link up", "route replace"} => AddressSet(dev, cfg)
     /\ pc[s] = "route replace" => RoutesSet(cfg.Peer.AllowedIPs \ todo[s], i)

PastIface(s, i) ==
  phase[s] = "routing" \/ Returned(s, i) \/ (i = TunnelIface /\ phase[s] = ClientsIface)

Settling(s) ==
  /\ PastNft(s) => Listed(pol[s])
  /\ \A i \in Ifaces : PastIface(s, i) => FixedDevice(pol[s], i)
  /\ \A i \in Ifaces : phase[s] = i => DeviceAt(s, i)

(* Where a repeated apply may be: it reads, or writes what is there.       *)
Readers == {"sysctl read", "nft list", "link show", "wg dump", "addr show",
            "rule show", "table show", "return"}

Repeating(s) == pc[s] # "idle" /\ run[s] = "repeat"

RepeatAt(s) ==
  /\ pc[s] \in Readers \cup DownLabels \cup SetLabels
  /\ Fixed(pol[s])
  /\ pc[s] \in DownLabels => link[phase[s]] = "down"
  /\ pc[s] \in SetLabels => link[phase[s]] = "up" /\ Rewritten(WGWant(s).cfg, phase[s])

FixedInv ==
  /\ \A s \in Procs : Undisturbed(s) => Settling(s)
  /\ \A p \in stable : Fixed(p)
  /\ \A s \in Procs : Repeating(s) => RepeatAt(s)

(* An interface has no peer but the one of the policies, and a repeated    *)
(* apply does nothing but read.                                            *)
PeersOf(i) == { WGSpec(q, i).cfg.Peer : q \in { r \in Policies : Manages(r, i) } }

PeersInv ==
  \A i \in Ifaces :
    \/ wg[i].Peers = << >>
    \/ /\ Len(wg[i].Peers) = 1
       /\ \E want \in PeersOf(i) : want.PublicKey # "" /\ SameGaps(wg[i].Peers[1], want)

ReadOnlyInv ==
  \A s \in Procs : Repeating(s) => ~changes[s] /\ pc[s] \in Readers
-----------------------------------------------------------------------------
(* Tables.                                                                 *)

(* Every rule rendered for a policy, by its place.                         *)
LEMMA RenderedRules ==
  ASSUME NEW p \in Policies
  PROVE  LET r == PreroutingRules(p)
         IN /\ r[1].Comment = "drop-ipv6" /\ r[2].Comment = "exclude-lan"
            /\ r[3].Comment = "exclude-endpoint" /\ r[4].Comment = "mark-non-direct"
            /\ r[2].DAddrs = p.LANs /\ r[3].DAddrs = {{p.TunnelEndpoint}}
BY DEF PreroutingRules, Rule

(* The transaction leaves a table that marks nothing but what is tunnelled *)
(* if it extends one: its own exclusions come before its mark rule.        *)
LEMMA BatchUnmarks ==
  ASSUME NEW t \in NftTable, NEW p \in Policies, NEW q \in Policies, Unmarks(t, q),
         p.DirectPrefixes = q.DirectPrefixes, p.LANs = q.LANs,
         p.TunnelEndpoint = q.TunnelEndpoint
  PROVE  Unmarks(NftBatch(t, NftSpec(p)), q)
<1> DEFINE r == PreroutingRules(p)
           b == NftBatch(t, NftSpec(p))
           k == Len(t.prerouting)
<1>1. /\ k \in Nat /\ DOMAIN t.prerouting = 1 .. k
      /\ b.ru_nets = t.ru_nets \cup p.DirectPrefixes
      /\ DOMAIN b.prerouting = 1 .. k + 4
      /\ \A i \in 1 .. k + 4 :
           b.prerouting[i] = IF i <= k THEN t.prerouting[i] ELSE r[i - k]
  BY BatchRules
<1>2. /\ r[1].Comment = "drop-ipv6" /\ r[2].Comment = "exclude-lan"
      /\ r[3].Comment = "exclude-endpoint" /\ r[4].Comment = "mark-non-direct"
      /\ r[2].DAddrs = p.LANs /\ r[3].DAddrs = {{p.TunnelEndpoint}}
  BY RenderedRules
<1> HIDE DEF r, b, k
<1> SUFFICES ASSUME NEW d \in Addr4 \ Tunnelled(q), NEW i \in DOMAIN b.prerouting,
                    b.prerouting[i].Comment = "mark-non-direct", d \notin b.ru_nets
             PROVE  \E j \in 1 .. (i - 1) : Excludes(b.prerouting[j], d)
  BY DEF Unmarks, b
<1>3. CASE i <= k
  <2>1. i \in DOMAIN t.prerouting /\ b.prerouting[i] = t.prerouting[i] /\ d \notin t.ru_nets
    BY <1>1, <1>3
  <2>2. PICK j \in 1 .. (i - 1) : Excludes(t.prerouting[j], d)
    BY <2>1 DEF Unmarks
  <2>3. b.prerouting[j] = t.prerouting[j]
    BY <1>1, <1>3
  <2> QED BY <2>2, <2>3
<1>4. CASE ~(i <= k)
  <2>1. i - k \in 1 .. 4 /\ b.prerouting[i] = r[i - k]
    BY <1>1, <1>4
  <2>2. i - k = 4
    <3>1. \A m \in 1 .. 4 : m = 1 \/ m = 2 \/ m = 3 \/ m = 4
      OBVIOUS
    <3> QED BY <1>2, <2>1, <3>1
  <2>3. /\ k + 2 \in 1 .. (i - 1) /\ b.prerouting[k + 2] = r[2]
        /\ k + 3 \in 1 .. (i - 1) /\ b.prerouting[k + 3] = r[3]
    <3>1. /\ k + 2 \in 1 .. k + 4 /\ ~(k + 2 <= k) /\ k + 2 - k = 2
          /\ k + 3 \in 1 .. k + 4 /\ ~(k + 3 <= k) /\ k + 3 - k = 3
          /\ k + 2 \in 1 .. (i - 1) /\ k + 3 \in 1 .. (i - 1)
      BY <1>1, <2>2
    <3> QED BY <1>1, <3>1
  <2>4. d \in UNION p.LANs \/ d = p.TunnelEndpoint
    BY <1>1 DEF Tunnelled, LANAddrs
  <2>5. Matches(r[2], d) \/ Matches(r[3], d)
    BY <1>2, <2>4 DEF Matches
  <2> QED BY <1>2, <2>3, <2>5 DEF Excludes
<1> QED BY <1>3, <1>4

(* It says nothing but what its policy says, if the table before does.     *)
LEMMA BatchWithin ==
  ASSUME NEW t \in NftTable, NEW p \in Policies, NEW q \in Policies, Within(t, q),
         p.DirectPrefixes = q.DirectPrefixes, p.LANs = q.LANs,
         p.TunnelEndpoint = q.TunnelEndpoint
  PROVE  Within(NftBatch(t, NftSpec(p)), q)
<1> DEFINE r == PreroutingRules(p)
           b == NftBatch(t, NftSpec(p))
           k == Len(t.prerouting)
<1>1. /\ k \in Nat /\ DOMAIN t.prerouting = 1 .. k
      /\ b.ru_nets = t.ru_nets \cup p.DirectPrefixes
      /\ DOMAIN b.prerouting = 1 .. k + 4
      /\ \A i \in 1 .. k + 4 :
           b.prerouting[i] = IF i <= k THEN t.prerouting[i] ELSE r[i - k]
  BY BatchRules
<1>2. /\ r[1].Comment = "drop-ipv6" /\ r[2].Comment = "exclude-lan"
      /\ r[3].Comment = "exclude-endpoint" /\ r[4].Comment = "mark-non-direct"
      /\ r[2].DAddrs = p.LANs /\ r[3].DAddrs = {{p.TunnelEndpoint}}
  BY RenderedRules
<1>3. b.home_nets \subseteq t.home_nets \cup p.LANs
  BY DEF NftBatch, NftSpec
<1> HIDE DEF r, b, k
<1>4. ASSUME NEW i \in DOMAIN b.prerouting
      PROVE  /\ b.prerouting[i].Comment = "exclude-lan"
                  => b.prerouting[i].DAddrs \subseteq q.LANs
             /\ b.prerouting[i].Comment = "exclude-endpoint"
                  => b.prerouting[i].DAddrs \subseteq {{q.TunnelEndpoint}}
  <2>1. CASE i <= k
    <3>1. i \in DOMAIN t.prerouting /\ b.prerouting[i] = t.prerouting[i]
      BY <1>1, <2>1
    <3> QED BY <3>1 DEF Within
  <2>2. CASE ~(i <= k)
    <3>1. i - k \in 1 .. 4 /\ b.prerouting[i] = r[i - k]
      BY <1>1, <2>2
    <3>2. \A m \in 1 .. 4 : m = 1 \/ m = 2 \/ m = 3 \/ m = 4
      OBVIOUS
    <3> QED BY <1>2, <3>1, <3>2
  <2> QED BY <2>1, <2>2
<1> QED BY <1>1, <1>3, <1>4 DEF Within, b

(* There is nothing to say against no table.                               *)
LEMMA NoTableExtends == ASSUME NEW p PROVE Extends(NoTable, p)
<1>1. NoTable.prerouting = << >> /\ NoTable.ru_nets = {} /\ NoTable.home_nets = {}
  BY DEF NoTable
<1>2. DOMAIN NoTable.prerouting = {}
  BY <1>1
<1>3. Unmarks(NoTable, p) /\ Within(NoTable, p)
  BY <1>1, <1>2 DEF Unmarks, Within
<1> QED BY <1>3, NoTableSpares DEF Extends

(* The rule a chain of one rule adds.                                      *)
LEMMA LastAppended ==
  ASSUME NEW S, NEW x \in Seq(S), NEW e \in S
  PROVE  /\ Len(x) + 1 \in DOMAIN (x \o << e >>)
         /\ (x \o << e >>)[Len(x) + 1] = e
<1> DEFINE y == << e >>
<1>1. y \in Seq(S) /\ Len(y) = 1 /\ y[1] = e
  OBVIOUS
<1> HIDE DEF y
<1>2. /\ x \o y \in Seq(S) /\ Len(x \o y) = Len(x) + Len(y)
      /\ \A i \in 1 .. Len(x) + Len(y) :
           (x \o y)[i] = IF i <= Len(x) THEN x[i] ELSE y[i - Len(x)]
  BY <1>1, ConcatProperties
<1>3. Len(x) \in Nat
  OBVIOUS
<1> QED BY <1>1, <1>2, <1>3 DEF y

(* What the transaction leaves filters as the policy says.                 *)
LEMMA BatchFilters ==
  ASSUME NEW t \in NftTable, NEW p \in Policies, Extends(t, p)
  PROVE  Filters(NftBatch(t, NftSpec(p)), p)
<1> DEFINE r == PreroutingRules(p)
           b == NftBatch(t, NftSpec(p))
           k == Len(t.prerouting)
<1>1. /\ k \in Nat /\ DOMAIN b.prerouting = 1 .. k + 4
      /\ \A i \in 1 .. k + 4 :
           b.prerouting[i] = IF i <= k THEN t.prerouting[i] ELSE r[i - k]
  BY BatchRules
<1>2. r[1].Comment = "drop-ipv6"
  BY RenderedRules
<1>3. Serves(b, p) /\ Unmarks(b, p)
  BY BatchServes, BatchUnmarks DEF Extends
<1>4. ASSUME p.InboundWireGuard.PrivateKey # "" PROVE Isolates(b, p)
  <2> DEFINE e == Rule("isolate-inbound-from-home", {})
  <2>1. b.forward = t.forward \o << e >> /\ b.home_nets = t.home_nets \cup p.LANs
    BY <1>4 DEF NftBatch, NftSpec
  <2>2. /\ t.forward \in Seq(NftRule) /\ e \in NftRule
        /\ e.Comment = "isolate-inbound-from-home"
    BY DEF NftTable, NftRule, Rule
  <2> HIDE DEF e, b
  <2>3. /\ Len(t.forward) + 1 \in DOMAIN b.forward
        /\ b.forward[Len(t.forward) + 1].Comment = "isolate-inbound-from-home"
    BY <2>1, <2>2, LastAppended
  <2>4. HasComment(b.forward, "isolate-inbound-from-home")
    BY <2>3 DEF HasComment
  <2> QED BY <2>1, <2>4 DEF Isolates, LANAddrs
<1>5. HasComment(b.prerouting, "drop-ipv6")
  <2>1. k + 1 \in 1 .. k + 4 /\ ~(k + 1 <= k) /\ k + 1 - k = 1
    BY <1>1
  <2> HIDE DEF r, b, k
  <2>2. k + 1 \in DOMAIN b.prerouting /\ b.prerouting[k + 1] = r[1]
    BY <1>1, <2>1
  <2> QED BY <1>2, <2>2, Zenon DEF HasComment
<1>6. Isolates(b, p)
  BY <1>4 DEF Isolates
<1> QED BY <1>3, <1>5, <1>6 DEF Filters

(* What nftables.Reconcile finds to match filters as the policy says.      *)
LEMMA MatchFilters ==
  ASSUME SameFirewall \/ KnownFirewall, TableInv, nft.exists,
         NEW p \in Policies, Validate(p), SemanticMatch(nft, NftSpec(p))
  PROVE  Filters(nft, p)
<1>1. HasMark(nft) /\ HasComment(nft.prerouting, "drop-ipv6")
  BY DEF SemanticMatch, LivePrerouting, HasMark
<1>2. Spares(nft, p) /\ Unmarks(nft, p)
  <2>1. CASE SameFirewall
    BY <2>1 DEF TableInv, Extends
  <2>2. CASE KnownFirewall
    <3>1. PICK q \in Policies : Validate(q) /\ nft = NftBatch(NoTable, NftSpec(q))
      BY <2>2, NoTableSpares DEF TableInv, TableShape, Compiled
    <3>2. /\ p.DirectPrefixes = q.DirectPrefixes /\ p.LANs = q.LANs
          /\ p.TunnelEndpoint = q.TunnelEndpoint
      BY <2>2, <3>1, MatchAgrees
    <3>3. Spares(NoTable, p) /\ Unmarks(NoTable, p)
      BY NoTableExtends DEF Extends
    <3>4. Serves(NftBatch(NoTable, NftSpec(q)), p) /\ Unmarks(NftBatch(NoTable, NftSpec(q)), p)
      BY <3>2, <3>3, BatchServes, BatchUnmarks, NoTableType
    <3> QED BY <3>1, <3>4 DEF Serves
  <2> QED BY <2>1, <2>2
<1>3. ASSUME p.InboundWireGuard.PrivateKey # ""
      PROVE  /\ HasComment(nft.forward, "isolate-inbound-from-home")
             /\ \A d \in LANAddrs(p) : \E c \in nft.home_nets : d \in c
  <2>1. NftSpec(p).home_nets = p.LANs /\ p.LANs # {}
    BY <1>3 DEF NftSpec, Validate
  <2>2. NftSpec(p).forward = << Rule("isolate-inbound-from-home", {}) >>
    BY <1>3 DEF NftSpec
  <2>3. NftSpec(p).forward # << >>
    BY <2>2
  <2>4. SetElements(nft.home_nets) = p.LANs /\ LiveForward(nft.forward)
    BY <2>1, <2>3 DEF SemanticMatch
  <2> QED BY <2>4 DEF LiveForward, SetElements, LANAddrs
<1> QED BY <1>1, <1>2, <1>3 DEF Filters, Serves, Isolates

(* What nft lists of the table a transaction leaves is what the policy     *)
(* wants, if the table before said nothing else.                           *)
LEMMA BatchMatches ==
  ASSUME Listable, NEW t \in NftTable, NEW p \in Policies, Validate(p), Extends(t, p),
         p.TunnelEndpoint \in Addr4
  PROVE  SemanticMatch(NftBatch(t, NftSpec(p)), NftSpec(p))
<1> DEFINE r == PreroutingRules(p)
           b == NftBatch(t, NftSpec(p))
           k == Len(t.prerouting)
<1>1. /\ k \in Nat /\ DOMAIN b.prerouting = 1 .. k + 4
      /\ \A i \in 1 .. k + 4 :
           b.prerouting[i] = IF i <= k THEN t.prerouting[i] ELSE r[i - k]
      /\ b.ru_nets = t.ru_nets \cup p.DirectPrefixes
  BY BatchRules
<1>2. /\ r[2].Comment = "exclude-lan" /\ r[3].Comment = "exclude-endpoint"
      /\ r[2].DAddrs = p.LANs /\ r[3].DAddrs = {{p.TunnelEndpoint}}
  BY RenderedRules
<1>3. Within(b, p) /\ Filters(b, p)
  BY BatchWithin, BatchFilters DEF Extends
<1>4. /\ NftSpec(p).ru_nets = p.DirectPrefixes
      /\ NftSpec(p).prerouting[2].DAddrs = p.LANs
      /\ NftSpec(p).prerouting[3].DAddrs = {{p.TunnelEndpoint}}
  BY RenderedRules DEF NftSpec
<1>5. /\ p.DirectPrefixes \cap Hosts = {} /\ \A c \in p.LANs : ~IsHost(c)
      /\ p.InboundWireGuard.PrivateKey # "" => SetNames = {"home_nets"}
      /\ IsHost({p.TunnelEndpoint})
  BY PolicyAssumption DEF Listable, SetNames, IsHost
<1>6. /\ NftSpec(p).home_nets # {} => b.home_nets = p.LANs /\ NftSpec(p).home_nets = p.LANs
      /\ NftSpec(p).forward # << >> => p.InboundWireGuard.PrivateKey # ""
  <2>1. b.home_nets = t.home_nets \cup NftSpec(p).home_nets
    BY DEF NftBatch
  <2>2. NftSpec(p).home_nets = IF p.InboundWireGuard.PrivateKey # "" THEN p.LANs ELSE {}
    BY DEF NftSpec
  <2>3. t.home_nets \subseteq p.LANs
    BY DEF Extends, Within
  <2> QED BY <2>1, <2>2, <2>3 DEF NftSpec
<1> HIDE DEF r, b, k
<1>7. SetElements({ {a} : a \in b.ru_nets }) = { {a} : a \in NftSpec(p).ru_nets }
  <2>1. b.ru_nets = p.DirectPrefixes
    BY <1>1 DEF Extends, Within
  <2> DEFINE E == { {a} : a \in p.DirectPrefixes }
  <2>2. \A c \in E : ~IsHost(c)
    BY <1>5 DEF IsHost
  <2> HIDE DEF E
  <2>3. SetElements(E) = E
    BY <2>2 DEF SetElements
  <2> QED BY <1>4, <2>1, <2>3, Zenon DEF E
<1>8. NftSpec(p).home_nets # {} => SetElements(b.home_nets) = NftSpec(p).home_nets
  BY <1>5, <1>6 DEF SetElements
<1>9. LivePrerouting(b.prerouting, NftSpec(p).prerouting)
  <2> DEFINE L(c) == { j \in DOMAIN b.prerouting : b.prerouting[j].Comment = c }
             U(c) == UNION { b.prerouting[i].DAddrs : i \in L(c) }
  <2>1. /\ k + 2 \in DOMAIN b.prerouting /\ b.prerouting[k + 2] = r[2]
        /\ k + 3 \in DOMAIN b.prerouting /\ b.prerouting[k + 3] = r[3]
    <3>1. /\ k + 2 \in 1 .. k + 4 /\ ~(k + 2 <= k) /\ k + 2 - k = 2
          /\ k + 3 \in 1 .. k + 4 /\ ~(k + 3 <= k) /\ k + 3 - k = 3
      BY <1>1
    <3> QED BY <1>1, <3>1
  <2>2. U("exclude-lan") = p.LANs
    <3>1. U("exclude-lan") \subseteq p.LANs
      BY <1>3 DEF Within
    <3>2. k + 2 \in L("exclude-lan") /\ b.prerouting[k + 2].DAddrs = p.LANs
      BY <1>2, <2>1
    <3> HIDE DEF L
    <3>3. p.LANs \subseteq U("exclude-lan")
      BY <3>2
    <3> QED BY <3>1, <3>3
  <2>3. U("exclude-endpoint") = {{p.TunnelEndpoint}}
    <3>1. U("exclude-endpoint") \subseteq {{p.TunnelEndpoint}}
      BY <1>3 DEF Within
    <3>2. /\ k + 3 \in L("exclude-endpoint")
          /\ b.prerouting[k + 3].DAddrs = {{p.TunnelEndpoint}}
      BY <1>2, <2>1
    <3> HIDE DEF L
    <3>3. {{p.TunnelEndpoint}} \subseteq U("exclude-endpoint")
      BY <3>2
    <3> QED BY <3>1, <3>3
  <2>4. \A c : DAddrsFor(b.prerouting, c) = { DAddr(d) : d \in U(c) }
    BY DEF DAddrsFor
  <2> HIDE DEF L, U
  <2>5. DAddrsFor(b.prerouting, "exclude-lan") = {"prefix"} \X p.LANs
    <3>1. \A c \in p.LANs : DAddr(c) = << "prefix", c >>
      BY <1>5 DEF DAddr
    <3>2. { DAddr(d) : d \in p.LANs } = { << "prefix", d >> : d \in p.LANs }
      BY <3>1
    <3>3. { << "prefix", d >> : d \in p.LANs } = {"prefix"} \X p.LANs
      OBVIOUS
    <3> QED BY <2>2, <2>4, <3>2, <3>3
  <2>6. DAddrsFor(b.prerouting, "exclude-endpoint") = {"addr"} \X {{p.TunnelEndpoint}}
    <3> DEFINE e == {p.TunnelEndpoint}
    <3>1. DAddr(e) = << "addr", e >>
      BY <1>5 DEF DAddr
    <3> HIDE DEF e
    <3>2. { DAddr(d) : d \in {e} } = { << "addr", d >> : d \in {e} }
      BY <3>1
    <3>3. { << "addr", d >> : d \in {e} } = {"addr"} \X {e}
      OBVIOUS
    <3> QED BY <2>3, <2>4, <3>2, <3>3 DEF e
  <2>7. HasComment(b.prerouting, "drop-ipv6") /\ HasComment(b.prerouting, "mark-non-direct")
    BY <1>3 DEF Filters, Serves, HasMark
  <2> QED BY <1>4, <2>5, <2>6, <2>7 DEF LivePrerouting
<1>10. NftSpec(p).forward # << >> => LiveForward(b.forward)
  BY <1>3, <1>5, <1>6 DEF Filters, Isolates, LiveForward
<1> QED BY <1>7, <1>8, <1>9, <1>10 DEF SemanticMatch, b

(* The transaction extends a table that says nothing else.                 *)
LEMMA TransactionBase ==
  ASSUME SameFirewall \/ KnownFirewall, TypeInv, TableInv, NEW self \in Procs,
         pc[self] = "nft apply"
  PROVE  LET t == IF seen[self] THEN NoTable ELSE nft
         IN /\ t \in NftTable /\ Extends(t, pol[self])
            /\ KnownFirewall => t = NoTable
            /\ SameFirewall => \A q \in Policies : Validate(q) => Extends(t, q)
<1>1. /\ pol[self] \in Policies /\ nft \in NftTable /\ phase[self] = "nft"
      /\ seen[self] \in BOOLEAN
  BY DEF TypeInv, TypeOK, KernelTypeOK, RunnerTypeOK, Control, ControlAt, NftLabels
<1>2. Validate(pol[self])
  BY <1>1 DEF TableInv, Accepted
<1>3. ASSUME KnownFirewall, ~seen[self] PROVE nft = NoTable
  <2>1. \A q \in Policies : NftBatch(NoTable, NftSpec(q)).exists
    BY DEF NftBatch
  <2> QED BY <1>3, <2>1 DEF TableInv, TableShape, Compiled
<1>4. SameFirewall => \A q \in Policies : Validate(q) => Extends(nft, q)
  BY DEF TableInv
<1> QED BY <1>1, <1>2, <1>3, <1>4, NoTableExtends, NoTableType

-----------------------------------------------------------------------------
(* The table and the ip rules, whoever works on them.                      *)

(* What a step of self has to see to.                                      *)
LEMMA TableFrame ==
  ASSUME TableInv, NEW self \in Procs, OthersKept(self),
         phase'[self] \notin {"idle", "clear"} => Validate(pol'[self]),
         SameFirewall => \A q \in Policies : Validate(q) => Extends(nft', q),
         KnownFirewall => /\ nft' = NoTable \/ Compiled(nft')
                          /\ pc'[self] = "nft apply" => (seen'[self] <=> nft'.exists),
         rules' \subseteq ForeignRules \cup {OwnedRule}
  PROVE  TableInv'
<1>1. Accepted'
  BY DEF TableInv, Accepted, OthersKept
<1>2. ASSUME KnownFirewall PROVE TableShape'
  <2>1. \A s \in Procs : s = self
    BY <1>2 DEF KnownFirewall, OneProcess
  <2> QED BY <1>2, <2>1 DEF TableShape, Compiled
<1>3. SameFirewall => \A q \in Policies : Validate(q) => Extends(nft, q)'
  BY DEF Extends, Spares, Unmarks, Within
<1> QED BY <1>1, <1>2, <1>3 DEF TableInv

(* A step that leaves the table as it is.                                  *)
LEMMA TableKept ==
  ASSUME TableInv, NEW self \in Procs, OthersKept(self), nft' = nft,
         phase'[self] \notin {"idle", "clear"} => Validate(pol'[self]),
         KnownFirewall => (pc'[self] = "nft apply" => (seen'[self] <=> nft.exists)),
         rules' \subseteq ForeignRules \cup {OwnedRule}
  PROVE  TableInv'
<1>1. SameFirewall => \A q \in Policies : Validate(q) => Extends(nft', q)
  BY DEF TableInv
<1>2. KnownFirewall => nft' = NoTable \/ Compiled(nft')
  BY DEF TableInv, TableShape
<1> QED BY <1>1, <1>2, TableFrame

(* nftables.Reconcile.                                                     *)
LEMMA NftTableInv ==
  ASSUME SameFirewall \/ KnownFirewall, TypeInv, TableInv, NEW self \in Procs, NftNext(self)
  PROVE  TableInv'
<1>0. RunnerTypeOK /\ rules \subseteq ForeignRules \cup {OwnedRule} /\ Accepted
  BY DEF TypeInv, TypeOK, TableInv
<1>1. Shape(self, {"nft"}, NftLabels) /\ rules' = rules
  BY NftShape
<1>2. /\ OthersKept(self) /\ phase'[self] = "nft" /\ pol'[self] = pol[self]
      /\ pol[self] \in Policies /\ Validate(pol[self])
  BY <1>0, <1>1 DEF Shape, Accepted, RunnerTypeOK
<1>3. CASE NftList(self)
  <2>1. nft' = nft
    BY <1>3 DEF NftList
  <2>2. KnownFirewall => (pc'[self] = "nft apply" => (seen'[self] <=> nft.exists))
    BY <1>0, <1>3 DEF NftList, Return, Goto, Fault, KnownFirewall, RunnerTypeOK
  <2> QED BY <1>0, <1>1, <1>2, <2>1, <2>2, TableKept
<1>4. CASE NftApply(self)
  <2> DEFINE t == IF seen[self] THEN NoTable ELSE nft
             b == NftBatch(t, NftSpec(pol[self]))
  <2>1. pc[self] = "nft apply" /\ pc'[self] = "return" /\ (nft' = nft \/ nft' = b)
    BY <1>0, <1>4 DEF NftApply, At, Return, Goto, RunnerTypeOK
  <2>2. /\ t \in NftTable
        /\ KnownFirewall => t = NoTable
        /\ SameFirewall => \A q \in Policies : Validate(q) => Extends(t, q)
    BY <2>1, TransactionBase
  <2> HIDE DEF t
  <2>3. ASSUME SameFirewall, NEW q \in Policies, Validate(q) PROVE Extends(b, q)
    <3> DEFINE p == pol[self]
    <3>1. /\ p.DirectPrefixes = q.DirectPrefixes /\ p.LANs = q.LANs
          /\ p.TunnelEndpoint = q.TunnelEndpoint
      BY <1>2, <2>3 DEF SameFirewall
    <3>2. p \in Policies /\ Extends(t, q)
      BY <1>2, <2>2, <2>3
    <3> HIDE DEF p
    <3>3. /\ Serves(NftBatch(t, NftSpec(p)), q) /\ Unmarks(NftBatch(t, NftSpec(p)), q)
          /\ Within(NftBatch(t, NftSpec(p)), q)
      BY <2>2, <3>1, <3>2, BatchServes, BatchUnmarks, BatchWithin DEF Extends
    <3> QED BY <3>3 DEF Extends, Serves, p
  <2>4. KnownFirewall => Compiled(b)
    BY <1>2, <2>2 DEF Compiled
  <2> HIDE DEF b
  <2>5. CASE nft' = b
    BY <1>0, <1>1, <1>2, <2>1, <2>3, <2>4, <2>5, TableFrame
  <2>6. CASE nft' = nft
    BY <1>0, <1>1, <1>2, <2>1, <2>6, TableKept
  <2> QED BY <2>1, <2>5, <2>6
<1> QED BY <1>3, <1>4 DEF NftNext

(* No other command adds a rule, a set or an ip rule that is not owned.    *)
LEMMA TableStep ==
  ASSUME SameFirewall \/ KnownFirewall, TypeInv, TableInv, [Next]_vars
  PROVE  TableInv'
<1>0. RunnerTypeOK /\ rules \subseteq ForeignRules \cup {OwnedRule} /\ Accepted
  BY DEF TypeInv, TypeOK, TableInv
<1>1. CASE UNCHANGED vars
  BY <1>1 DEF vars, kernel, procVars, history, TableInv, Accepted, TableShape, Compiled,
              Extends, Spares, Unmarks, Within
<1>2. ASSUME NEW self \in Procs, SysctlNext(self) \/ WGNext(self) \/ RoutingNext(self)
      PROVE  TableInv'
  <2>1. /\ OthersKept(self) /\ phase' = phase /\ pol' = pol /\ nft' = nft
        /\ phase[self] \notin {"idle", "clear"} /\ pc'[self] # "nft apply"
    BY <1>2, SysctlShape, WGShape, RoutingShape
       DEF Shape, SysctlLabels, WGLabels, RoutingLabels, Ifaces, TunnelIface, ClientsIface
  <2>2. rules' \subseteq ForeignRules \cup {OwnedRule}
    <3>1. CASE SysctlNext(self) \/ WGNext(self)
      BY <1>0, <3>1, SysctlShape, WGShape
    <3>2. CASE RoutingNext(self)
      BY <1>0, <3>2 DEF RoutingNext, RuleShow, RuleDel, RuleAdd, TableShow, TableFlush,
                        TableAdd, DeleteRule
    <3> QED BY <1>2, <3>1, <3>2
  <2> QED BY <1>0, <2>1, <2>2, TableKept DEF Accepted
<1>3. ASSUME NEW self \in Procs, ClearStep(self) PROVE TableInv'
  <2>1. /\ OthersKept(self) /\ phase'[self] \in {"clear", "idle"}
        /\ pc'[self] # "nft apply" /\ nft' \in {nft, NoTable}
    BY <1>3, ClearShape DEF ClearLabels
  <2>2. rules' \subseteq ForeignRules \cup {OwnedRule}
    BY <1>0, <1>3 DEF ClearStep, ClearLink, ClearRule, ClearTable, ClearNft, DeleteRule
  <2>3. CASE nft' = nft
    BY <2>1, <2>2, <2>3, TableKept
  <2>4. CASE nft' = NoTable
    BY <2>1, <2>2, <2>4, TableFrame, NoTableExtends
  <2> QED BY <2>1, <2>3, <2>4
<1>4. ASSUME NEW self \in Procs,
             \/ NextSubsystem(self) \/ ReturnError(self) \/ ReturnOk(self)
             \/ StartClear(self) \/ \E p \in Policies : StartApply(self, p)
      PROVE  TableInv'
  <2>1. OthersKept(self) /\ UNCHANGED << nft, rules, seen >>
    BY <1>4, MoveShape
  <2>2. /\ phase'[self] \notin {"idle", "clear"} => Validate(pol'[self])
        /\ pc'[self] # "nft apply"
    <3>1. CASE NextSubsystem(self)
      <4>1. phase[self] \notin {"idle", "clear"} /\ pol' = pol /\ pc'[self] # "nft apply"
        BY <3>1, NextShape DEF Ifaces, TunnelIface, ClientsIface
      <4> QED BY <1>0, <4>1 DEF Accepted
    <3>2. CASE ReturnError(self) \/ ReturnOk(self)
      BY <3>2, EndShape
    <3>3. CASE StartClear(self)
      BY <1>0, <3>3 DEF StartClear, SetPhase, Goto, RunnerTypeOK
    <3>4. ASSUME NEW p \in Policies, StartApply(self, p)
          PROVE  /\ phase'[self] \notin {"idle", "clear"} => Validate(pol'[self])
                 /\ pc'[self] # "nft apply"
      BY <3>4, StartShape
    <3> QED BY <1>4, <3>1, <3>2, <3>3, <3>4
  <2> QED BY <1>0, <2>1, <2>2, TableKept
<1>5. ASSUME NEW self \in Procs, Kill(self) PROVE TableInv'
  <2>1. /\ OthersKept(self) /\ UNCHANGED << nft, rules >>
        /\ phase'[self] = "idle" /\ pc'[self] = "idle"
    BY <1>0, <1>5 DEF Kill, Idle, Goto, SetPhase, kernel, OthersKept, RunnerTypeOK
  <2> QED BY <1>0, <2>1, TableKept
<1>6. ASSUME NEW i \in Ifaces, LinkLost(i) \/ LinkForcedDown(i) \/ Roam(i) PROVE TableInv'
  <2>1. UNCHANGED << nft, rules, procVars >>
    BY <1>6 DEF LinkLost, LinkForcedDown, Roam
  <2> QED BY <2>1 DEF procVars, TableInv, Accepted, TableShape, Compiled,
                      Extends, Spares, Unmarks, Within
<1> QED BY <1>1, <1>2, <1>3, <1>4, <1>5, <1>6, NftTableInv DEF Next, Process, Command

-----------------------------------------------------------------------------
(* The routes of main and the links.                                       *)

(* Whether a process moves, or something outside it.                       *)
Outside == \E i \in Ifaces : LinkLost(i) \/ LinkForcedDown(i) \/ Roam(i)

Work(s) == SysctlNext(s) \/ NftNext(s) \/ WGNext(s) \/ RoutingNext(s)

Move(s) ==
  \/ NextSubsystem(s) \/ ReturnError(s) \/ ReturnOk(s)
  \/ StartClear(s) \/ \E p \in Policies : StartApply(s, p)

(* Every step is one of these.                                             *)
LEMMA StepKinds ==
  ASSUME [Next]_vars
  PROVE  \/ UNCHANGED vars
         \/ Outside
         \/ \E s \in Procs : \/ Work(s) /\ ObserveCommand(s)
                             \/ ClearStep(s) /\ ObserveCommand(s)
                             \/ Move(s) \/ Kill(s)
BY DEF Next, Process, Command, Outside, Work, Move

(* What the subsystems other than wireguard leave alone.                   *)
LEMMA WorkKeeps ==
  ASSUME NEW s \in Procs, SysctlNext(s) \/ NftNext(s) \/ RoutingNext(s)
  PROVE  UNCHANGED << link, wg, main, todo >>
BY DEF SysctlNext, SysctlRead, SysctlEcho, SysctlWrite, SysctlReread, sysctlFrame,
   NftNext, NftList, NftApply, nftFrame, RoutingNext, RuleShow, RuleDel, RuleAdd,
   TableShow, TableFlush, TableAdd, routingFrame

(* Who moves between the subsystems, or is killed, touches no kernel       *)
(* object, and nobody else.                                                *)
LEMMA MoveKeeps ==
  ASSUME TypeInv, NEW s \in Procs, Move(s) \/ Kill(s)
  PROVE  /\ OthersKept(s) /\ UNCHANGED << kernel, todo >>
         /\ pc'[s] \in {"idle", "sysctl read", "nft list", "link show", "rule show",
                        "clear wg-exit"}
<1>0. RunnerTypeOK
  BY DEF TypeInv, TypeOK
<1>1. UNCHANGED << kernel, todo >>
  BY DEF Move, NextSubsystem, ReturnError, ReturnOk, StartClear, StartApply, Kill
<1>2. CASE Kill(s)
  BY <1>0, <1>1, <1>2 DEF Kill, Idle, Goto, SetPhase, OthersKept, RunnerTypeOK
<1>3. CASE Move(s)
  <2>1. OthersKept(s)
    BY <1>3, MoveShape DEF Move
  <2>2. CASE StartClear(s)
    BY <1>0, <1>1, <2>1, <2>2 DEF StartClear, Goto, RunnerTypeOK
  <2> QED BY <1>1, <1>3, <2>1, <2>2, NextShape, EndShape, StartShape DEF Move
<1> QED BY <1>2, <1>3

(* What one step of wireguard.Reconcile may do to links and routes.        *)
LEMMA WGKeeps ==
  ASSUME TypeInv, NEW s \in Procs, WGNext(s)
  PROVE  LET i == phase[s]
         IN /\ OthersKept(s) /\ i \in Ifaces /\ phase' = phase /\ pol' = pol
            /\ \A t \in Procs \ {s} : todo'[t] = todo[t]
            /\ \/ UNCHANGED << link, t100 >> /\ main' \subseteq main
               \/ /\ UNCHANGED << main, t100 >> /\ link[i] = "absent"
                  /\ link' = [link EXCEPT ![i] = "down"]
               \/ LinkDown(i)
               \/ UNCHANGED << main, t100 >> /\ link' = [link EXCEPT ![i] = "up"]
               \/ /\ UNCHANGED << link, t100 >> /\ link[i] = "up" /\ pc[s] = "route replace"
                  /\ \E p \in todo[s] : main' = MainReplace(p, i)
<1>0. RunnerTypeOK
  BY DEF TypeInv, TypeOK
<1>1. OthersKept(s) /\ phase[s] \in Ifaces /\ phase' = phase /\ pol' = pol
  BY WGShape DEF Shape
<1>2. \A t \in Procs \ {s} : todo'[t] = todo[t]
  BY <1>0 DEF WGNext, LinkShow, LinkAdd, RouteDel, SetLinkDown, Dump, AddrShow, SetKey,
     SetPeer, AddrReplace, SetCommand, SetLinkUp, RouteReplace, StartDown, NextPrefix,
     RunnerTypeOK
<1> DEFINE i == phase[s]
<1> HIDE DEF i
<1>3. \/ UNCHANGED << link, t100 >> /\ main' \subseteq main
      \/ /\ UNCHANGED << main, t100 >> /\ link[i] = "absent"
         /\ link' = [link EXCEPT ![i] = "down"]
      \/ LinkDown(i)
      \/ UNCHANGED << main, t100 >> /\ link' = [link EXCEPT ![i] = "up"]
      \/ /\ UNCHANGED << link, t100 >> /\ link[i] = "up" /\ pc[s] = "route replace"
         /\ \E p \in todo[s] : main' = MainReplace(p, i)
  BY DEF WGNext, LinkShow, LinkAdd, RouteDel, SetLinkDown, Dump, AddrShow, SetKey,
     SetPeer, AddrReplace, SetCommand, SetLinkUp, RouteReplace, At, i
<1> QED BY <1>1, <1>2, <1>3 DEF i

(* Replacing a route adds that one.                                        *)
LEMMA ReplacedRoute ==
  ASSUME NEW p, NEW i
  PROVE  \A r \in MainReplace(p, i) : r \in main \/ (r.Dst = p /\ r.Dev = i)
BY DEF MainReplace

(* wireguard.Reconcile gives wg-exit the routes of its peer, and no other  *)
(* command gives it a route.                                               *)
LEMMA CarriedStep ==
  ASSUME TypeInv, TableInv, ModeInv, CarriedInv, [Next]_vars
  PROVE  CarriedInv'
<1>0. RunnerTypeOK
  BY DEF TypeInv, TypeOK
<1>1. ASSUME main' \subseteq main PROVE CarriedInv'
  BY <1>1 DEF CarriedInv, Carried
<1>2. CASE UNCHANGED vars
  BY <1>1, <1>2 DEF vars, kernel
<1>3. CASE Outside
  BY <1>1, <1>3 DEF Outside, LinkLost, LinkForcedDown, Roam, LinkDel, LinkDown, DropRoutes
<1>4. ASSUME NEW s \in Procs, Move(s) \/ Kill(s) PROVE CarriedInv'
  BY <1>1, <1>4, MoveKeeps DEF kernel
<1>5. ASSUME NEW s \in Procs, ClearStep(s) PROVE CarriedInv'
  BY <1>1, <1>5 DEF ClearStep, ClearLink, ClearRule, ClearTable, ClearNft, LinkDel, DropRoutes
<1>6. ASSUME NEW s \in Procs, SysctlNext(s) \/ NftNext(s) \/ RoutingNext(s) PROVE CarriedInv'
  BY <1>1, <1>6, WorkKeeps
<1>7. ASSUME NEW s \in Procs, WGNext(s) PROVE CarriedInv'
  <2>1. /\ phase[s] \in Ifaces
        /\ \/ main' \subseteq main
           \/ /\ pc[s] = "route replace"
              /\ \E p \in todo[s] : main' = MainReplace(p, phase[s])
    BY <1>7, WGKeeps DEF LinkDown, DropRoutes
  <2>2. ASSUME pc[s] = "route replace", NEW p \in todo[s], main' = MainReplace(p, phase[s])
        PROVE  CarriedInv'
    <3>1. \A r \in MainReplace(p, phase[s]) : r \in main \/ (r.Dst = p /\ r.Dev = phase[s])
      BY ReplacedRoute
    <3>2. \A r \in main' : r \in main \/ (r.Dst = p /\ r.Dev = phase[s])
      BY <2>2, <3>1
    <3>3. ASSUME phase[s] = TunnelIface PROVE Carried(p)
      <4>1. pol[s] \in Policies /\ Validate(pol[s])
        BY <1>0, <3>3 DEF TableInv, Accepted, RunnerTypeOK, TunnelIface
      <4>2. WGWant(s).cfg.Peer.AllowedIPs = pol[s].WireGuard.Peer.AllowedIPs
        BY <3>3 DEF WGWant, WGSpec
      <4> QED BY <2>2, <4>1, <4>2 DEF ModeInv, Carried
    <3>4. \A r \in main' : r.Dev = TunnelIface => Carried(r.Dst)
      BY <3>2, <3>3 DEF CarriedInv
    <3> QED BY <3>4 DEF CarriedInv, Carried
  <2> QED BY <1>1, <2>1, <2>2
<1> QED BY <1>2, <1>3, <1>4, <1>5, <1>6, <1>7, StepKinds DEF Work

(* A link that goes down takes its routes along, and a route is given only *)
(* to a link that is up.                                                   *)
LEMMA LinkStep ==
  ASSUME TypeInv, LinkInv, [Next]_vars
  PROVE  LinkInv'
<1>0. RunnerTypeOK /\ KernelTypeOK
  BY DEF TypeInv, TypeOK
<1>1. ASSUME UNCHANGED link, main' \subseteq main, t100' \subseteq t100 PROVE LinkInv'
  BY <1>1 DEF LinkInv
<1>2. ASSUME NEW i \in Ifaces, LinkDown(i) \/ LinkDel(i) PROVE LinkInv'
  <2>1. /\ \A j \in Ifaces \ {i} : link'[j] = link[j]
        /\ main' = { r \in main : r.Dev # i } /\ t100' = { r \in t100 : r.Device # i }
    BY <1>0, <1>2 DEF LinkDown, LinkDel, DropRoutes, KernelTypeOK
  <2>2. TunnelRoute.Device = TunnelIface /\ TunnelIface \in Ifaces
    BY DEF TunnelRoute, Ifaces
  <2> QED BY <2>1, <2>2 DEF LinkInv
<1>3. CASE UNCHANGED vars
  BY <1>1, <1>3 DEF vars, kernel
<1>4. CASE Outside
  BY <1>1, <1>2, <1>4 DEF Outside, LinkLost, LinkForcedDown, Roam
<1>5. ASSUME NEW s \in Procs, Move(s) \/ Kill(s) PROVE LinkInv'
  <2>1. UNCHANGED << link, main, t100 >>
    BY <1>5, MoveKeeps DEF kernel
  <2> QED BY <1>1, <2>1
<1>6. ASSUME NEW s \in Procs, ClearStep(s) PROVE LinkInv'
  <2>1. \/ LinkDel(TunnelIface) \/ LinkDel(ClientsIface)
        \/ UNCHANGED << link, main >> /\ t100' \subseteq t100
    BY <1>6 DEF ClearStep, ClearLink, ClearRule, ClearTable, ClearNft
  <2> QED BY <1>1, <1>2, <2>1 DEF Ifaces
<1>7. ASSUME NEW s \in Procs, SysctlNext(s) \/ NftNext(s) PROVE LinkInv'
  <2>1. UNCHANGED << link, main, t100 >>
    BY <1>7, WorkKeeps, SysctlShape, NftShape
  <2> QED BY <1>1, <2>1
<1>8. ASSUME NEW s \in Procs, RoutingNext(s) PROVE LinkInv'
  <2>1. UNCHANGED << link, main >>
    BY <1>8, WorkKeeps
  <2>2. \/ t100' \subseteq t100
        \/ \E rt : RouteValid(rt) /\ t100' = { r \in t100 : r.Metric # rt.Metric } \cup {rt}
    BY <1>8 DEF RoutingNext, RuleShow, RuleDel, RuleAdd, TableShow, TableFlush, TableAdd, AddRoute
  <2>3. TunnelRoute.Device = TunnelIface /\ TunnelIface \in Ifaces
    BY DEF TunnelRoute, Ifaces
  <2> QED BY <1>1, <2>1, <2>2, <2>3 DEF LinkInv, RouteValid
<1>9. ASSUME NEW s \in Procs, WGNext(s) PROVE LinkInv'
  <2> DEFINE i == phase[s]
  <2>1. /\ i \in Ifaces
        /\ \/ UNCHANGED << link, t100 >> /\ main' \subseteq main
           \/ /\ UNCHANGED << main, t100 >> /\ link[i] = "absent"
              /\ link' = [link EXCEPT ![i] = "down"]
           \/ LinkDown(i)
           \/ UNCHANGED << main, t100 >> /\ link' = [link EXCEPT ![i] = "up"]
           \/ /\ UNCHANGED << link, t100 >> /\ link[i] = "up" /\ pc[s] = "route replace"
              /\ \E p \in todo[s] : main' = MainReplace(p, i)
    BY <1>9, WGKeeps
  <2> HIDE DEF i
  <2>2. CASE UNCHANGED << main, t100 >> /\ link' = [link EXCEPT ![i] = "up"]
    BY <1>0, <2>1, <2>2 DEF LinkInv, KernelTypeOK, Ifaces
  <2>3. CASE /\ UNCHANGED << main, t100 >> /\ link[i] = "absent"
             /\ link' = [link EXCEPT ![i] = "down"]
    BY <1>0, <2>1, <2>3 DEF LinkInv, KernelTypeOK, Ifaces
  <2>4. CASE /\ UNCHANGED << link, t100 >> /\ link[i] = "up"
             /\ \E p \in todo[s] : main' = MainReplace(p, i)
    <3>1. PICK p \in todo[s] : main' = MainReplace(p, i)
      BY <2>4
    <3>2. \A r \in main' : r \in main \/ r.Dev = i
      BY <3>1, ReplacedRoute
    <3> QED BY <2>4, <3>2 DEF LinkInv
  <2> QED BY <1>1, <1>2, <2>1, <2>2, <2>3, <2>4
<1> QED BY <1>3, <1>4, <1>5, <1>6, <1>7, <1>8, <1>9, StepKinds DEF Work

(* A process takes an interface up or down as its policy says.             *)
LEMMA ModeStep ==
  ASSUME TypeInv, ModeInv, [Next]_vars
  PROVE  ModeInv'
<1>0. RunnerTypeOK /\ Control
  BY DEF TypeInv, TypeOK
<1>1. ASSUME UNCHANGED << pc, pol, phase, todo >> PROVE ModeInv'
  BY <1>1 DEF ModeInv, WGWant
<1>2. CASE UNCHANGED vars
  BY <1>1, <1>2 DEF vars, procVars
<1>3. CASE Outside
  BY <1>1, <1>3 DEF Outside, LinkLost, LinkForcedDown, Roam, procVars
<1>4. ASSUME NEW s \in Procs, OthersKept(s), pc'[s] \notin WGLabels \ {"link show"},
             todo' = todo
      PROVE  ModeInv'
  <2>1. /\ pc'[s] \notin DownLabels /\ pc'[s] \notin UpLabels
        /\ pc'[s] \notin {"wg peer", "addr show", "addr replace", "route replace"}
    BY <1>4 DEF WGLabels, DownLabels, UpLabels, SetLabels
  <2> QED BY <1>4, <2>1 DEF ModeInv, WGWant, OthersKept
<1>5. ASSUME NEW s \in Procs, Move(s) \/ Kill(s) PROVE ModeInv'
  BY <1>4, <1>5, MoveKeeps DEF WGLabels
<1>6. ASSUME NEW s \in Procs, ClearStep(s) PROVE ModeInv'
  <2>1. todo' = todo
    BY <1>6 DEF ClearStep, ClearLink, ClearRule, ClearTable, ClearNft
  <2> QED BY <1>4, <1>6, <2>1, ClearShape DEF ClearLabels, WGLabels
<1>7. ASSUME NEW s \in Procs, SysctlNext(s) \/ NftNext(s) \/ RoutingNext(s) PROVE ModeInv'
  <2>1. OthersKept(s) /\ pc'[s] \notin WGLabels
    BY <1>7, SysctlShape, NftShape, RoutingShape
       DEF Shape, SysctlLabels, NftLabels, RoutingLabels, WGLabels
  <2> QED BY <1>4, <1>7, <2>1, WorkKeeps
<1>8. ASSUME NEW s \in Procs, WGNext(s) PROVE ModeInv'
  <2> DEFINE w == WGWant(s)
  <2>1. /\ OthersKept(s) /\ phase' = phase /\ pol' = pol
        /\ \A t \in Procs \ {s} : todo'[t] = todo[t]
    BY <1>8, WGKeeps
  <2>2. /\ pc[s] \in WGLabels \ {"link show"} => w.Managed
        /\ pc[s] \in DownLabels => ~w.Up
        /\ pc[s] \in UpLabels => w.Up
    BY DEF ModeInv
  <2>3. w.Up \in BOOLEAN /\ w.Managed \in BOOLEAN
    <3>1. pol[s] \in Policies
      BY <1>0 DEF RunnerTypeOK
    <3> QED BY <3>1, PolicyFields DEF WGWant, WGSpec
  <2> HIDE DEF w
  <2>4. \/ pc'[s] = "return"
        \/ w.Managed /\ w.Up /\ pc'[s] \in UpLabels
        \/ w.Managed /\ ~w.Up /\ pc'[s] \in DownLabels
        \/ w.Managed /\ pc'[s] = "link add"
    <3>1. CASE LinkShow(s)
      BY <1>0, <3>1 DEF LinkShow, StartDown, NextPrefix, Return, Goto, RunnerTypeOK, DownLabels,
                        UpLabels, SetLabels, w
    <3>2. CASE LinkAdd(s)
      BY <1>0, <2>2, <3>2 DEF LinkAdd, StartDown, NextPrefix, Return, Goto, At, RunnerTypeOK,
                              DownLabels, UpLabels, SetLabels, WGLabels, w
    <3>3. CASE RouteDel(s) \/ SetLinkDown(s)
      BY <1>0, <2>2, <3>3 DEF RouteDel, SetLinkDown, NextPrefix, Return, Goto, At, RunnerTypeOK,
                              DownLabels, WGLabels
    <3>4. CASE Dump(s) \/ AddrShow(s) \/ SetLinkUp(s) \/ RouteReplace(s)
      BY <1>0, <2>2, <3>4 DEF Dump, AddrShow, SetLinkUp, RouteReplace, Return, Goto, At,
                              RunnerTypeOK, UpLabels, SetLabels, WGLabels
    <3>5. CASE SetKey(s) \/ SetPeer(s) \/ AddrReplace(s)
      BY <1>0, <2>2, <3>5 DEF SetKey, SetPeer, AddrReplace, SetCommand, AfterKey, AfterPeer,
                              Return, Goto, At, RunnerTypeOK, UpLabels, SetLabels, WGLabels
    <3> QED BY <1>8, <3>1, <3>2, <3>3, <3>4, <3>5 DEF WGNext
  <2>5. /\ pc'[s] \in WGLabels \ {"link show"} => w.Managed
        /\ pc'[s] \in DownLabels => ~w.Up
        /\ pc'[s] \in UpLabels => w.Up
    BY <2>4 DEF WGLabels, DownLabels, UpLabels, SetLabels
  <2>6. /\ pc'[s] = "wg peer" => w.cfg.Peer.PublicKey # ""
        /\ pc'[s] \in {"addr show", "addr replace"} => w.cfg.Address # ""
    BY <1>0, <1>8 DEF WGNext, LinkShow, LinkAdd, RouteDel, SetLinkDown, Dump, AddrShow, SetKey,
       SetPeer, AddrReplace, SetCommand, SetLinkUp, RouteReplace, StartDown, NextPrefix,
       AfterKey, AfterPeer, Return, Goto, At, RunnerTypeOK, w
  <2>7. pc'[s] = "route replace" => todo'[s] \subseteq w.cfg.Peer.AllowedIPs
    <3>1. pc[s] = "route replace" => todo[s] \subseteq w.cfg.Peer.AllowedIPs
      BY DEF ModeInv, w
    <3> QED BY <1>0, <1>8, <3>1
            DEF WGNext, LinkShow, LinkAdd, RouteDel, SetLinkDown, Dump, AddrShow, SetKey,
            SetPeer, AddrReplace, SetCommand, SetLinkUp, RouteReplace, StartDown, NextPrefix,
            AfterKey, AfterPeer, Return, Goto, At, RunnerTypeOK, w
  <2>8. WGWant(s)' = w
    BY <1>0, <2>1 DEF WGWant, w
  <2>9. \A t \in Procs \ {s} : pc'[t] = pc[t] /\ WGWant(t)' = WGWant(t) /\ todo'[t] = todo[t]
    BY <2>1 DEF OthersKept, WGWant
  <2> QED BY <2>5, <2>6, <2>7, <2>8, <2>9 DEF ModeInv
<1> QED BY <1>2, <1>3, <1>5, <1>6, <1>7, <1>8, StepKinds DEF Work

-----------------------------------------------------------------------------
(* Who is undisturbed is alone.                                            *)

(* A command, or a move of a process that is busy, changes the run of no   *)
(* other process; whoever is undisturbed after it, is the one who moved.   *)
LEMMA WhoMoves ==
  ASSUME SoleInv, NEW self \in Procs, pc[self] # "idle", OthersKept(self),
         \A s \in Procs \ {self} : run'[s] = run[s],
         NEW s \in Procs, Undisturbed(s)'
  PROVE  s = self /\ stable = {}
BY DEF SoleInv, Undisturbed, OthersKept

(* The run of the process a command belongs to is what it was, or has met  *)
(* its first fault.                                                        *)
LEMMA RunKept ==
  ASSUME TypeOK, NEW self \in Procs, ObserveCommand(self)
  PROVE  /\ \A s \in Procs \ {self} : run'[s] = run[s]
         /\ run'[self] = run[self] \/ (run[self] = "repeat" /\ run'[self] = "alone")
         /\ run'[self] = "repeat" => run[self] = "repeat" /\ faults' = faults
         /\ stable' = stable
BY DEF TypeOK, ObserveCommand

(* No step leaves an undisturbed process with company.                     *)
LEMMA SoleStep ==
  ASSUME TypeInv, SoleInv, [Next]_vars
  PROVE  SoleInv'
<1>0. TypeOK /\ RunnerTypeOK /\ Control
  BY DEF TypeInv, TypeOK
<1>1. CASE UNCHANGED vars
  BY <1>1 DEF vars, procVars, history, SoleInv, Undisturbed
<1>2. ASSUME stable' = {}, run' = [s \in Procs |-> "disturbed"] PROVE SoleInv'
  BY <1>2 DEF SoleInv, Undisturbed
<1>3. CASE Outside \/ \E s \in Procs : Kill(s) \/ StartClear(s)
  BY <1>2, <1>3 DEF Outside, LinkLost, LinkForcedDown, Roam, Interfere, DisturbAll, Kill, StartClear
<1>4. ASSUME NEW self \in Procs, pc[self] # "idle", OthersKept(self),
             \A s \in Procs \ {self} : run'[s] = run[s],
             run'[self] # "disturbed" => run[self] # "disturbed",
             phase'[self] = "clear" => phase[self] = "clear", stable' = stable
      PROVE  SoleInv'
  <2>1. stable' = {}
    BY <1>4 DEF SoleInv
  <2>2. ASSUME NEW s \in Procs, Undisturbed(s)'
        PROVE  phase'[s] # "clear" /\ \A t \in Procs \ {s} : pc'[t] = "idle"
    <3>1. s = self /\ Undisturbed(self)
      BY <1>4, <2>2, WhoMoves DEF Undisturbed
    <3> QED BY <1>4, <3>1 DEF SoleInv, OthersKept
  <2> QED BY <2>1, <2>2 DEF SoleInv
<1>5. ASSUME NEW s \in Procs, Work(s) \/ ClearStep(s), ObserveCommand(s) PROVE SoleInv'
  <2>1. OthersKept(s) /\ (phase'[s] = "clear" => phase[s] = "clear")
    BY <1>5, SysctlShape, NftShape, WGShape, RoutingShape, ClearShape DEF Work, Shape
  <2>2. pc[s] # "idle"
    <3>1. phase[s] # "idle"
      BY <1>5, SysctlShape, NftShape, WGShape, RoutingShape, ClearShape
         DEF Work, Shape, Ifaces, TunnelIface, ClientsIface
    <3> QED BY <1>0, <3>1 DEF Control, ControlAt
  <2> QED BY <1>0, <1>4, <1>5, <2>1, <2>2, RunKept
<1>6. ASSUME NEW s \in Procs, NextSubsystem(s) \/ ReturnError(s) PROVE SoleInv'
  <2>1. OthersKept(s) /\ pc[s] = "return"
    BY <1>6, MoveShape DEF NextSubsystem, ReturnError, At
  <2>2. run' = run /\ stable' = stable
    BY <1>6 DEF NextSubsystem, ReturnError, history
  <2>3. phase'[s] # "clear"
    BY <1>6, NextShape, EndShape DEF TunnelIface, ClientsIface
  <2> QED BY <1>4, <2>1, <2>2, <2>3
<1>7. ASSUME NEW s \in Procs, ReturnOk(s) PROVE SoleInv'
  <2>1. OthersKept(s) /\ pc[s] = "return" /\ pc'[s] = "idle" /\ run' = run
    BY <1>7, MoveShape, EndShape DEF ReturnOk, At
  <2>2. \A t \in Procs : ~Undisturbed(t)'
    BY <2>1, WhoMoves DEF Undisturbed
  <2>3. ASSUME stable' # {} PROVE \A t \in Procs : pc'[t] = "idle"
    <3>1. Undisturbed(s)
      BY <1>7, <2>1, <2>3 DEF ReturnOk, Undisturbed
    <3> QED BY <2>1, <3>1 DEF SoleInv, OthersKept
  <2> QED BY <2>2, <2>3 DEF SoleInv
<1>8. ASSUME NEW s \in Procs, NEW p \in Policies, StartApply(s, p) PROVE SoleInv'
  <2>1. OthersKept(s) /\ pc[s] = "idle"
    BY <1>8, MoveShape DEF StartApply, At
  <2>2. CASE UNCHANGED << pc, phase, run, stable >>
    BY <2>2 DEF SoleInv, Undisturbed
  <2>3. CASE BeginRun(s, p) /\ stable' = {} /\ phase'[s] = "sysctl"
    BY <2>1, <2>3 DEF BeginRun, SoleInv, Undisturbed, OthersKept, At
  <2> QED BY <1>0, <1>8, <2>2, <2>3 DEF StartApply, SetPhase, Subsystems, RunnerTypeOK
<1> QED BY <1>1, <1>3, <1>5, <1>6, <1>7, <1>8, StepKinds DEF Move

-----------------------------------------------------------------------------
(* What an undisturbed apply achieves.                                     *)

(* sysctl.Reconcile goes from a key to the next when the key has its value. *)
LEMMA SysctlProgress ==
  ASSUME TypeInv, NEW self \in Procs, Progress(self), SysctlNext(self)
  PROVE  Progress(self)'
<1>0. RunnerTypeOK /\ KernelTypeOK /\ Control
  BY DEF TypeInv, TypeOK
<1>1. /\ phase[self] = "sysctl" /\ phase'[self] = "sysctl"
      /\ pc'[self] \in SysctlLabels \cup {"return"}
  BY SysctlShape DEF Shape
<1>2. pc[self] \in SysctlLabels
  BY DEF SysctlNext, SysctlRead, SysctlEcho, SysctlWrite, SysctlReread, At, SysctlLabels
<1>3. n[self] \in 1 .. 3 /\ \A j \in 1 .. 3 : j < n[self] => sysctl[SysctlSpecs[j]] = "1"
  BY <1>0, <1>2 DEF Control, ControlAt, Progress
<1>4. Len(SysctlSpecs) = 3 /\ \A j \in 1 .. 3 : SysctlSpecs[j] \in SysctlKeys
  BY DEF SysctlSpecs, SysctlKeys
<1>5. /\ sysctl' = sysctl \/ WriteKey(self)
      /\ \/ sysctl'[SysctlSpecs[n[self]]] = "1" /\ NextKey(self)
         \/ n'[self] = n[self] /\ ~Returned(self, "sysctl")'
  <2>1. WriteKey(self) => sysctl'[SysctlSpecs[n[self]]] = "1"
    BY <1>0, <1>3, <1>4 DEF WriteKey, KernelTypeOK
  <2>2. \A l : (Goto(self, l) /\ l # "return") => ~Returned(self, "sysctl")'
    BY <1>0 DEF Goto, Returned, RunnerTypeOK
  <2>3. Return(self, "error") => ~Returned(self, "sysctl")'
    BY <1>0 DEF Return, Returned, RunnerTypeOK
  <2>4. SysctlRead(self) =>
          \/ sysctl' = sysctl /\ Wanted(self) /\ NextKey(self)
          \/ sysctl' = sysctl /\ n' = n /\ Goto(self, "sysctl echo")
    BY DEF SysctlRead
  <2>5. SysctlEcho(self) \/ SysctlWrite(self) =>
          \/ WriteKey(self) /\ NextKey(self)
          \/ sysctl' = sysctl /\ n' = n /\ Goto(self, "sysctl write")
          \/ sysctl' = sysctl /\ n' = n /\ Goto(self, "sysctl reread")
    BY DEF SysctlEcho, SysctlWrite
  <2>6. SysctlReread(self) =>
          \/ sysctl' = sysctl /\ Wanted(self) /\ NextKey(self)
          \/ sysctl' = sysctl /\ n' = n /\ Return(self, "error")
    BY DEF SysctlReread
  <2> QED BY <2>1, <2>2, <2>3, <2>4, <2>5, <2>6 DEF SysctlNext, Wanted
<1>6. \A j \in 1 .. 3 : sysctl[SysctlSpecs[j]] = "1" => sysctl'[SysctlSpecs[j]] = "1"
  BY <1>0, <1>4, <1>5 DEF WriteKey, KernelTypeOK
<1>7. ASSUME NEW j \in 1 .. 3, Returned(self, "sysctl")' \/ j < n'[self]
      PROVE  sysctl'[SysctlSpecs[j]] = "1"
  <2>1. CASE sysctl'[SysctlSpecs[n[self]]] = "1" /\ NextKey(self)
    <3>1. n[self] = 3 \/ (n'[self] = n[self] + 1 /\ ~Returned(self, "sysctl")')
      <4>1. n[self] = 3 \/ (Goto(self, "sysctl read") /\ n' = [n EXCEPT ![self] = @ + 1])
        BY <1>4, <2>1 DEF NextKey
      <4> QED BY <1>0, <4>1 DEF Goto, Returned, RunnerTypeOK
    <3>2. j < n[self] \/ j = n[self]
      BY <1>3, <1>7, <3>1
    <3> QED BY <1>3, <1>6, <2>1, <3>2
  <2>2. CASE n'[self] = n[self] /\ ~Returned(self, "sysctl")'
    BY <1>3, <1>6, <1>7, <2>2
  <2> QED BY <1>5, <2>1, <2>2
<1>8. ~PastNft(self)' /\ ~PastExit(self)' /\ ~AtTable(self)' /\ ~Done(self)'
      /\ pc'[self] # "table add"
  BY <1>1 DEF PastNft, PastExit, Returned, AtTable, Done, SysctlLabels, Ifaces, TunnelIface,
              ClientsIface
<1> QED BY <1>1, <1>7, <1>8 DEF Progress

(* nftables.Reconcile returns with the policy in the live table.           *)
LEMMA NftProgress ==
  ASSUME SameFirewall \/ KnownFirewall, TypeInv, TableInv, NEW self \in Procs,
         Progress(self), NftNext(self)
  PROVE  Progress(self)'
<1>0. RunnerTypeOK
  BY DEF TypeInv, TypeOK
<1>1. /\ phase[self] = "nft" /\ phase'[self] = "nft" /\ pol' = pol
      /\ pc'[self] \in NftLabels \cup {"return"}
  BY NftShape DEF Shape
<1>2. sysctl' = sysctl /\ \A j \in 1 .. 3 : sysctl[SysctlSpecs[j]] = "1"
  BY <1>1 DEF NftNext, NftList, NftApply, nftFrame, Progress
<1>3. pol[self] \in Policies /\ Validate(pol[self])
  BY <1>0, <1>1 DEF RunnerTypeOK, TableInv, Accepted
<1>4. ASSUME Returned(self, "nft")' PROVE Filters(nft', pol[self])
  <2>1. pc'[self] = "return" /\ res'[self] = "ok"
    BY <1>4 DEF Returned
  <2>2. CASE NftList(self)
    <3>1. nft.exists /\ SemanticMatch(nft, NftSpec(pol[self])) /\ nft' = nft
      BY <1>0, <2>1, <2>2 DEF NftList, Goto, RunnerTypeOK
    <3> QED BY <1>3, <3>1, MatchFilters
  <2>3. CASE NftApply(self)
    <3> DEFINE t == IF seen[self] THEN NoTable ELSE nft
    <3>1. pc[self] = "nft apply" /\ nft' = NftBatch(t, NftSpec(pol[self]))
      BY <1>0, <2>1, <2>3 DEF NftApply, At, Return, RunnerTypeOK
    <3>2. t \in NftTable /\ Extends(t, pol[self])
      BY <3>1, TransactionBase
    <3> HIDE DEF t
    <3> QED BY <1>3, <3>1, <3>2, BatchFilters
  <2> QED BY <2>2, <2>3 DEF NftNext
<1>5. Filters(nft, pol[self])' <=> Filters(nft', pol[self])
  BY <1>1 DEF Filters, Serves, HasMark, Spares, Unmarks, Isolates
<1>6. PastNft(self)' => Filters(nft', pol[self])
  BY <1>1, <1>4 DEF PastNft, Returned, Ifaces, TunnelIface, ClientsIface
<1>7. ~PastExit(self)' /\ ~AtTable(self)' /\ ~Done(self)' /\ pc'[self] # "table add"
  BY <1>1 DEF PastExit, Returned, AtTable, Done, NftLabels, TunnelIface, ClientsIface
<1> QED BY <1>2, <1>5, <1>6, <1>7 DEF Progress

(* wireguard.Reconcile has wg-exit down if the policy wants it down.       *)
LEMMA WGProgress ==
  ASSUME TypeInv, ModeInv, NEW self \in Procs, Progress(self), WGNext(self)
  PROVE  Progress(self)'
<1>0. RunnerTypeOK /\ KernelTypeOK
  BY DEF TypeInv, TypeOK
<1>1. /\ phase[self] \in Ifaces /\ phase' = phase /\ pol' = pol
      /\ pc'[self] \in WGLabels \cup {"return"}
      /\ UNCHANGED << nft, rules >>
  BY WGShape DEF Shape
<1>2. sysctl' = sysctl
  BY DEF WGNext, LinkShow, LinkAdd, RouteDel, SetLinkDown, Dump, AddrShow, SetKey,
         SetPeer, AddrReplace, SetCommand, SetLinkUp, RouteReplace, wgFrame
<1>3. PastNft(self) /\ phase[self] # "sysctl"
  BY <1>1 DEF PastNft, Ifaces, TunnelIface, ClientsIface
<1>4. Filters(nft, pol[self])' <=> Filters(nft, pol[self])
  BY <1>1 DEF Filters, Serves, HasMark, Spares, Unmarks, Isolates
<1>5. ASSUME PastExit(self)', pol[self].WireGuard.PrivateKey # "", ~pol[self].TunnelUp
      PROVE  link'[TunnelIface] = "down"
  <2>1. CASE phase[self] = ClientsIface
    <3>1. link[TunnelIface] = "down"
      BY <1>5, <2>1 DEF Progress, PastExit
    <3>2. link'[TunnelIface] = link[TunnelIface]
      BY <1>0, <2>1, WGKeeps DEF LinkDown, KernelTypeOK, Ifaces, TunnelIface, ClientsIface
    <3> QED BY <3>1, <3>2
  <2>2. CASE phase[self] = TunnelIface
    <3>1. WGWant(self).Managed /\ ~WGWant(self).Up
      BY <1>5, <2>2 DEF WGWant, WGSpec
    <3>2. pc'[self] = "return" /\ res'[self] = "ok"
      BY <1>1, <1>5, <2>2 DEF PastExit, Returned, TunnelIface, ClientsIface
    <3>3. pc[self] \notin UpLabels
      BY <3>1 DEF ModeInv
    <3>4. LinkDown(TunnelIface)
      BY <1>0, <2>2, <3>1, <3>2, <3>3
         DEF WGNext, LinkShow, LinkAdd, RouteDel, SetLinkDown, Dump, AddrShow, SetKey,
         SetPeer, AddrReplace, SetCommand, SetLinkUp, RouteReplace, StartDown, NextPrefix,
         Return, Goto, At, RunnerTypeOK, UpLabels, SetLabels
    <3> QED BY <1>0, <3>4 DEF LinkDown, KernelTypeOK, Ifaces
  <2> QED BY <1>1, <2>1, <2>2 DEF Ifaces
<1>6. ~AtTable(self)' /\ ~Done(self)' /\ pc'[self] # "table add"
  BY <1>1 DEF AtTable, Done, WGLabels, Ifaces, TunnelIface, ClientsIface
<1> QED BY <1>1, <1>2, <1>3, <1>4, <1>5, <1>6 DEF Progress

(* What is listed as the owned rule is the owned rule.                     *)
LEMMA ListedOwned ==
  ASSUME NoLookalike, TableInv, RuleListed(rules)
  PROVE  OwnedRule \in rules
<1>1. ASSUME OwnedRule \notin rules PROVE RuleListed(ForeignRules)
  <2>1. rules \subseteq ForeignRules
    BY <1>1 DEF TableInv
  <2> QED BY <2>1 DEF RuleListed
<1> QED BY <1>1 DEF NoLookalike

(* The routes of table 100, as a set.                                      *)
LEMMA WantedRoutes ==
  ASSUME NEW p
  PROVE  /\ p.TunnelUp => /\ RangeOf(RoutesForTunnel(p)) = {TunnelRoute, Blackhole}
                          /\ Len(RoutesForTunnel(p)) = 2
                          /\ RoutesForTunnel(p)[1] = TunnelRoute
                          /\ RoutesForTunnel(p)[2] = Blackhole
         /\ ~p.TunnelUp => /\ RangeOf(RoutesForTunnel(p)) = {Blackhole}
                           /\ Len(RoutesForTunnel(p)) = 1
                           /\ RoutesForTunnel(p)[1] = Blackhole
<1>1. \A a, b : LET s == << a, b >> IN DOMAIN s = {1, 2} /\ s[1] = a /\ s[2] = b /\ Len(s) = 2
  OBVIOUS
<1>2. \A a : LET s == << a >> IN DOMAIN s = {1} /\ s[1] = a /\ Len(s) = 1
  OBVIOUS
<1> QED BY <1>1, <1>2 DEF RangeOf, RoutesForTunnel

(* routing.Reconcile returns with the rule and the routes in place.        *)
LEMMA RoutingProgress ==
  ASSUME NoLookalike, FlushSafe, TypeInv, TableInv, LinkInv, NEW self \in Procs,
         Progress(self), RoutingNext(self)
  PROVE  Progress(self)'
<1> DEFINE p == pol[self]
<1>0. RunnerTypeOK /\ KernelTypeOK /\ Control
  BY DEF TypeInv, TypeOK
<1>1. /\ phase[self] = "routing" /\ phase' = phase /\ pol' = pol
      /\ pc'[self] \in RoutingLabels \cup {"return"} /\ nft' = nft
  BY RoutingShape DEF Shape
<1>2. sysctl' = sysctl /\ link' = link
  BY DEF RoutingNext, RuleShow, RuleDel, RuleAdd, TableShow, TableFlush, TableAdd, routingFrame
<1>3. PastNft(self) /\ PastExit(self) /\ phase[self] # "sysctl"
  BY <1>1 DEF PastNft, PastExit
<1>4. Filters(nft, pol[self])' <=> Filters(nft, pol[self])
  BY <1>1 DEF Filters, Serves, HasMark, Spares, Unmarks, Isolates
<1>5. p \in Policies /\ Validate(p)
  BY <1>0, <1>1 DEF RunnerTypeOK, TableInv, Accepted
<1>6. /\ p.TunnelUp \in BOOLEAN
      /\ p.TunnelUp => /\ RangeOf(RoutesForTunnel(p)) = {TunnelRoute, Blackhole}
                       /\ Len(RoutesForTunnel(p)) = 2
                       /\ RoutesForTunnel(p)[1] = TunnelRoute
                       /\ RoutesForTunnel(p)[2] = Blackhole
      /\ ~p.TunnelUp => /\ RangeOf(RoutesForTunnel(p)) = {Blackhole}
                        /\ Len(RoutesForTunnel(p)) = 1
                        /\ RoutesForTunnel(p)[1] = Blackhole
  BY <1>5, PolicyFields, WantedRoutes
<1>7. AtTable(self)' \/ Done(self)' => OwnedRule \in rules'
  BY <1>0, ListedOwned DEF RoutingNext, RuleShow, RuleDel, RuleAdd, TableShow, TableFlush,
     TableAdd, Return, Goto, At, RunnerTypeOK, AtTable, Done, Progress
<1>8. ASSUME pc'[self] = "table add"
      PROVE  IF p.TunnelUp THEN n'[self] = 2 => TunnelRoute \in t100'
                           ELSE TunnelRoute \notin t100'
  <2>1. CASE TableFlush(self)
    <3>1. n'[self] = 1
      BY <1>0, <2>1 DEF TableFlush, RunnerTypeOK
    <3>2. ASSUME ~p.TunnelUp PROVE TunnelRoute \notin t100'
      <4>1. CASE t100' = {}
        BY <4>1
      <4>2. CASE "table flush" \in Fallible /\ t100' = t100
        <5>1. p.WireGuard.PrivateKey # ""
          BY <1>5, <3>2, <4>2 DEF FlushSafe
        <5>2. link[TunnelIface] = "down"
          BY <1>3, <3>2, <5>1 DEF Progress
        <5> QED BY <4>2, <5>2 DEF LinkInv
      <4> QED BY <2>1, <4>1, <4>2 DEF TableFlush, Fault
    <3> QED BY <3>1, <3>2
  <2>2. CASE TableAdd(self)
    <3>1. /\ n[self] # Len(RoutesForTunnel(p)) /\ n'[self] = n[self] + 1 /\ pc[self] = "table add"
          /\ AddRoute(RoutesForTunnel(p)[n[self]])
      BY <1>0, <1>8, <2>2 DEF TableAdd, Return, Goto, At, RunnerTypeOK
    <3>2. n[self] \in 1 .. Len(RoutesForTunnel(p))
      BY <1>0, <3>1 DEF Control, ControlAt
    <3> HIDE DEF p
    <3>3. p.TunnelUp /\ n[self] = 1
      <4>1. ASSUME p.TunnelUp PROVE n[self] \in 1 .. 2 /\ n[self] # 2
        BY <1>6, <3>1, <3>2, <4>1
      <4>2. ASSUME ~p.TunnelUp PROVE n[self] \in 1 .. 1 /\ n[self] # 1
        BY <1>6, <3>1, <3>2, <4>2
      <4> QED BY <4>1, <4>2
    <3> QED BY <1>6, <3>1, <3>3 DEF AddRoute
  <2> QED BY <1>0, <1>8, <2>1, <2>2 DEF RoutingNext, RuleShow, RuleDel, RuleAdd, TableShow,
                                        Return, Goto, RunnerTypeOK
<1>9. ASSUME Done(self)' PROVE t100' = RangeOf(RoutesForTunnel(p))
  <2>1. pc'[self] = "return" /\ res'[self] = "ok"
    BY <1>9 DEF Done
  <2>2. CASE TableShow(self)
    BY <1>0, <2>1, <2>2 DEF TableShow, Goto, RunnerTypeOK
  <2>3. CASE TableAdd(self)
    <3>1. /\ pc[self] = "table add" /\ n[self] = Len(RoutesForTunnel(p))
          /\ AddRoute(RoutesForTunnel(p)[n[self]])
      BY <1>0, <2>1, <2>3 DEF TableAdd, Return, At, RunnerTypeOK
    <3>2. t100 \subseteq {TunnelRoute, Blackhole}
      BY <1>0 DEF KernelTypeOK, OwnedRoutes
    <3>3. TunnelRoute.Metric = 10 /\ Blackhole.Metric = 100
      BY DEF TunnelRoute, Blackhole
    <3>4. IF p.TunnelUp THEN n[self] = 2 => TunnelRoute \in t100 ELSE TunnelRoute \notin t100
      BY <3>1 DEF Progress
    <3> HIDE DEF p
    <3>5. CASE p.TunnelUp
      <4>1. t100' = { r \in t100 : r.Metric # Blackhole.Metric } \cup {Blackhole}
        BY <1>6, <3>1, <3>5 DEF AddRoute
      <4>2. TunnelRoute \in t100
        <5>1. n[self] = 2
          BY <1>6, <3>1, <3>5
        <5> QED BY <3>4, <3>5, <5>1
      <4>3. t100' = {TunnelRoute, Blackhole}
        BY <3>2, <3>3, <4>1, <4>2
      <4> QED BY <1>6, <3>5, <4>3
    <3>6. CASE ~p.TunnelUp
      <4>1. t100' = { r \in t100 : r.Metric # Blackhole.Metric } \cup {Blackhole}
        BY <1>6, <3>1, <3>6 DEF AddRoute
      <4>2. t100' = {Blackhole}
        BY <3>2, <3>3, <3>4, <3>6, <4>1
      <4> QED BY <1>6, <3>6, <4>2
    <3> QED BY <3>5, <3>6
  <2> QED BY <1>0, <2>1, <2>2, <2>3 DEF RoutingNext, RuleShow, RuleDel, RuleAdd, TableFlush,
                                        Return, Goto, RunnerTypeOK
<1>10. PastExit(self)' <=> PastExit(self)
  BY <1>1, <1>3 DEF PastExit
<1> QED BY <1>1, <1>2, <1>3, <1>4, <1>7, <1>8, <1>9, <1>10 DEF Progress, Routed

(* The steps between the subsystems keep what has been achieved.           *)
LEMMA NextProgress ==
  ASSUME TypeInv, NEW self \in Procs, Progress(self), NextSubsystem(self)
  PROVE  Progress(self)'
<1>0. RunnerTypeOK
  BY DEF TypeInv, TypeOK
<1>1. UNCHANGED << sysctl, nft, link, rules, t100 >> /\ pol' = pol
  BY DEF NextSubsystem, kernel
<1>2. /\ pc[self] = "return" /\ res[self] = "ok"
      /\ \/ phase[self] = "sysctl" /\ phase'[self] = "nft" /\ pc'[self] = "nft list"
         \/ phase[self] = "nft" /\ phase'[self] = TunnelIface /\ pc'[self] = "link show"
         \/ /\ phase[self] = TunnelIface /\ phase'[self] = ClientsIface
            /\ pc'[self] = "link show"
         \/ phase[self] = ClientsIface /\ phase'[self] = "routing" /\ pc'[self] = "rule show"
  BY NextShape
<1>3. Returned(self, phase[self])
  BY <1>2 DEF Returned
<1>4. \A j \in 1 .. 3 : sysctl'[SysctlSpecs[j]] = "1"
  BY <1>1, <1>2, <1>3 DEF Progress
<1>5. Filters(nft, pol[self])' <=> Filters(nft, pol[self])
  BY <1>1 DEF Filters, Serves, HasMark, Spares, Unmarks, Isolates
<1>6. PastNft(self)' => PastNft(self)
  BY <1>2 DEF PastNft, Ifaces, TunnelIface, ClientsIface
<1>7. PastExit(self)' => PastExit(self)
  BY <1>2, <1>3 DEF PastExit, Returned, TunnelIface, ClientsIface
<1>8. ~AtTable(self)' /\ ~Done(self)' /\ pc'[self] # "table add"
  BY <1>2 DEF AtTable, Done
<1> QED BY <1>1, <1>4, <1>5, <1>6, <1>7, <1>8 DEF Progress

(* An apply that ends without an error has achieved all of it.             *)
LEMMA DoneProgress ==
  ASSUME NEW s \in Procs, TableInv, Progress(s), Done(s)
  PROVE  Validate(pol[s]) /\ Forwarding /\ Filters(nft, pol[s]) /\ Routed(pol[s])
<1>1. phase[s] = "routing"
  BY DEF Done
<1> QED BY <1>1 DEF TableInv, Accepted, Progress, PastNft, Forwarding

(* The invariant's last part is inductive: what is stable lasts, and who   *)
(* moves undisturbed goes on from what it has achieved.                    *)
LEMMA ProgressStep ==
  ASSUME NoLookalike, SameFirewall \/ KnownFirewall, FlushSafe,
         TypeInv, ConvergedInv, [Next]_vars
  PROVE  ProgressInv'
<1>0. /\ TypeOK /\ RunnerTypeOK /\ Control
      /\ TableInv /\ LinkInv /\ ModeInv /\ SoleInv /\ ProgressInv
  BY DEF TypeInv, TypeOK, ConvergedInv
<1>1. CASE UNCHANGED vars
  BY <1>0, <1>1
     DEF vars, kernel, procVars, history, ProgressInv, Undisturbed, Progress, Returned, PastNft,
         PastExit, AtTable, Done, Forwarding, Filters, Serves, HasMark, Spares, Unmarks, Isolates,
         Routed
<1>2. ASSUME stable' = {}, run' = [s \in Procs |-> "disturbed"] PROVE ProgressInv'
  BY <1>2 DEF ProgressInv, Undisturbed
<1>3. CASE Outside \/ \E s \in Procs : Kill(s) \/ StartClear(s)
  BY <1>2, <1>3 DEF Outside, LinkLost, LinkForcedDown, Roam, Interfere, DisturbAll, Kill, StartClear
<1>4. ASSUME NEW self \in Procs, pc[self] # "idle", OthersKept(self),
             \A s \in Procs \ {self} : run'[s] = run[s],
             run'[self] # "disturbed" => run[self] # "disturbed", stable' = {},
             Undisturbed(self) => pc'[self] = "idle" \/ Progress(self)'
      PROVE  ProgressInv'
  <2>1. ASSUME NEW s \in Procs, Undisturbed(s)' PROVE Progress(s)'
    <3>1. s = self
      BY <1>0, <1>4, <2>1, WhoMoves
    <3> QED BY <1>4, <2>1, <3>1 DEF Undisturbed
  <2> QED BY <1>4, <2>1 DEF ProgressInv
<1>5. ASSUME NEW s \in Procs, Work(s) \/ ClearStep(s), ObserveCommand(s) PROVE ProgressInv'
  <2>1. OthersKept(s)
    BY <1>5, SysctlShape, NftShape, WGShape, RoutingShape, ClearShape DEF Work, Shape
  <2>2. pc[s] # "idle"
    <3>1. phase[s] # "idle"
      BY <1>5, SysctlShape, NftShape, WGShape, RoutingShape, ClearShape
         DEF Work, Shape, Ifaces, TunnelIface, ClientsIface
    <3> QED BY <1>0, <3>1 DEF Control, ControlAt
  <2>3. stable' = {}
    BY <1>0, <1>5, <2>2, RunKept DEF SoleInv
  <2>4. ASSUME Undisturbed(s) PROVE Progress(s)'
    <3>1. Progress(s) /\ phase[s] # "clear"
      BY <1>0, <2>4 DEF ProgressInv, SoleInv
    <3>2. Work(s)
      BY <1>5, <3>1, ClearShape
    <3> QED BY <1>0, <3>1, <3>2, SysctlProgress, NftProgress, WGProgress, RoutingProgress DEF Work
  <2> QED BY <1>0, <1>4, <1>5, <2>1, <2>2, <2>3, <2>4, RunKept
<1>6. ASSUME NEW s \in Procs, NextSubsystem(s) \/ ReturnError(s) PROVE ProgressInv'
  <2>1. OthersKept(s) /\ pc[s] = "return"
    BY <1>6, MoveShape DEF NextSubsystem, ReturnError, At
  <2>2. run' = run /\ stable' = stable
    BY <1>6 DEF NextSubsystem, ReturnError, history
  <2>3. stable' = {}
    BY <1>0, <2>1, <2>2 DEF SoleInv
  <2>4. Undisturbed(s) => pc'[s] = "idle" \/ Progress(s)'
    BY <1>0, <1>6, NextProgress, EndShape DEF ProgressInv
  <2> QED BY <1>4, <2>1, <2>2, <2>3, <2>4
<1>7. ASSUME NEW s \in Procs, ReturnOk(s) PROVE ProgressInv'
  <2>1. OthersKept(s) /\ pc[s] = "return" /\ pc'[s] = "idle" /\ run' = run /\ Done(s)
    BY <1>7, MoveShape, EndShape DEF ReturnOk, At
  <2>2. CASE run[s] = "disturbed"
    <3>1. stable' = {}
      BY <1>7, <2>2 DEF ReturnOk
    <3> QED BY <1>4, <2>1, <3>1
  <2>3. CASE run[s] # "disturbed"
    <3>1. stable' = {pol[s]} /\ UNCHANGED << sysctl, nft, rules, t100 >>
      BY <1>7, <2>3 DEF ReturnOk, kernel
    <3>2. Undisturbed(s) /\ Progress(s)
      BY <1>0, <2>1, <2>3 DEF Undisturbed, ProgressInv
    <3> DEFINE p == pol[s]
    <3>3. Validate(p) /\ Forwarding /\ Filters(nft, p) /\ Routed(p)
      BY <1>0, <2>1, <3>2, DoneProgress
    <3> HIDE DEF p
    <3>4. Validate(p) /\ Forwarding' /\ Filters(nft', p) /\ OwnedRule \in rules'
          /\ t100' = RangeOf(RoutesForTunnel(p))
      BY <3>1, <3>3 DEF Forwarding, Routed
    <3>5. \A q \in stable' : Validate(q) /\ Forwarding' /\ Filters(nft', q) /\ OwnedRule \in rules'
                             /\ t100' = RangeOf(RoutesForTunnel(q))
      BY <3>1, <3>4 DEF p
    <3>6. \A t \in Procs : ~Undisturbed(t)'
      BY <1>0, <2>1, WhoMoves DEF Undisturbed
    <3> QED BY <3>5, <3>6 DEF ProgressInv, Routed
  <2> QED BY <2>2, <2>3
<1>8. ASSUME NEW s \in Procs, NEW p \in Policies, StartApply(s, p) PROVE ProgressInv'
  <2>1. /\ OthersKept(s) /\ pc[s] = "idle" /\ UNCHANGED kernel
    BY <1>8, MoveShape DEF StartApply, At
  <2>2. CASE UNCHANGED << pc, phase, n, run, stable >>
    <3>1. UNCHANGED << sysctl, nft, link, rules, t100 >>
      BY <2>1 DEF kernel
    <3>2. ASSUME NEW t \in Procs, Undisturbed(t)' PROVE Progress(t)'
      <4>1. t # s /\ Undisturbed(t)
        BY <2>1, <2>2, <3>2 DEF Undisturbed
      <4>2. Progress(t) /\ pol'[t] = pol[t] /\ res'[t] = res[t]
        BY <1>0, <2>1, <4>1 DEF ProgressInv, OthersKept
      <4> QED BY <2>2, <3>1, <4>2 DEF Progress, Returned, PastNft, PastExit, AtTable, Done,
              Filters, Serves, HasMark, Spares, Unmarks, Isolates, Routed
    <3>3. \A q \in stable' : Validate(q) /\ Forwarding' /\ Filters(nft', q) /\ Routed(q)'
      BY <1>0, <2>2, <3>1 DEF ProgressInv, Forwarding, Routed
    <3> QED BY <3>2, <3>3 DEF ProgressInv
  <2>3. CASE BeginRun(s, p) /\ stable' = {} /\ phase'[s] = "sysctl" /\ pc'[s] = "sysctl read"
             /\ n'[s] = 1
    <3>1. \A t \in Procs : Undisturbed(t)' => t = s
      BY <2>3 DEF BeginRun, Undisturbed
    <3>2. ~Returned(s, "sysctl")' /\ \A j \in 1 .. 3 : ~(j < n'[s])
      <4>1. n'[s] = 1 /\ pc'[s] # "return"
        BY <2>3
      <4> QED BY <4>1 DEF Returned
    <3>3. ~PastNft(s)' /\ ~PastExit(s)' /\ ~AtTable(s)' /\ ~Done(s)'
      BY <2>3 DEF PastNft, PastExit, Returned, AtTable, Done, Ifaces, TunnelIface, ClientsIface
    <3>4. Progress(s)'
      BY <2>3, <3>2, <3>3 DEF Progress
    <3> QED BY <2>3, <3>1, <3>4 DEF ProgressInv
  <2> QED BY <1>0, <1>8, <2>2, <2>3 DEF StartApply, SysctlEnter, SetPhase, Goto, Subsystems,
                                        RunnerTypeOK
<1> QED BY <1>1, <1>3, <1>5, <1>6, <1>7, <1>8, StepKinds DEF Move

(* The invariant holds before the first command.                           *)
LEMMA ConvergedInit == ASSUME Init PROVE ConvergedInv
<1>1. /\ \A s \in Procs : pc[s] = "idle" /\ phase[s] = "idle" /\ run[s] = "disturbed"
      /\ stable = {} /\ rules = ForeignRules /\ nft = NoTable /\ t100 = {}
      /\ main = { [Dst |-> Addr4, Dev |-> Uplink] }
  BY DEF Init
<1>2. TableInv
  BY <1>1, NoTableExtends DEF TableInv, Accepted, TableShape
<1>3. \A r \in main : r.Dev \notin Ifaces
  BY <1>1 DEF Uplink, Ifaces, TunnelIface, ClientsIface
<1>4. CarriedInv /\ LinkInv
  BY <1>1, <1>3 DEF CarriedInv, LinkInv, Ifaces
<1>5. ModeInv
  BY <1>1 DEF ModeInv, WGLabels, DownLabels, UpLabels, SetLabels
<1>6. SoleInv /\ ProgressInv
  BY <1>1 DEF SoleInv, ProgressInv, Undisturbed
<1> QED BY <1>2, <1>4, <1>5, <1>6 DEF ConvergedInv

(* It is inductive.                                                        *)
LEMMA ConvergedStep ==
  ASSUME NoLookalike, SameFirewall \/ KnownFirewall, FlushSafe,
         TypeInv, ConvergedInv, [Next]_vars
  PROVE  ConvergedInv'
BY TableStep, CarriedStep, LinkStep, ModeStep, SoleStep, ProgressStep DEF ConvergedInv

(* A destination that is not tunnelled is not marked.                      *)
LEMMA UnmarkedDirect ==
  ASSUME NEW p, Unmarks(nft, p), NEW d \in Addr4 \ Tunnelled(p)
  PROVE  Egress(d) = MainEgress(d)
<1>1. ~Marked(d)
  BY DEF Marked, Unmarks, Excludes
<1> QED BY <1>1 DEF Egress

(* What is stable is what the policy describes.                            *)
LEMMA StableConverged ==
  ASSUME CarriesTunnelled, TypeInv, MainInv, ConvergedInv, NEW p \in stable
  PROVE  Converged(p)
<1>0. /\ KernelTypeOK /\ p \in Policies /\ Validate(p)
      /\ Forwarding /\ Filters(nft, p) /\ Routed(p)
  BY DEF TypeInv, TypeOK, ConvergedInv, ProgressInv
<1>1. \A k \in SysctlKeys : sysctl[k] = "1"
  BY <1>0 DEF Forwarding, SysctlKeys
<1>2. ASSUME NEW d \in Addr4 \ Tunnelled(p)
      PROVE  Egress(d) = MainEgress(d) /\ MainEgress(d) # TunnelIface
  <2>1. Egress(d) = MainEgress(d)
    BY <1>0, UnmarkedDirect DEF Filters
  <2>2. ASSUME NEW r \in main, d \in r.Dst, r.Dev = TunnelIface PROVE FALSE
    <3>1. PICK q \in Policies : Validate(q) /\ r.Dst \in q.WireGuard.Peer.AllowedIPs
      BY <2>2 DEF ConvergedInv, CarriedInv, Carried
    <3>2. r.Dst \subseteq Tunnelled(p)
      BY <1>0, <3>1 DEF CarriesTunnelled
    <3> QED BY <2>2, <3>2
  <2>3. "unreachable" # TunnelIface
    BY DEF TunnelIface
  <2> QED BY <1>0, <2>1, <2>2, <2>3, LongestCovers
<1>3. ASSUME NEW d \in Tunnelled(p)
      PROVE  Egress(d) = IF p.TunnelUp THEN TunnelIface ELSE "blackhole"
  <2>1. Marked(d)
    BY <1>0, ServesMarks DEF Filters
  <2>2. OwnedRule \in rules /\ t100 = RangeOf(RoutesForTunnel(p))
    BY <1>0 DEF Routed
  <2>3. Egress(d) = Table100Egress
    <3>1. t100 # {}
      BY <2>2, WantedRoutes
    <3> QED BY <2>1, <2>2, <3>1 DEF Egress
  <2>4. TunnelRoute \in t100 <=> p.TunnelUp
    <3>1. TunnelRoute # Blackhole
      BY DEF TunnelRoute, Blackhole
    <3>2. p.TunnelUp \in BOOLEAN
      BY <1>0, PolicyFields
    <3> QED BY <2>2, <3>1, <3>2, WantedRoutes
  <2> QED BY <2>3, <2>4 DEF Table100Egress
<1>4. p.InboundWireGuard.PrivateKey # "" => \A d \in LANAddrs(p) : Isolated(d)
  BY <1>0 DEF Filters, Isolates, Isolated, HasComment
<1>5. HasComment(nft.prerouting, "drop-ipv6")
  BY <1>0 DEF Filters
<1> QED BY <1>1, <1>2, <1>3, <1>4, <1>5 DEF Converged

(* Whatever failures, kills, lost links and other policies have left       *)
(* behind, an apply that reports success, and was not interfered with, has *)
(* made the kernel do what its policy says, and that lasts until the next  *)
(* command: forwarding on, IPv6 dropped, direct destinations by main and   *)
(* not by the tunnel, the others by the tunnel or by the blackhole, and    *)
(* clients kept from the LANs.  It takes no look-alike rule, a firewall    *)
(* that is the same in all policies or else one process at a time that can *)
(* list the table, a flush of table 100 that does not fail unnoticed, and  *)
(* AllowedIPs of wg-exit that every policy tunnels.                        *)
THEOREM SuccessConvergesHolds ==
  ASSUME NoLookalike, SameFirewall \/ KnownFirewall, FlushSafe, CarriesTunnelled
  PROVE  Spec => []SuccessConverges
<1>1. Init => ConvergedInv /\ MainInv
  BY ConvergedInit, MainInit
<1>2. TypeInv /\ ConvergedInv /\ MainInv /\ [Next]_vars => ConvergedInv' /\ MainInv'
  BY ConvergedStep, MainStep
<1>3. TypeInv /\ ConvergedInv /\ MainInv => SuccessConverges
  BY StableConverged DEF SuccessConverges
<1> QED BY <1>1, <1>2, <1>3, InitTyped, NextTyped, PTL DEF Spec

-----------------------------------------------------------------------------
(* Commands that make no difference the second time.                       *)

(* wg set peer: the peer has what it is given, and the others have lost    *)
(* what was taken from them.                                               *)
LEMMA SetPeerAgain ==
  ASSUME NEW peers \in Seq(WireGuardPeer), NEW peer \in WireGuardPeer
  PROVE  WGSetPeer(WGSetPeer(peers, peer), peer) = WGSetPeer(peers, peer)
<1> DEFINE new == [PublicKey |-> peer.PublicKey, Endpoint |-> "",
                   AllowedIPs |-> {}, PersistentKeepalive |-> 0]
           Has(ps) == \E i \in DOMAIN ps : ps[i].PublicKey = peer.PublicKey
           All(ps) == IF Has(ps) THEN ps ELSE Append(ps, new)
           Updated(old) ==
             [PublicKey  |-> peer.PublicKey,
              Endpoint   |-> IF peer.Endpoint # "" THEN peer.Endpoint ELSE old.Endpoint,
              AllowedIPs |-> IF peer.AllowedIPs # {} THEN peer.AllowedIPs ELSE old.AllowedIPs,
              PersistentKeepalive |-> IF peer.PersistentKeepalive > 0
                                      THEN peer.PersistentKeepalive
                                      ELSE old.PersistentKeepalive]
           Rest(old) == [old EXCEPT !.AllowedIPs = @ \ peer.AllowedIPs]
           Set(old) == IF old.PublicKey = peer.PublicKey THEN Updated(old) ELSE Rest(old)
           all == All(peers)
           once == [i \in DOMAIN all |-> Set(all[i])]
<1>1. \A ps : WGSetPeer(ps, peer) = [i \in DOMAIN All(ps) |-> Set(All(ps)[i])]
  BY DEF WGSetPeer
<1>2. \A old \in WireGuardPeer :
        Set(old).PublicKey = old.PublicKey /\ Set(Set(old)) = Set(old)
  BY DEF WireGuardPeer
<1>3. new \in WireGuardPeer /\ new.PublicKey = peer.PublicKey
  BY PolicyAssumption DEF WireGuardPeer
<1> HIDE DEF new, Set
<1>4. all \in Seq(WireGuardPeer) /\ Has(all)
  <2>1. CASE Has(peers)
    BY <2>1
  <2>2. CASE ~Has(peers)
    <3>1. /\ Append(peers, new) \in Seq(WireGuardPeer)
          /\ Len(peers) + 1 \in DOMAIN Append(peers, new)
          /\ Append(peers, new)[Len(peers) + 1] = new
      BY <1>3
    <3> QED BY <1>3, <2>2, <3>1
  <2> QED BY <2>1, <2>2
<1> HIDE DEF all
<1>5. \A i \in DOMAIN all : all[i] \in WireGuardPeer
  BY <1>4
<1>6. DOMAIN once = DOMAIN all /\ \A i \in DOMAIN all : once[i] = Set(all[i])
  OBVIOUS
<1> HIDE DEF once
<1>7. Has(once)
  BY <1>2, <1>4, <1>5, <1>6
<1>8. \A i \in DOMAIN once : Set(once[i]) = once[i]
  BY <1>2, <1>5, <1>6
<1>9. WGSetPeer(once, peer) = [i \in DOMAIN once |-> Set(once[i])]
  BY <1>1, <1>7
<1>10. [i \in DOMAIN once |-> Set(once[i])] = once
  BY <1>8 DEF once
<1>11. WGSetPeer(peers, peer) = once
  BY <1>1 DEF once, all
<1> QED BY <1>9, <1>10, <1>11

(* ip route replace: the route stays, and so do those of other prefixes.   *)
LEMMA ReplaceAgain ==
  ASSUME NEW c, NEW i, main' = MainReplace(c, i)
  PROVE  /\ MainReplace(c, i)' = main'
         /\ \A d, j : d # c /\ MainReplace(d, j) = main => MainReplace(d, j)' = main'
<1> DEFINE R(d, j) == [Dst |-> d, Dev |-> j]
<1>1. \A d, j : R(d, j).Dst = d
  OBVIOUS
<1>2. \A d, j : MainReplace(d, j) = { r \in main : r.Dst # d } \cup {R(d, j)}
  BY DEF MainReplace
<1>3. \A d, j : MainReplace(d, j)' = { r \in main' : r.Dst # d } \cup {R(d, j)}
  BY DEF MainReplace
<1> HIDE DEF R
<1>4. main' = { r \in main : r.Dst # c } \cup {R(c, i)}
  BY <1>2
<1>5. MainReplace(c, i)' = main'
  <2>1. { r \in main' : r.Dst # c } \cup {R(c, i)} = main'
    BY <1>1, <1>4
  <2> QED BY <1>3, <2>1
<1>6. ASSUME NEW d, NEW j, d # c, MainReplace(d, j) = main
      PROVE  MainReplace(d, j)' = main'
  <2>1. main = { r \in main : r.Dst # d } \cup {R(d, j)}
    BY <1>2, <1>6
  <2>2. { r \in main' : r.Dst # d } \cup {R(d, j)} = main'
    <3>1. R(d, j) \in main'
      BY <1>1, <1>4, <1>6, <2>1
    <3>2. \A r \in main' : r.Dst # d \/ r = R(d, j)
      BY <1>1, <1>4, <1>6, <2>1
    <3> QED BY <3>1, <3>2
  <2> QED BY <1>3, <2>2
<1> QED BY <1>5, <1>6

(* The owned rule is listed if it is there.                                *)
LEMMA OwnedListed == ASSUME OwnedRule \in rules PROVE RuleListed(rules)
<1>1. OwnedRule.Priority = 100 /\ OwnedRule.Mark = 1 /\ OwnedRule.Table = 100
  BY DEF OwnedRule
<1>2. StartsWith(1, 1, 16) /\ StartsWith(100, 100, 10)
  <2>1. 0 \in 0 .. 7 /\ 16^0 = 1 /\ 10^0 = 1 /\ 1 \div 1 = 1 /\ 100 \div 1 = 100
    OBVIOUS
  <2> QED BY <2>1 DEF StartsWith
<1>3. 100 % 1000 = 100
  OBVIOUS
<1> QED BY <1>1, <1>2, <1>3 DEF RuleListed

-----------------------------------------------------------------------------
(* What an undisturbed apply leaves for the next one to find.              *)

(* Another interface is not touched, nor are its routes.                   *)
LEMMA OtherDevice ==
  ASSUME SeparateRoutes, TypeInv, TableInv, ModeInv, NEW self \in Procs, WGNext(self),
         phase[self] = ClientsIface, FixedDevice(pol[self], TunnelIface)
  PROVE  FixedDevice(pol[self], TunnelIface)'
<1> DEFINE p == pol[self]
           ips == p.WireGuard.Peer.AllowedIPs
<1>0. RunnerTypeOK /\ KernelTypeOK /\ TunnelIface # ClientsIface
  BY DEF TypeInv, TypeOK, TunnelIface, ClientsIface
<1>1. p \in Policies /\ Validate(p) /\ pol' = pol
  BY <1>0, WGKeeps DEF RunnerTypeOK, TableInv, Accepted, ClientsIface
<1>2. link'[TunnelIface] = link[TunnelIface]
  BY <1>0, WGKeeps DEF LinkDown, KernelTypeOK, Ifaces
<1>3. wg'[TunnelIface] = wg[TunnelIface]
  BY <1>0 DEF WGNext, LinkShow, LinkAdd, RouteDel, SetLinkDown, Dump, AddrShow, SetKey,
     SetPeer, AddrReplace, SetCommand, SetDevice, SetLinkUp, RouteReplace, KernelTypeOK, Ifaces
<1>4. WGWant(self).Managed => WGWant(self).Up
  BY <1>0 DEF WGWant, WGSpec
<1>5. main' = main \/ \E c \in todo[self] : /\ pc[self] = "route replace"
                                            /\ main' = MainReplace(c, ClientsIface)
  <2>1. pc[self] \notin DownLabels
    BY <1>4 DEF ModeInv, DownLabels, WGLabels
  <2> QED BY <2>1 DEF WGNext, LinkShow, LinkAdd, RouteDel, SetLinkDown, Dump, AddrShow, SetKey,
     SetPeer, AddrReplace, SetCommand, SetLinkUp, RouteReplace, At, DownLabels
<1>6. ASSUME RoutesSet(ips, TunnelIface) PROVE \A c \in ips : MainReplace(c, TunnelIface)' = main'
  <2>1. CASE main' = main
    BY <1>6, <2>1 DEF RoutesSet, MainReplace
  <2>2. ASSUME NEW c \in todo[self], pc[self] = "route replace",
               main' = MainReplace(c, ClientsIface)
        PROVE  \A d \in ips : MainReplace(d, TunnelIface)' = main'
    <3>1. c \in p.InboundWireGuard.Peer.AllowedIPs
      BY <1>0, <2>2 DEF ModeInv, WGWant, WGSpec
    <3>2. c \notin ips
      BY <1>1, <3>1 DEF SeparateRoutes
    <3> QED BY <1>6, <2>2, <3>2, ReplaceAgain DEF RoutesSet
  <2> QED BY <1>5, <2>1, <2>2
<1>7. WGSpec(p, TunnelIface).cfg.Peer.AllowedIPs = ips
  BY DEF WGSpec
<1> DEFINE spec == WGSpec(p, TunnelIface)
<1>8. Matched(spec.cfg, TunnelIface) => Matched(spec.cfg, TunnelIface)'
  BY <1>1, <1>3 DEF Matched
<1>9. Rewritten(spec.cfg, TunnelIface) => Rewritten(spec.cfg, TunnelIface)'
  BY <1>1, <1>3, <1>6, <1>7 DEF Rewritten, RoutesSet
<1> QED BY <1>1, <1>2, <1>8, <1>9 DEF FixedDevice

(* wireguard.Reconcile goes from one command to the next when the first    *)
(* has done what it is for, and returns with the device as it is wanted.   *)
LEMMA WGDeviceAt ==
  ASSUME TypeInv, ModeInv, NEW self \in Procs, WGNext(self), DeviceAt(self, phase[self])
  PROVE  /\ DeviceAt(self, phase[self])'
         /\ Returned(self, phase[self])' => FixedDevice(pol[self], phase[self])'
<1> DEFINE i == phase[self]
           w == WGWant(self)
           cfg == w.cfg
           dev == wg[i]
           Ended == pc'[self] = "return" /\ res'[self] = "ok"
<1>0. RunnerTypeOK /\ KernelTypeOK
  BY DEF TypeInv, TypeOK
<1>1. i \in Ifaces /\ phase' = phase /\ pol' = pol
  BY WGKeeps
<1>2. w' = w /\ i' = i /\ WGWant(self)' = w /\ w = WGSpec(pol[self], i)
  BY <1>1 DEF WGWant
<1>3. dev \in Device /\ cfg \in WireGuardConfig /\ cfg.Peer \in WireGuardPeer
  <2>1. pol[self] \in Policies
    BY <1>0 DEF RunnerTypeOK
  <2> QED BY <1>0, <1>1, <1>2, <2>1, WGSpecType DEF KernelTypeOK
<1>4. /\ pc[self] \in DownLabels => ~w.Up
      /\ pc[self] \in UpLabels => w.Up
      /\ pc[self] = "addr replace" => cfg.Address # ""
  BY DEF ModeInv
<1>5. /\ pc[self] \in {"wg dump", "addr show", "route replace"} => link[i] = "up"
      /\ pc[self] = "addr show" => DumpMatches(dev, cfg)
      /\ pc[self] \in SetLabels \ {"wg key"} => KeySet(dev, cfg)
      /\ pc[self] \in {"addr replace", "link up", "route replace"} => PeerSet(dev, cfg)
      /\ pc[self] \in {"link up", "route replace"} => AddressSet(dev, cfg)
      /\ pc[self] = "route replace" => RoutesSet(cfg.Peer.AllowedIPs \ todo[self], i)
  BY DEF DeviceAt
<1>6. ASSUME /\ pc'[self] \in {"wg dump", "addr show", "route replace"} => link'[i] = "up"
             /\ pc'[self] = "addr show" => DumpMatches(wg'[i], cfg)
             /\ pc'[self] \in SetLabels \ {"wg key"} => KeySet(wg'[i], cfg)
             /\ pc'[self] \in {"addr replace", "link up", "route replace"}
                  => PeerSet(wg'[i], cfg)
             /\ pc'[self] \in {"link up", "route replace"} => AddressSet(wg'[i], cfg)
             /\ pc'[self] = "route replace"
                  => \A c \in cfg.Peer.AllowedIPs \ todo'[self] : MainReplace(c, i)' = main'
      PROVE  DeviceAt(self, phase[self])'
  BY <1>1, <1>2, <1>6 DEF DeviceAt, RoutesSet
<1>7. ASSUME w.Managed => IF w.Up THEN /\ link'[i] = "up"
                                       /\ \/ DumpMatches(wg'[i], cfg) /\ AddressSet(wg'[i], cfg)
                                          \/ /\ KeySet(wg'[i], cfg) /\ PeerSet(wg'[i], cfg)
                                             /\ AddressSet(wg'[i], cfg)
                                             /\ \A c \in cfg.Peer.AllowedIPs :
                                                  MainReplace(c, i)' = main'
                                  ELSE link'[i] = "down"
      PROVE  FixedDevice(pol[self], phase[self])'
  BY <1>1, <1>2, <1>7 DEF FixedDevice, Matched, Rewritten, RoutesSet
<1>8. ASSUME pc'[self] \notin {"wg dump", "addr show", "route replace"}
                               \cup (SetLabels \ {"wg key"})
      PROVE  DeviceAt(self, phase[self])'
  BY <1>6, <1>8 DEF SetLabels
<1>9. Returned(self, phase[self])' => Ended
  BY DEF Returned
<1> SUFFICES DeviceAt(self, phase[self])' /\ (Ended => FixedDevice(pol[self], phase[self])')
  BY <1>9
<1> HIDE DEF i, w, cfg, dev
<1>10. CASE LinkShow(self)
  <2>1. /\ pc'[self] \in {"return", "link add", "route del", "link down", "wg dump", "wg key"}
        /\ pc'[self] = "wg dump" => link'[i] = "up"
        /\ pc'[self] = "return" => ~w.Managed
    BY <1>0, <1>10 DEF LinkShow, StartDown, NextPrefix, Return, Goto, RunnerTypeOK, i, w
  <2> QED BY <1>6, <1>7, <2>1 DEF SetLabels
<1>11. CASE LinkAdd(self)
  <2>1. /\ pc'[self] \in {"return", "route del", "link down", "wg key"}
        /\ pc'[self] = "return" => res'[self] = "error"
    BY <1>0, <1>11 DEF LinkAdd, StartDown, NextPrefix, Return, Goto, RunnerTypeOK
  <2> QED BY <1>8, <2>1 DEF SetLabels
<1>12. CASE RouteDel(self)
  <2>1. pc'[self] \in {"route del", "link down"}
    BY <1>0, <1>12 DEF RouteDel, NextPrefix, Goto, RunnerTypeOK
  <2> QED BY <1>8, <2>1 DEF SetLabels
<1>13. CASE SetLinkDown(self)
  <2>1. /\ pc[self] = "link down" /\ pc'[self] = "return"
        /\ res'[self] = "ok" => link'[i] = "down"
    BY <1>0, <1>1, <1>13 DEF SetLinkDown, LinkDown, Return, Goto, At, RunnerTypeOK, KernelTypeOK, i
  <2>2. ~w.Up
    BY <1>4, <2>1 DEF DownLabels
  <2> QED BY <1>7, <1>8, <2>1, <2>2 DEF SetLabels
<1>14. CASE Dump(self)
  <2>1. /\ pc[self] = "wg dump" /\ wg' = wg /\ link' = link
        /\ \/ pc'[self] = "wg key"
           \/ pc'[self] = "addr show" /\ DumpMatches(dev, cfg)
           \/ pc'[self] = "return" /\ DumpMatches(dev, cfg) /\ cfg.Address = ""
    BY <1>0, <1>14 DEF Dump, Return, Goto, At, RunnerTypeOK, i, w, cfg, dev
  <2>2. w.Up /\ link'[i] = "up" /\ wg'[i] = dev
    BY <1>4, <1>5, <2>1 DEF UpLabels, dev
  <2> QED BY <1>6, <1>7, <2>1, <2>2 DEF AddressSet, SetLabels
<1>15. CASE AddrShow(self)
  <2>1. /\ pc[self] = "addr show" /\ wg' = wg /\ link' = link
        /\ \/ pc'[self] = "wg key"
           \/ pc'[self] = "return" /\ cfg.Address \in dev.Addresses
    BY <1>0, <1>15 DEF AddrShow, Return, Goto, At, RunnerTypeOK, i, w, cfg, dev
  <2>2. w.Up /\ link'[i] = "up" /\ wg'[i] = dev /\ DumpMatches(dev, cfg)
    BY <1>4, <1>5, <2>1 DEF UpLabels, dev
  <2> QED BY <1>7, <1>8, <2>1, <2>2 DEF AddressSet, SetLabels
<1>16. ASSUME NEW label, NEW new, NEW next, SetCommand(self, label, new, next),
              next # "return"
       PROVE  /\ pc[self] = label /\ ~Ended
              /\ pc'[self] = "return" \/ (pc'[self] = next /\ wg'[i] = new)
  BY <1>0, <1>1, <1>16 DEF SetCommand, SetDevice, Return, Goto, At, RunnerTypeOK, KernelTypeOK, i
<1>17. CASE SetKey(self)
  <2> DEFINE new == [dev EXCEPT !.PrivateKey = cfg.PrivateKey,
                                !.ListenPort = IF cfg.ListenPort > 0 THEN cfg.ListenPort ELSE @]
  <2>1. AfterKey(w) # "return" /\ SetCommand(self, "wg key", new, AfterKey(w))
    BY <1>17 DEF SetKey, AfterKey, AfterPeer, i, w, cfg, dev
  <2>2. KeySet(new, cfg)
    BY <1>3 DEF KeySet, Device
  <2> HIDE DEF new
  <2>3. ~Ended /\ (pc'[self] = "return" \/ (pc'[self] = AfterKey(w) /\ wg'[i] = new))
    BY <1>16, <2>1
  <2>4. \/ AfterKey(w) = "wg peer"
        \/ AfterKey(w) = "addr replace" /\ cfg.Peer.PublicKey = ""
        \/ AfterKey(w) = "link up" /\ cfg.Peer.PublicKey = "" /\ cfg.Address = ""
    BY DEF AfterKey, AfterPeer, cfg
  <2> QED BY <1>6, <1>8, <2>2, <2>3, <2>4 DEF PeerSet, AddressSet, SetLabels
<1>18. CASE SetPeer(self)
  <2> DEFINE new == [dev EXCEPT !.Peers = WGSetPeer(@, cfg.Peer)]
  <2>1. AfterPeer(w) # "return" /\ SetCommand(self, "wg peer", new, AfterPeer(w))
    BY <1>18 DEF SetPeer, AfterPeer, i, w, cfg, dev
  <2>2. dev.Peers \in Seq(WireGuardPeer) /\ new.Peers = WGSetPeer(dev.Peers, cfg.Peer)
        /\ new.PrivateKey = dev.PrivateKey /\ new.ListenPort = dev.ListenPort
    BY <1>3 DEF Device
  <2> HIDE DEF new
  <2>3. PeerSet(new, cfg)
    BY <1>3, <2>2, SetPeerAgain DEF PeerSet
  <2>4. pc[self] = "wg peer"
        /\ ~Ended /\ (pc'[self] = "return" \/ (pc'[self] = AfterPeer(w) /\ wg'[i] = new))
    BY <1>16, <2>1
  <2>5. KeySet(new, cfg)
    <3>1. KeySet(dev, cfg)
      BY <1>5, <2>4 DEF SetLabels
    <3> QED BY <2>2, <3>1 DEF KeySet
  <2>6. AfterPeer(w) = "addr replace" \/ (AfterPeer(w) = "link up" /\ cfg.Address = "")
    BY DEF AfterPeer, cfg
  <2> QED BY <1>6, <1>8, <2>3, <2>4, <2>5, <2>6 DEF AddressSet, SetLabels
<1>19. CASE AddrReplace(self)
  <2> DEFINE new == [dev EXCEPT !.Addresses = @ \cup {cfg.Address}]
  <2>1. SetCommand(self, "addr replace", new, "link up")
    BY <1>19 DEF AddrReplace, i, w, cfg, dev
  <2>2. /\ new.Peers = dev.Peers /\ new.PrivateKey = dev.PrivateKey
        /\ new.ListenPort = dev.ListenPort /\ cfg.Address \in new.Addresses
    BY <1>3 DEF Device
  <2> HIDE DEF new
  <2>3. pc[self] = "addr replace"
        /\ ~Ended /\ (pc'[self] = "return" \/ (pc'[self] = "link up" /\ wg'[i] = new))
    BY <1>16, <2>1
  <2>4. KeySet(new, cfg) /\ PeerSet(new, cfg) /\ AddressSet(new, cfg)
    <3>1. KeySet(dev, cfg) /\ PeerSet(dev, cfg)
      BY <1>5, <2>3 DEF SetLabels
    <3> QED BY <2>2, <3>1 DEF KeySet, PeerSet, AddressSet
  <2> QED BY <1>6, <1>8, <2>3, <2>4 DEF SetLabels
<1>20. CASE SetLinkUp(self)
  <2>1. /\ pc[self] = "link up" /\ wg' = wg
        /\ \/ pc'[self] = "return" /\ res'[self] = "error"
           \/ /\ link'[i] = "up" /\ pc'[self] = "route replace"
              /\ todo'[self] = cfg.Peer.AllowedIPs
           \/ link'[i] = "up" /\ pc'[self] = "return" /\ cfg.Peer.AllowedIPs = {}
    BY <1>0, <1>1, <1>20 DEF SetLinkUp, Return, Goto, At, RunnerTypeOK, KernelTypeOK, i, w, cfg
  <2>2. /\ KeySet(wg'[i], cfg) /\ PeerSet(wg'[i], cfg) /\ AddressSet(wg'[i], cfg) /\ w.Up
    BY <1>4, <1>5, <2>1 DEF SetLabels, UpLabels, dev
  <2>3. CASE pc'[self] = "return"
    BY <1>7, <1>8, <2>1, <2>2, <2>3 DEF SetLabels
  <2>4. CASE pc'[self] = "route replace"
    BY <1>6, <2>1, <2>2, <2>4
  <2> QED BY <2>1, <2>3, <2>4
<1>21. CASE RouteReplace(self)
  <2>1. pc[self] = "route replace" /\ wg' = wg /\ link' = link
    BY <1>21 DEF RouteReplace, At
  <2>2. /\ link'[i] = "up" /\ w.Up /\ wg'[i] = dev
        /\ KeySet(dev, cfg) /\ PeerSet(dev, cfg) /\ AddressSet(dev, cfg)
        /\ \A c \in cfg.Peer.AllowedIPs \ todo[self] : MainReplace(c, i) = main
    BY <1>4, <1>5, <2>1 DEF SetLabels, UpLabels, dev, RoutesSet
  <2>3. CASE pc'[self] = "return" /\ res'[self] = "error"
    BY <1>8, <2>3 DEF SetLabels
  <2>4. ASSUME NEW c \in todo[self], main' = MainReplace(c, i), todo'[self] = todo[self] \ {c},
               todo[self] # {c} => pc'[self] = "route replace",
               todo[self] = {c} => pc'[self] = "return"
        PROVE  DeviceAt(self, phase[self])' /\ (Ended => FixedDevice(pol[self], phase[self])')
    <3>1. ASSUME NEW d \in cfg.Peer.AllowedIPs, d = c \/ d \notin todo[self]
          PROVE  MainReplace(d, i)' = main'
      <4>1. PICK j \in Ifaces : j = i
        BY <1>1
      <4>2. /\ MainReplace(c, j)' = main'
            /\ d # c /\ MainReplace(d, j) = main => MainReplace(d, j)' = main'
        BY <2>4, <4>1, ReplaceAgain
      <4>3. d # c => MainReplace(d, j) = main
        BY <2>2, <3>1, <4>1
      <4> QED BY <1>2, <4>1, <4>2, <4>3
    <3>2. CASE todo[self] # {c}
      <4>1. \A d \in cfg.Peer.AllowedIPs \ todo'[self] : MainReplace(d, i)' = main'
        BY <2>4, <3>1
      <4> QED BY <1>6, <2>2, <2>4, <3>2, <4>1
    <3>3. CASE todo[self] = {c}
      <4>1. \A d \in cfg.Peer.AllowedIPs : MainReplace(d, i)' = main'
        BY <3>1, <3>3
      <4> QED BY <1>7, <1>8, <2>2, <2>4, <3>3, <4>1 DEF SetLabels
    <3> QED BY <3>2, <3>3
  <2>5. \/ pc'[self] = "return" /\ res'[self] = "error"
        \/ \E c \in todo[self] :
             /\ main' = MainReplace(c, i) /\ todo'[self] = todo[self] \ {c}
             /\ todo[self] # {c} => pc'[self] = pc[self]
             /\ todo[self] = {c} => pc'[self] = "return"
    BY <1>0, <1>21 DEF RouteReplace, Return, Goto, RunnerTypeOK, i
  <2> QED BY <2>1, <2>3, <2>4, <2>5
<1> QED BY <1>10, <1>11, <1>12, <1>13, <1>14, <1>15, <1>17, <1>18, <1>19, <1>20, <1>21 DEF WGNext

(* A step that does not work on a device keeps what has been settled.      *)
LEMMA SettlingKept ==
  ASSUME NEW self \in Procs, Settling(self), UNCHANGED << nft, link, wg, main >>,
         pol'[self] = pol[self], PastNft(self)' => PastNft(self),
         \A i \in Ifaces : PastIface(self, i)' => PastIface(self, i),
         pc'[self] \notin UpLabels
  PROVE  Settling(self)'
<1>1. PastNft(self)' => Listed(pol[self])'
  BY DEF Settling, Listed
<1>2. ASSUME NEW i \in Ifaces, PastIface(self, i)' PROVE FixedDevice(pol[self], i)'
  <2>1. FixedDevice(pol[self], i)
    BY <1>2 DEF Settling
  <2> QED BY <2>1 DEF FixedDevice, Matched, Rewritten, RoutesSet, MainReplace
<1>3. \A i \in Ifaces : DeviceAt(self, i)'
  BY DEF DeviceAt, UpLabels, SetLabels
<1> QED BY <1>1, <1>2, <1>3 DEF Settling

(* So do sysctl.Reconcile, routing.Reconcile and the steps in between.     *)
LEMMA AsideSettling ==
  ASSUME TypeInv, NEW self \in Procs, Settling(self),
         SysctlNext(self) \/ RoutingNext(self) \/ NextSubsystem(self)
  PROVE  Settling(self)'
<1>1. CASE SysctlNext(self)
  <2>1. /\ phase'[self] = "sysctl" /\ pol' = pol /\ UNCHANGED << nft, link, wg, main >>
        /\ pc'[self] \in SysctlLabels \cup {"return"}
    BY <1>1, SysctlShape, WorkKeeps DEF Shape
  <2>2. ~PastNft(self)' /\ \A i \in Ifaces : ~PastIface(self, i)'
    BY <2>1 DEF PastNft, PastIface, Returned, Ifaces, TunnelIface, ClientsIface
  <2> QED BY <2>1, <2>2, SettlingKept DEF SysctlLabels, UpLabels, SetLabels
<1>2. CASE RoutingNext(self)
  <2>1. /\ phase[self] = "routing" /\ pol' = pol /\ UNCHANGED << nft, link, wg, main >>
        /\ pc'[self] \in RoutingLabels \cup {"return"}
    BY <1>2, RoutingShape, WorkKeeps DEF Shape
  <2>2. PastNft(self) /\ \A i \in Ifaces : PastIface(self, i)
    BY <2>1 DEF PastNft, PastIface
  <2> QED BY <2>1, <2>2, SettlingKept DEF RoutingLabels, UpLabels, SetLabels
<1>3. CASE NextSubsystem(self)
  <2>1. UNCHANGED << nft, link, wg, main >> /\ pol' = pol
    BY <1>3 DEF NextSubsystem, kernel
  <2>2. /\ pc[self] = "return" /\ res[self] = "ok"
        /\ \/ phase[self] = "sysctl" /\ phase'[self] = "nft" /\ pc'[self] = "nft list"
           \/ phase[self] = "nft" /\ phase'[self] = TunnelIface /\ pc'[self] = "link show"
           \/ /\ phase[self] = TunnelIface /\ phase'[self] = ClientsIface
              /\ pc'[self] = "link show"
           \/ phase[self] = ClientsIface /\ phase'[self] = "routing" /\ pc'[self] = "rule show"
    BY <1>3, NextShape
  <2>3. PastNft(self)' => PastNft(self)
    BY <2>2 DEF PastNft, Returned, Ifaces, TunnelIface, ClientsIface
  <2>4. \A i \in Ifaces : PastIface(self, i)' => PastIface(self, i)
    BY <2>2 DEF PastIface, Returned, Ifaces, TunnelIface, ClientsIface
  <2>5. pc'[self] \notin UpLabels
    BY <2>2 DEF UpLabels, SetLabels
  <2> QED BY <2>1, <2>3, <2>4, <2>5, SettlingKept
<1> QED BY <1>1, <1>2, <1>3

(* nftables.Reconcile leaves a table it would leave alone.                 *)
LEMMA NftSettling ==
  ASSUME Listable, SameFirewall \/ KnownFirewall, TypeInv, TableInv, NEW self \in Procs,
         NftNext(self)
  PROVE  Settling(self)'
<1>0. RunnerTypeOK
  BY DEF TypeInv, TypeOK
<1>1. /\ phase[self] = "nft" /\ phase'[self] = "nft" /\ pol' = pol
      /\ pc'[self] \in NftLabels \cup {"return"}
  BY NftShape DEF Shape
<1>2. pol[self] \in Policies /\ Validate(pol[self])
  BY <1>0, <1>1 DEF RunnerTypeOK, TableInv, Accepted
<1>3. ASSUME Returned(self, "nft")' PROVE Listed(pol[self])'
  <2>1. pc'[self] = "return" /\ res'[self] = "ok"
    BY <1>3 DEF Returned
  <2>2. CASE NftList(self)
    BY <1>0, <1>1, <2>1, <2>2 DEF NftList, Goto, RunnerTypeOK, Listed
  <2>3. CASE NftApply(self)
    <3> DEFINE t == IF seen[self] THEN NoTable ELSE nft
    <3>1. /\ pc[self] = "nft apply" /\ nft' = NftBatch(t, NftSpec(pol[self]))
          /\ pol[self].TunnelEndpoint \in Addr4
      BY <1>0, <2>1, <2>3 DEF NftApply, TransactionValid, At, Return, RunnerTypeOK
    <3>2. t \in NftTable /\ Extends(t, pol[self])
      BY <3>1, TransactionBase
    <3> HIDE DEF t
    <3>3. SemanticMatch(NftBatch(t, NftSpec(pol[self])), NftSpec(pol[self]))
      BY <1>2, <3>1, <3>2, BatchMatches
    <3>4. nft'.exists
      BY <3>1 DEF NftBatch
    <3> QED BY <1>1, <3>1, <3>3, <3>4 DEF Listed
  <2> QED BY <2>2, <2>3 DEF NftNext
<1>4. PastNft(self)' => Returned(self, "nft")'
  BY <1>1 DEF PastNft, Returned, Ifaces, TunnelIface, ClientsIface
<1>5. \A i \in Ifaces : ~PastIface(self, i)' /\ phase'[self] # i
  BY <1>1 DEF PastIface, Returned, Ifaces, TunnelIface, ClientsIface
<1> QED BY <1>3, <1>4, <1>5 DEF Settling

(* wireguard.Reconcile settles one interface and then the other.           *)
LEMMA WGSettling ==
  ASSUME SeparateRoutes, TypeInv, TableInv, ModeInv, NEW self \in Procs, Settling(self),
         WGNext(self)
  PROVE  Settling(self)'
<1>1. phase[self] \in Ifaces /\ phase' = phase /\ pol' = pol /\ nft' = nft
  BY WGShape DEF Shape
<1>2. PastNft(self)
  BY <1>1 DEF PastNft
<1>3. Listed(pol[self])'
  BY <1>1, <1>2 DEF Settling, Listed
<1>4. DeviceAt(self, phase[self])
  BY <1>1 DEF Settling
<1>5. /\ DeviceAt(self, phase[self])'
      /\ Returned(self, phase[self])' => FixedDevice(pol[self], phase[self])'
  BY <1>4, WGDeviceAt
<1>6. ASSUME NEW i \in Ifaces, PastIface(self, i)' PROVE FixedDevice(pol[self], i)'
  <2>1. CASE Returned(self, i)'
    <3>1. phase'[self] = i
      BY <2>1 DEF Returned
    <3> QED BY <1>5, <2>1, <3>1
  <2>2. CASE ~Returned(self, i)'
    <3>1. i = TunnelIface /\ phase[self] = ClientsIface
      BY <1>1, <1>6, <2>2 DEF PastIface, Ifaces, TunnelIface, ClientsIface
    <3>2. FixedDevice(pol[self], TunnelIface)
      BY <3>1 DEF Settling, PastIface, Ifaces
    <3> QED BY <3>1, <3>2, OtherDevice
  <2> QED BY <2>1, <2>2
<1>7. ASSUME NEW i \in Ifaces, phase'[self] = i PROVE DeviceAt(self, i)'
  BY <1>5, <1>7
<1> QED BY <1>3, <1>6, <1>7 DEF Settling

-----------------------------------------------------------------------------
(* What the repeated apply finds and does.                                 *)

(* A kernel that has not changed is as fixed as it was.                    *)
LEMMA FixedKept ==
  ASSUME UNCHANGED kernel
  PROVE  /\ \A p : Fixed(p)' <=> Fixed(p)
         /\ \A c, i : Rewritten(c, i)' <=> Rewritten(c, i)
<1>1. UNCHANGED << sysctl, nft, link, wg, rules, t100, main >>
  BY DEF kernel
<1>2. \A c, i : /\ Rewritten(c, i)' <=> Rewritten(c, i)
                /\ Matched(c, i)' <=> Matched(c, i)
  BY <1>1 DEF Rewritten, Matched, RoutesSet, MainReplace
<1>3. \A p, i : FixedDevice(p, i)' <=> FixedDevice(p, i)
  BY <1>1, <1>2 DEF FixedDevice
<1>4. \A p : Fixed(p)' <=> Fixed(p)
  BY <1>1, <1>3 DEF Fixed, Forwarding, Listed, Routed
<1> QED BY <1>2, <1>4

(* A step that writes what is there goes on as a repeated one.             *)
LEMMA RepeatKept ==
  ASSUME NEW self \in Procs, RepeatAt(self), UNCHANGED << kernel, phase, pol >>,
         pc'[self] \in Readers \cup DownLabels \cup SetLabels,
         pc'[self] \in DownLabels => link[phase[self]] = "down",
         pc'[self] \in SetLabels
           => link[phase[self]] = "up" /\ Rewritten(WGWant(self).cfg, phase[self])
  PROVE  RepeatAt(self)'
<1> DEFINE c == WGWant(self).cfg
           i == phase[self]
           p == pol[self]
<1>1. c' = c /\ i' = i /\ link' = link /\ p' = p
  BY DEF WGWant, kernel
<1>2. Fixed(p)' /\ (Rewritten(c, i) => Rewritten(c, i)')
  BY <1>1, FixedKept DEF RepeatAt
<1> QED BY <1>1, <1>2 DEF RepeatAt

(* Every read finds what is wanted.                                        *)
LEMMA RepeatReads ==
  ASSUME TypeInv, NEW self \in Procs, RepeatAt(self), faults' = faults,
         SysctlNext(self) \/ NftNext(self) \/ RoutingNext(self)
  PROVE  UNCHANGED kernel /\ RepeatAt(self)' /\ UNCHANGED changes /\ pc'[self] \in Readers
<1>0. RunnerTypeOK /\ Control
  BY DEF TypeInv, TypeOK
<1>1. pc[self] \in Readers \cup DownLabels \cup SetLabels /\ Fixed(pol[self])
  BY DEF RepeatAt
<1>2. \A k : ~Fault(k)
  BY <1>0 DEF Fault, RunnerTypeOK
<1>3. UNCHANGED << phase, pol >>
  BY SysctlShape, NftShape, RoutingShape DEF Shape
<1>4. CASE SysctlNext(self)
  <2>1. SysctlRead(self)
    BY <1>1, <1>4 DEF SysctlNext, SysctlEcho, SysctlWrite, SysctlReread, At, Readers,
                      DownLabels, SetLabels
  <2>2. n[self] \in 1 .. 3
    BY <1>0, <2>1 DEF SysctlRead, At, Control, ControlAt, SysctlLabels
  <2>3. Wanted(self)
    BY <1>1, <2>2 DEF Wanted, Fixed, Forwarding
  <2>4. NextKey(self) /\ UNCHANGED kernel /\ changes' = changes
    BY <1>2, <2>1, <2>3 DEF SysctlRead, sysctlFrame, kernel
  <2>5. pc'[self] \in {"sysctl read", "return"}
    BY <1>0, <2>4 DEF NextKey, Return, Goto, RunnerTypeOK
  <2> QED BY <1>3, <2>4, <2>5, RepeatKept DEF Readers, DownLabels, SetLabels
<1>5. CASE NftNext(self)
  <2>1. NftList(self)
    BY <1>1, <1>5 DEF NftNext, NftApply, At, Readers, DownLabels, SetLabels
  <2>2. nft.exists /\ SemanticMatch(nft, NftSpec(pol[self]))
    BY <1>1 DEF Fixed, Listed
  <2>3. pc'[self] = "return" /\ UNCHANGED kernel /\ changes' = changes
    BY <1>0, <1>2, <2>1, <2>2 DEF NftList, nftFrame, kernel, Return, Goto, RunnerTypeOK
  <2> QED BY <1>3, <2>3, RepeatKept DEF Readers, DownLabels, SetLabels
<1>6. CASE RoutingNext(self)
  <2>1. RuleShow(self) \/ TableShow(self)
    BY <1>1, <1>6 DEF RoutingNext, RuleDel, RuleAdd, TableFlush, TableAdd, At, Readers,
                      DownLabels, SetLabels
  <2>2. RuleListed(rules) /\ t100 = RangeOf(RoutesForTunnel(pol[self]))
    BY <1>1, OwnedListed DEF Fixed, Routed
  <2>3. pc'[self] \in {"table show", "return"} /\ UNCHANGED kernel /\ changes' = changes
    BY <1>0, <1>2, <2>1, <2>2
       DEF RuleShow, TableShow, routingFrame, kernel, Return, Goto, RunnerTypeOK
  <2> QED BY <1>3, <2>3, RepeatKept DEF Readers, DownLabels, SetLabels
<1> QED BY <1>4, <1>5, <1>6

(* wireguard.Reconcile writes only what is there already.                  *)
LEMMA RepeatWrites ==
  ASSUME TypeInv, LinkInv, ModeInv, NEW self \in Procs, RepeatAt(self), faults' = faults,
         WGNext(self)
  PROVE  UNCHANGED kernel /\ RepeatAt(self)'
<1> DEFINE i == phase[self]
           w == WGWant(self)
           cfg == w.cfg
           dev == wg[i]
<1>0. RunnerTypeOK /\ KernelTypeOK
  BY DEF TypeInv, TypeOK
<1>1. i \in Ifaces /\ phase' = phase /\ pol' = pol
  BY WGKeeps
<1>2. w = WGSpec(pol[self], i)
  BY DEF WGWant
<1>3. dev \in Device /\ cfg \in WireGuardConfig /\ cfg.Peer \in WireGuardPeer
  <2>1. pol[self] \in Policies
    BY <1>0 DEF RunnerTypeOK
  <2> QED BY <1>0, <1>1, <1>2, <2>1, WGSpecType DEF KernelTypeOK
<1>4. /\ pc[self] \in WGLabels \ {"link show"} => w.Managed
      /\ pc[self] \in DownLabels => ~w.Up
      /\ pc[self] \in UpLabels => w.Up
      /\ pc[self] = "wg peer" => cfg.Peer.PublicKey # ""
      /\ pc[self] \in {"addr show", "addr replace"} => cfg.Address # ""
      /\ pc[self] = "route replace" => todo[self] \subseteq cfg.Peer.AllowedIPs
  BY DEF ModeInv
<1>5. /\ pc[self] \in Readers \cup DownLabels \cup SetLabels
      /\ pc[self] \in DownLabels => link[i] = "down"
      /\ pc[self] \in SetLabels => link[i] = "up" /\ Rewritten(cfg, i)
      /\ w.Managed => IF w.Up THEN link[i] = "up" /\ (Matched(cfg, i) \/ Rewritten(cfg, i))
                              ELSE link[i] = "down"
  BY <1>1, <1>2 DEF RepeatAt, Fixed, FixedDevice
<1>6. \A k : ~Fault(k)
  BY <1>0 DEF Fault, RunnerTypeOK
<1>7. UNCHANGED << sysctl, nft, rules >>
  BY DEF WGNext, LinkShow, LinkAdd, RouteDel, SetLinkDown, Dump, AddrShow, SetKey,
         SetPeer, AddrReplace, SetCommand, SetLinkUp, RouteReplace, wgFrame
<1>8. ASSUME UNCHANGED << link, wg, t100, main >>,
             \/ pc'[self] \in Readers
             \/ pc'[self] \in DownLabels /\ link[i] = "down"
             \/ pc'[self] \in SetLabels /\ link[i] = "up" /\ Rewritten(cfg, i)
      PROVE  UNCHANGED kernel /\ RepeatAt(self)'
  <2>1. UNCHANGED kernel
    BY <1>7, <1>8 DEF kernel
  <2>2. /\ pc'[self] \in Readers \cup DownLabels \cup SetLabels
        /\ pc'[self] \in DownLabels => link[i] = "down"
        /\ pc'[self] \in SetLabels => link[i] = "up" /\ Rewritten(cfg, i)
    BY <1>8 DEF Readers, DownLabels, SetLabels
  <2> QED BY <1>1, <2>1, <2>2, RepeatKept
<1>9. /\ Rewritten(cfg, i) => /\ KeySet(dev, cfg) /\ PeerSet(dev, cfg) /\ AddressSet(dev, cfg)
                              /\ \A c \in cfg.Peer.AllowedIPs : MainReplace(c, i) = main
      /\ Matched(cfg, i) => DumpMatches(dev, cfg) /\ AddressSet(dev, cfg)
  BY DEF Rewritten, Matched, RoutesSet
<1> HIDE DEF i, w, cfg, dev
<1>10. CASE LinkShow(self)
  <2>1. UNCHANGED << link, wg, t100, main >>
    BY <1>10 DEF LinkShow
  <2>2. \/ pc'[self] = "return"
        \/ w.Managed /\ link[i] = "absent"
        \/ w.Managed /\ ~w.Up /\ pc'[self] \in DownLabels
        \/ w.Managed /\ w.Up /\ pc'[self] = "wg dump"
        \/ w.Managed /\ w.Up /\ link[i] = "down"
    BY <1>0, <1>6, <1>10
       DEF LinkShow, StartDown, NextPrefix, Return, Goto, RunnerTypeOK, DownLabels, i, w
  <2>3. pc'[self] \in Readers \/ (pc'[self] \in DownLabels /\ link[i] = "down")
    BY <1>5, <2>2 DEF Readers
  <2> QED BY <1>8, <2>1, <2>3
<1>11. CASE LinkAdd(self)
  BY <1>5, <1>11 DEF LinkAdd, At, Readers, DownLabels, SetLabels
<1>12. CASE RouteDel(self)
  <2>1. /\ pc[self] = "route del" /\ UNCHANGED << link, wg, t100 >>
        /\ pc'[self] \in DownLabels
        /\ \E p : main' = main \ { [Dst |-> p, Dev |-> i] }
    BY <1>0, <1>6, <1>12 DEF RouteDel, NextPrefix, Goto, At, RunnerTypeOK, DownLabels, i
  <2>2. link[i] = "down"
    BY <1>5, <2>1 DEF DownLabels
  <2>3. \A p : [Dst |-> p, Dev |-> i] \notin main
    BY <1>1, <2>2 DEF LinkInv, i
  <2> QED BY <1>8, <2>1, <2>2, <2>3
<1>13. CASE SetLinkDown(self)
  <2>1. pc[self] = "link down" /\ pc'[self] = "return" /\ wg' = wg
    BY <1>0, <1>13 DEF SetLinkDown, Return, Goto, At, RunnerTypeOK
  <2>2. link[i] = "down" /\ i \in Ifaces
    BY <1>1, <1>5, <2>1 DEF DownLabels, i
  <2>3. /\ link' = [link EXCEPT ![i] = "down"]
        /\ main' = { r \in main : r.Dev # i }
        /\ t100' = { r \in t100 : r.Device # i }
    BY <1>6, <1>13, <2>2 DEF SetLinkDown, LinkDown, DropRoutes, i
  <2>4. \A r \in main : r.Dev # i
    BY <2>2 DEF LinkInv
  <2>5. \A r \in t100 : r.Device # i
    <3>1. t100 \subseteq {TunnelRoute, Blackhole}
      BY <1>0 DEF KernelTypeOK, OwnedRoutes
    <3>2. TunnelRoute.Device = TunnelIface /\ Blackhole.Device \notin Ifaces
      BY DEF TunnelRoute, Blackhole, Ifaces, TunnelIface, ClientsIface
    <3> QED BY <2>2, <3>1, <3>2 DEF LinkInv
  <2>6. link' = link
    BY <1>0, <2>2, <2>3 DEF KernelTypeOK
  <2> QED BY <1>8, <2>1, <2>3, <2>4, <2>5, <2>6 DEF Readers
<1>14. CASE Dump(self)
  <2>1. /\ pc[self] = "wg dump" /\ UNCHANGED << link, wg, t100, main >>
        /\ \/ pc'[self] = "wg key" /\ (link[i] = "absent" \/ ~DumpMatches(dev, cfg))
           \/ pc'[self] \in {"addr show", "return"}
    BY <1>0, <1>6, <1>14 DEF Dump, Return, Goto, At, RunnerTypeOK, i, w, cfg, dev
  <2>2. w.Managed /\ w.Up
    BY <1>4, <2>1 DEF UpLabels, WGLabels
  <2> QED BY <1>5, <1>8, <1>9, <2>1, <2>2 DEF Readers, SetLabels
<1>15. CASE AddrShow(self)
  <2>1. /\ pc[self] = "addr show" /\ UNCHANGED << link, wg, t100, main >>
        /\ \/ pc'[self] = "wg key" /\ cfg.Address \notin dev.Addresses
           \/ pc'[self] = "return"
    BY <1>0, <1>6, <1>15 DEF AddrShow, Return, Goto, At, RunnerTypeOK, i, w, cfg, dev
  <2>2. w.Managed /\ w.Up /\ cfg.Address # ""
    BY <1>4, <2>1 DEF UpLabels, WGLabels
  <2>3. ~AddressSet(dev, cfg) \/ pc'[self] = "return"
    BY <2>1, <2>2 DEF AddressSet
  <2> QED BY <1>5, <1>8, <1>9, <2>1, <2>2, <2>3 DEF Readers, SetLabels
<1>16. ASSUME NEW label \in SetLabels, NEW new, NEW next \in SetLabels,
              SetCommand(self, label, new, next),
              KeySet(dev, cfg) /\ PeerSet(dev, cfg) /\ AddressSet(dev, cfg) /\ pc[self] = label
                => new = dev
       PROVE  UNCHANGED kernel /\ RepeatAt(self)'
  <2>1. pc[self] = label
    BY <1>16 DEF SetCommand, At
  <2>2. link[i] = "up" /\ Rewritten(cfg, i)
    BY <1>5, <1>16, <2>1
  <2>3. new = dev
    BY <1>9, <1>16, <2>1, <2>2
  <2>4. pc'[self] = next /\ wg' = [wg EXCEPT ![i] = new] /\ UNCHANGED << link, t100, main >>
    BY <1>0, <1>6, <1>16, <2>2 DEF SetCommand, SetDevice, Goto, RunnerTypeOK, i
  <2>5. wg' = wg
    BY <1>0, <1>1, <2>3, <2>4 DEF dev, KernelTypeOK, i
  <2> QED BY <1>8, <1>16, <2>2, <2>4, <2>5
<1>17. CASE SetKey(self)
  <2> DEFINE new == [dev EXCEPT !.PrivateKey = cfg.PrivateKey,
                                !.ListenPort = IF cfg.ListenPort > 0 THEN cfg.ListenPort ELSE @]
  <2>1. AfterKey(w) \in SetLabels /\ SetCommand(self, "wg key", new, AfterKey(w))
    BY <1>17 DEF SetKey, AfterKey, AfterPeer, SetLabels, i, w, cfg, dev
  <2>2. KeySet(dev, cfg) => new = dev
    BY <1>3 DEF KeySet, Device
  <2> HIDE DEF new
  <2> QED BY <1>16, <2>1, <2>2 DEF SetLabels
<1>18. CASE SetPeer(self)
  <2> DEFINE new == [dev EXCEPT !.Peers = WGSetPeer(@, cfg.Peer)]
  <2>1. AfterPeer(w) \in SetLabels /\ SetCommand(self, "wg peer", new, AfterPeer(w))
    BY <1>18 DEF SetPeer, AfterPeer, SetLabels, i, w, cfg, dev
  <2>2. WGSetPeer(dev.Peers, cfg.Peer) = dev.Peers => new = dev
    BY <1>3 DEF Device
  <2> HIDE DEF new
  <2>3. PeerSet(dev, cfg) /\ pc[self] = "wg peer" => new = dev
    BY <1>4, <2>2 DEF PeerSet
  <2> QED BY <1>16, <2>1, <2>3 DEF SetLabels
<1>19. CASE AddrReplace(self)
  <2> DEFINE new == [dev EXCEPT !.Addresses = @ \cup {cfg.Address}]
  <2>1. SetCommand(self, "addr replace", new, "link up")
    BY <1>19 DEF AddrReplace, i, w, cfg, dev
  <2>2. cfg.Address \in dev.Addresses => new = dev
    <3>1. cfg.Address \in dev.Addresses => dev.Addresses \cup {cfg.Address} = dev.Addresses
      OBVIOUS
    <3> QED BY <1>3, <3>1 DEF Device
  <2> HIDE DEF new
  <2>3. AddressSet(dev, cfg) /\ pc[self] = "addr replace" => new = dev
    BY <1>4, <2>2 DEF AddressSet
  <2> QED BY <1>16, <2>1, <2>3 DEF SetLabels
<1>20. CASE SetLinkUp(self)
  <2>1. pc[self] = "link up"
    BY <1>20 DEF SetLinkUp, At
  <2>2. link[i] = "up" /\ Rewritten(cfg, i)
    BY <1>5, <2>1 DEF SetLabels
  <2>3. /\ link' = [link EXCEPT ![i] = "up"] /\ UNCHANGED << wg, t100, main >>
        /\ pc'[self] \in {"route replace", "return"}
    BY <1>0, <1>6, <1>20, <2>2 DEF SetLinkUp, Return, Goto, RunnerTypeOK, i
  <2>4. link' = link
    BY <1>0, <1>1, <2>2, <2>3 DEF KernelTypeOK, i
  <2> QED BY <1>8, <2>2, <2>3, <2>4 DEF Readers, SetLabels
<1>21. CASE RouteReplace(self)
  <2>1. pc[self] = "route replace"
    BY <1>21 DEF RouteReplace, At
  <2>2. link[i] = "up" /\ Rewritten(cfg, i) /\ todo[self] \subseteq cfg.Peer.AllowedIPs
    BY <1>4, <1>5, <2>1 DEF SetLabels
  <2>3. /\ UNCHANGED << link, wg, t100 >> /\ pc'[self] \in {"route replace", "return"}
        /\ \E c \in todo[self] : main' = MainReplace(c, i)
    BY <1>0, <1>6, <1>21, <2>1, <2>2 DEF RouteReplace, Return, Goto, RunnerTypeOK, i
  <2>4. main' = main
    BY <1>9, <2>2, <2>3
  <2> QED BY <1>8, <2>2, <2>3, <2>4 DEF Readers, SetLabels
<1> QED BY <1>10, <1>11, <1>12, <1>13, <1>14, <1>15, <1>17, <1>18, <1>19, <1>20, <1>21 DEF WGNext

(* A repeated apply goes from a subsystem to the next.                     *)
LEMMA RepeatNext ==
  ASSUME TypeInv, NEW self \in Procs, RepeatAt(self), NextSubsystem(self)
  PROVE  UNCHANGED kernel /\ RepeatAt(self)' /\ UNCHANGED changes /\ pc'[self] \in Readers
<1>1. UNCHANGED << kernel, changes >> /\ pol' = pol
  BY DEF NextSubsystem
<1>2. pc'[self] \in {"nft list", "link show", "rule show"}
  BY NextShape
<1>3. Fixed(pol[self])'
  <2> DEFINE p == pol[self]
  <2>1. p' = p
    BY <1>1
  <2>2. Fixed(p)'
    BY <1>1, <2>1, FixedKept DEF RepeatAt
  <2> QED BY <2>2
<1> QED BY <1>1, <1>2, <1>3 DEF RepeatAt, Readers, DownLabels, SetLabels

(* What a process that does not move has settled stays.                    *)
LEMMA StandsStill ==
  ASSUME NEW s \in Procs, UNCHANGED << kernel, todo >>,
         pc'[s] = pc[s], phase'[s] = phase[s], pol'[s] = pol[s], res'[s] = res[s]
  PROVE  (Settling(s) => Settling(s)') /\ (RepeatAt(s) => RepeatAt(s)')
<1>1. UNCHANGED << sysctl, nft, link, wg, rules, t100, main, todo >> /\ WGWant(s)' = WGWant(s)
  BY DEF kernel, WGWant
<1>2. \A i \in Ifaces : /\ DeviceAt(s, i)' <=> DeviceAt(s, i)
                        /\ PastIface(s, i)' <=> PastIface(s, i)
                        /\ FixedDevice(pol[s], i)' <=> FixedDevice(pol[s], i)
  BY <1>1 DEF DeviceAt, RoutesSet, MainReplace, PastIface, Returned, FixedDevice, Matched,
              Rewritten
<1>3. /\ PastNft(s)' <=> PastNft(s)
      /\ Listed(pol[s])' <=> Listed(pol[s])
  BY <1>1 DEF PastNft, Listed
<1>4. Settling(s) => Settling(s)'
  BY <1>2, <1>3 DEF Settling
<1>5. Fixed(pol[s]) => Fixed(pol[s])'
  BY <1>1, <1>2, <1>3 DEF Fixed, Forwarding, Routed
<1>6. RepeatAt(s) => RepeatAt(s)'
  BY <1>1, <1>5 DEF RepeatAt, Rewritten, RoutesSet, MainReplace
<1> QED BY <1>4, <1>6

(* An apply that ends without an error has settled all of it.              *)
LEMMA DoneFixed ==
  ASSUME NEW s \in Procs, TableInv, Progress(s), Settling(s), Done(s)
  PROVE  Fixed(pol[s])
<1>1. phase[s] = "routing"
  BY DEF Done
<1>2. Listed(pol[s]) /\ \A i \in Ifaces : FixedDevice(pol[s], i)
  BY <1>1 DEF Settling, PastNft, PastIface
<1> QED BY <1>2, DoneProgress DEF Fixed

(* What a repeated apply relies on is inductive.                           *)
LEMMA FixedStep ==
  ASSUME SameFirewall \/ KnownFirewall, Listable, SeparateRoutes,
         TypeInv, ConvergedInv, FixedInv, [Next]_vars
  PROVE  FixedInv'
<1>0. /\ TypeOK /\ RunnerTypeOK /\ Control
      /\ TableInv /\ LinkInv /\ ModeInv /\ SoleInv /\ ProgressInv
  BY DEF TypeInv, TypeOK, ConvergedInv
<1>1. \A s \in Procs : /\ Repeating(s) => Undisturbed(s)
                       /\ Repeating(s)' => Undisturbed(s)'
  BY DEF Repeating, Undisturbed
<1>2. CASE UNCHANGED vars
  <2>1. UNCHANGED << kernel, todo, pc, phase, pol, res, run, stable >>
    BY <1>2 DEF vars, procVars, history
  <2>2. \A s \in Procs : /\ Undisturbed(s)' => Settling(s)'
                         /\ Repeating(s)' => RepeatAt(s)'
    BY <2>1, StandsStill DEF FixedInv, Undisturbed, Repeating
  <2> QED BY <2>1, <2>2, FixedKept DEF FixedInv
<1>3. CASE Outside \/ \E s \in Procs : Kill(s) \/ StartClear(s)
  <2>1. stable' = {} /\ run' = [s \in Procs |-> "disturbed"]
    BY <1>3 DEF Outside, LinkLost, LinkForcedDown, Roam, Interfere, DisturbAll, Kill, StartClear
  <2> QED BY <1>1, <2>1 DEF FixedInv, Undisturbed
<1>4. ASSUME NEW self \in Procs, pc[self] # "idle", OthersKept(self),
             \A s \in Procs \ {self} : run'[s] = run[s],
             run'[self] # "disturbed" => run[self] # "disturbed", stable' = {},
             Undisturbed(self) => pc'[self] = "idle" \/ Settling(self)',
             Repeating(self)' => RepeatAt(self)'
      PROVE  FixedInv'
  <2>1. ASSUME NEW s \in Procs, Undisturbed(s)'
        PROVE  Settling(s)' /\ (Repeating(s)' => RepeatAt(s)')
    <3>1. s = self
      BY <1>0, <1>4, <2>1, WhoMoves
    <3> QED BY <1>4, <2>1, <3>1 DEF Undisturbed
  <2> QED BY <1>1, <1>4, <2>1 DEF FixedInv
<1>5. ASSUME NEW s \in Procs, Work(s) \/ ClearStep(s), ObserveCommand(s) PROVE FixedInv'
  <2>1. OthersKept(s)
    BY <1>5, SysctlShape, NftShape, WGShape, RoutingShape, ClearShape DEF Work, Shape
  <2>2. pc[s] # "idle"
    <3>1. phase[s] # "idle"
      BY <1>5, SysctlShape, NftShape, WGShape, RoutingShape, ClearShape
         DEF Work, Shape, Ifaces, TunnelIface, ClientsIface
    <3> QED BY <1>0, <3>1 DEF Control, ControlAt
  <2>3. stable' = {}
    BY <1>0, <1>5, <2>2, RunKept DEF SoleInv
  <2>4. ASSUME Undisturbed(s) PROVE Work(s) /\ Settling(s)'
    <3>1. Settling(s) /\ phase[s] # "clear"
      BY <1>0, <2>4 DEF FixedInv, SoleInv
    <3>2. Work(s)
      BY <1>5, <3>1, ClearShape
    <3> QED BY <1>0, <3>1, <3>2, AsideSettling, NftSettling, WGSettling DEF Work
  <2>5. ASSUME Repeating(s)' PROVE RepeatAt(s)'
    <3>1. run[s] = "repeat" /\ faults' = faults
      BY <1>0, <1>5, <2>5, RunKept DEF Repeating
    <3>2. Repeating(s) /\ RepeatAt(s) /\ Undisturbed(s)
      BY <1>1, <2>2, <3>1 DEF Repeating, FixedInv
    <3> QED BY <1>0, <2>4, <3>1, <3>2, RepeatReads, RepeatWrites DEF Work
  <2> QED BY <1>0, <1>4, <1>5, <2>1, <2>2, <2>3, <2>4, <2>5, RunKept
<1>6. ASSUME NEW s \in Procs, NextSubsystem(s) \/ ReturnError(s) PROVE FixedInv'
  <2>1. OthersKept(s) /\ pc[s] = "return"
    BY <1>6, MoveShape DEF NextSubsystem, ReturnError, At
  <2>2. run' = run /\ stable' = stable
    BY <1>6 DEF NextSubsystem, ReturnError, history
  <2>3. stable' = {}
    BY <1>0, <2>1, <2>2 DEF SoleInv
  <2>4. Undisturbed(s) => pc'[s] = "idle" \/ Settling(s)'
    BY <1>6, AsideSettling, EndShape DEF FixedInv
  <2>5. Repeating(s)' => RepeatAt(s)'
    BY <1>6, <2>1, <2>2, RepeatNext, EndShape DEF FixedInv, Repeating
  <2> QED BY <1>4, <2>1, <2>2, <2>3, <2>4, <2>5
<1>7. ASSUME NEW s \in Procs, ReturnOk(s) PROVE FixedInv'
  <2>1. /\ OthersKept(s) /\ pc[s] = "return" /\ pc'[s] = "idle" /\ run' = run /\ Done(s)
        /\ UNCHANGED kernel
    BY <1>7, MoveShape, EndShape DEF ReturnOk, At
  <2>2. CASE run[s] = "disturbed"
    <3>1. stable' = {}
      BY <1>7, <2>2 DEF ReturnOk
    <3> QED BY <1>4, <2>1, <3>1 DEF Repeating
  <2>3. CASE run[s] # "disturbed"
    <3>1. stable' = {pol[s]}
      BY <1>7, <2>3 DEF ReturnOk
    <3>2. Undisturbed(s) /\ Progress(s) /\ Settling(s)
      BY <1>0, <2>1, <2>3 DEF Undisturbed, ProgressInv, FixedInv
    <3>3. \A p \in stable' : Fixed(p)
      BY <1>0, <2>1, <3>1, <3>2, DoneFixed
    <3>4. \A p \in stable' : Fixed(p)'
      BY <2>1, <3>3, FixedKept
    <3>5. \A t \in Procs : ~Undisturbed(t)'
      BY <1>0, <2>1, WhoMoves DEF Undisturbed
    <3> QED BY <1>1, <3>4, <3>5 DEF FixedInv
  <2> QED BY <2>2, <2>3
<1>8. ASSUME NEW s \in Procs, NEW p \in Policies, StartApply(s, p) PROVE FixedInv'
  <2>1. OthersKept(s) /\ pc[s] = "idle" /\ UNCHANGED << kernel, todo >> /\ pol'[s] = p
    BY <1>8, MoveShape, StartShape DEF StartApply, At
  <2>2. CASE UNCHANGED << pc, phase, run, stable >>
    <3>1. ASSUME NEW t \in Procs, Undisturbed(t)'
          PROVE  Settling(t)' /\ (Repeating(t)' => RepeatAt(t)')
      <4>1. t # s /\ Undisturbed(t) /\ (Repeating(t)' => Repeating(t))
        BY <2>1, <2>2, <3>1 DEF Undisturbed, Repeating
      <4>2. Settling(t) /\ (Repeating(t)' => RepeatAt(t))
        BY <4>1 DEF FixedInv
      <4> QED BY <2>1, <4>1, <4>2, StandsStill DEF OthersKept
    <3>2. \A q \in stable' : Fixed(q)'
      BY <2>1, <2>2, FixedKept DEF FixedInv
    <3> QED BY <1>1, <3>1, <3>2 DEF FixedInv
  <2>3. CASE BeginRun(s, p) /\ stable' = {} /\ phase'[s] = "sysctl" /\ pc'[s] = "sysctl read"
    <3>1. /\ \A t \in Procs : Undisturbed(t)' => t = s
          /\ Repeating(s)' => stable = {p}
      BY <2>3 DEF BeginRun, Undisturbed, Repeating
    <3>2. ~PastNft(s)' /\ \A i \in Ifaces : ~PastIface(s, i)' /\ phase'[s] # i
      BY <2>3 DEF PastNft, PastIface, Returned, Ifaces, TunnelIface, ClientsIface
    <3>3. Settling(s)'
      BY <3>2 DEF Settling
    <3>4. ASSUME Repeating(s)' PROVE RepeatAt(s)'
      <4>1. Fixed(p)'
        BY <2>1, <3>1, <3>4, FixedKept DEF FixedInv
      <4>2. Fixed(pol[s])'
        BY <2>1, <4>1
      <4> QED BY <2>3, <4>2 DEF RepeatAt, Readers, DownLabels, SetLabels
    <3> QED BY <1>1, <2>3, <3>1, <3>3, <3>4 DEF FixedInv
  <2> QED BY <1>0, <1>8, <2>2, <2>3 DEF StartApply, SysctlEnter, SetPhase, Goto, Subsystems,
                                        RunnerTypeOK
<1> QED BY <1>2, <1>3, <1>5, <1>6, <1>7, <1>8, StepKinds DEF Move

(* Before the first command there is nothing to rely on.                   *)
LEMMA FixedInit == ASSUME Init PROVE FixedInv
BY DEF Init, FixedInv, Undisturbed, Repeating

(* While an apply is repeated, the only commands are its own.              *)
LEMMA RepeatCommand ==
  ASSUME TypeInv, ConvergedInv, FixedInv, [Next]_vars, NEW self \in Procs,
         Repeating(self), run'[self] = "repeat"
  PROVE  \/ Work(self) /\ RepeatAt(self) /\ faults' = faults
         \/ UNCHANGED vars
         \/ \E s \in Procs : Move(s) \/ Kill(s)
<1>0. TypeOK /\ SoleInv /\ Control
  BY DEF TypeInv, TypeOK, ConvergedInv
<1>1. phase[self] # "clear" /\ \A t \in Procs \ {self} : pc[t] = "idle"
  BY <1>0 DEF SoleInv, Repeating, Undisturbed
<1>2. CASE Outside
  BY <1>2 DEF Outside, LinkLost, LinkForcedDown, Roam, Interfere, DisturbAll
<1>3. ASSUME NEW s \in Procs, Work(s) \/ ClearStep(s), ObserveCommand(s)
      PROVE  Work(self) /\ RepeatAt(self) /\ faults' = faults
  <2>1. pc[s] # "idle"
    <3>1. phase[s] # "idle"
      BY <1>3, SysctlShape, NftShape, WGShape, RoutingShape, ClearShape
         DEF Work, Shape, Ifaces, TunnelIface, ClientsIface
    <3> QED BY <1>0, <3>1 DEF Control, ControlAt
  <2>2. s = self
    BY <1>1, <2>1
  <2>3. Work(self)
    BY <1>1, <1>3, <2>2, ClearShape
  <2> QED BY <1>0, <1>3, <2>2, <2>3, RunKept DEF FixedInv
<1> QED BY <1>2, <1>3, StepKinds

(* Applying a policy again, with nothing in between, changes nothing in    *)
(* the kernel, not even for a moment: each command of the second apply     *)
(* finds what is wanted, or writes what is there already.  Besides the     *)
(* hypotheses of SuccessConvergesHolds, without the one on AllowedIPs, it  *)
(* takes policies that nft lists as they were written, and that do not     *)
(* give one prefix to both interfaces.                                     *)
THEOREM ReapplyTouchesNothingHolds ==
  ASSUME NoLookalike, SameFirewall \/ KnownFirewall, FlushSafe, Listable, SeparateRoutes
  PROVE  Spec => ReapplyTouchesNothing
<1>1. Init => ConvergedInv /\ FixedInv
  BY ConvergedInit, FixedInit
<1>2. TypeInv /\ ConvergedInv /\ FixedInv /\ [Next]_vars => ConvergedInv' /\ FixedInv'
  BY ConvergedStep, FixedStep
<1>3. TypeInv /\ ConvergedInv /\ FixedInv /\ [Next]_vars
        => [\A self \in Procs :
              ~At(self, "idle") /\ run[self] = "repeat" /\ run'[self] = "repeat"
                => UNCHANGED kernel]_vars
  <2> SUFFICES ASSUME TypeInv, ConvergedInv, FixedInv, [Next]_vars, NEW self \in Procs,
                      Repeating(self), run'[self] = "repeat"
               PROVE  UNCHANGED kernel
    BY DEF Repeating, At
  <2>1. CASE Work(self) /\ RepeatAt(self) /\ faults' = faults
    BY <2>1, RepeatReads, RepeatWrites DEF Work, ConvergedInv
  <2>2. CASE UNCHANGED vars
    BY <2>2 DEF vars
  <2>3. ASSUME NEW s \in Procs, Move(s) \/ Kill(s) PROVE UNCHANGED kernel
    BY <2>3, MoveKeeps
  <2> QED BY <2>1, <2>2, <2>3, RepeatCommand
<1> QED BY <1>1, <1>2, <1>3, InitTyped, NextTyped, PTL DEF Spec, ReapplyTouchesNothing

-----------------------------------------------------------------------------
(* The devices.                                                            *)

(* No two peers have a key or one of the AllowedIPs in common.             *)
Apart(peers) ==
  \A j, k \in DOMAIN peers : j # k =>
    /\ peers[j].PublicKey # peers[k].PublicKey
    /\ peers[j].AllowedIPs \cap peers[k].AllowedIPs = {}

ApartInv == \A i \in Ifaces : Apart(wg[i].Peers)

(* What wg set peer makes of a peer.                                       *)
SetOf(old, peer) ==
  IF old.PublicKey = peer.PublicKey
  THEN [PublicKey  |-> peer.PublicKey,
        Endpoint   |-> IF peer.Endpoint # "" THEN peer.Endpoint ELSE old.Endpoint,
        AllowedIPs |-> IF peer.AllowedIPs # {} THEN peer.AllowedIPs ELSE old.AllowedIPs,
        PersistentKeepalive |-> IF peer.PersistentKeepalive > 0
                                THEN peer.PersistentKeepalive
                                ELSE old.PersistentKeepalive]
  ELSE [old EXCEPT !.AllowedIPs = @ \ peer.AllowedIPs]

(* wg set peer, index by index: a key that is new is appended first.       *)
LEMMA SetPeerByIndex ==
  ASSUME NEW peers \in Seq(WireGuardPeer), NEW peer \in WireGuardPeer
  PROVE  \E all \in Seq(WireGuardPeer) :
           /\ WGSetPeer(peers, peer) = [i \in DOMAIN all |-> SetOf(all[i], peer)]
           /\ Apart(peers) => Apart(all)
           /\ \E i \in DOMAIN all : all[i].PublicKey = peer.PublicKey
           /\ all = peers \/ Len(all) = Len(peers) + 1
<1> DEFINE new == [PublicKey |-> peer.PublicKey, Endpoint |-> "",
                   AllowedIPs |-> {}, PersistentKeepalive |-> 0]
           Has == \E i \in DOMAIN peers : peers[i].PublicKey = peer.PublicKey
           more == Append(peers, new)
<1>1. WGSetPeer(peers, peer) = LET all == IF Has THEN peers ELSE more
                               IN [i \in DOMAIN all |-> SetOf(all[i], peer)]
  BY DEF WGSetPeer, SetOf
<1>2. CASE Has
  BY <1>1, <1>2
<1>3. CASE ~Has
  <2>1. new \in WireGuardPeer /\ new.PublicKey = peer.PublicKey /\ new.AllowedIPs = {}
    BY PolicyAssumption DEF WireGuardPeer
  <2> HIDE DEF new
  <2>2. /\ more \in Seq(WireGuardPeer) /\ Len(more) = Len(peers) + 1
        /\ DOMAIN more = 1 .. Len(peers) + 1 /\ DOMAIN peers = 1 .. Len(peers)
        /\ \A i \in 1 .. Len(peers) : more[i] = peers[i]
        /\ more[Len(peers) + 1] = new
    BY <2>1
  <2> HIDE DEF more
  <2>3. Apart(peers) => Apart(more)
    BY <1>3, <2>1, <2>2 DEF Apart
  <2>4. Len(peers) + 1 \in DOMAIN more
    BY <2>2
  <2> QED BY <1>1, <1>3, <2>1, <2>2, <2>3, <2>4
<1> QED BY <1>2, <1>3

(* A peer that is set takes its AllowedIPs from the others.                *)
LEMMA SetPeerApart ==
  ASSUME NEW peers \in Seq(WireGuardPeer), NEW peer \in WireGuardPeer, Apart(peers)
  PROVE  Apart(WGSetPeer(peers, peer))
<1>1. PICK all \in Seq(WireGuardPeer) :
        /\ WGSetPeer(peers, peer) = [i \in DOMAIN all |-> SetOf(all[i], peer)]
        /\ Apart(all)
  BY SetPeerByIndex
<1> DEFINE new == [i \in DOMAIN all |-> SetOf(all[i], peer)]
<1>2. \A old \in WireGuardPeer :
        /\ SetOf(old, peer).PublicKey = old.PublicKey
        /\ old.PublicKey = peer.PublicKey =>
             SetOf(old, peer).AllowedIPs \in {old.AllowedIPs, peer.AllowedIPs}
        /\ old.PublicKey # peer.PublicKey =>
             SetOf(old, peer).AllowedIPs = old.AllowedIPs \ peer.AllowedIPs
  BY DEF SetOf, WireGuardPeer
<1>3. \A i \in DOMAIN all : all[i] \in WireGuardPeer
  OBVIOUS
<1>4. DOMAIN new = DOMAIN all /\ \A i \in DOMAIN all : new[i] = SetOf(all[i], peer)
  OBVIOUS
<1> HIDE DEF new
<1>5. ASSUME NEW j \in DOMAIN new, NEW k \in DOMAIN new, j # k
      PROVE  /\ new[j].PublicKey # new[k].PublicKey
             /\ new[j].AllowedIPs \cap new[k].AllowedIPs = {}
  <2>1. /\ all[j].PublicKey # all[k].PublicKey
        /\ all[j].AllowedIPs \cap all[k].AllowedIPs = {}
    BY <1>1, <1>4, <1>5 DEF Apart
  <2> QED BY <1>2, <1>3, <1>4, <2>1
<1> QED BY <1>1, <1>5 DEF Apart, new

(* Peers among which setting one of them changes nothing have it.          *)
LEMMA SetChangesNothing ==
  ASSUME NEW peers \in Seq(WireGuardPeer), NEW peer \in WireGuardPeer, Apart(peers),
         WGSetPeer(peers, peer) = peers
  PROVE  \E k \in DOMAIN peers :
           /\ peers[k].PublicKey = peer.PublicKey
           /\ peer.Endpoint # "" => peers[k].Endpoint = peer.Endpoint
           /\ peer.AllowedIPs # {} => peers[k].AllowedIPs = peer.AllowedIPs
           /\ peer.PersistentKeepalive > 0 =>
                peers[k].PersistentKeepalive = peer.PersistentKeepalive
           /\ \A j \in DOMAIN peers \ {k} : peers[j].AllowedIPs \cap peer.AllowedIPs = {}
<1>1. PICK all \in Seq(WireGuardPeer) :
        /\ WGSetPeer(peers, peer) = [i \in DOMAIN all |-> SetOf(all[i], peer)]
        /\ \E i \in DOMAIN all : all[i].PublicKey = peer.PublicKey
        /\ all = peers \/ Len(all) = Len(peers) + 1
  BY SetPeerByIndex
<1>2. all = peers
  <2>1. DOMAIN all = DOMAIN peers
    BY <1>1
  <2>2. DOMAIN all = 1 .. Len(all) /\ Len(all) \in Nat
    OBVIOUS
  <2>3. DOMAIN peers = 1 .. Len(peers) /\ Len(peers) \in Nat
    OBVIOUS
  <2>4. ASSUME Len(all) = Len(peers) + 1 PROVE FALSE
    <3>1. Len(peers) + 1 \in DOMAIN all
      BY <2>2, <2>3, <2>4
    <3>2. Len(peers) + 1 \in 1 .. Len(peers)
      BY <2>1, <2>3, <3>1
    <3> QED BY <2>3, <3>2
  <2> QED BY <1>1, <2>4
<1>3. PICK k \in DOMAIN peers : peers[k].PublicKey = peer.PublicKey
  BY <1>1, <1>2
<1>4. ASSUME NEW i \in DOMAIN peers
      PROVE  peers[i] = SetOf(peers[i], peer) /\ peers[i] \in WireGuardPeer
  <2>1. peers[i] \in WireGuardPeer
    OBVIOUS
  <2>2. peers[i] = SetOf(all[i], peer)
    BY <1>1, <1>2
  <2> QED BY <1>2, <2>1, <2>2
<1>5. \A old \in WireGuardPeer : old.PublicKey = peer.PublicKey =>
        /\ peer.Endpoint # "" => SetOf(old, peer).Endpoint = peer.Endpoint
        /\ peer.AllowedIPs # {} => SetOf(old, peer).AllowedIPs = peer.AllowedIPs
        /\ peer.PersistentKeepalive > 0 =>
             SetOf(old, peer).PersistentKeepalive = peer.PersistentKeepalive
  BY DEF SetOf
<1>6. \A old \in WireGuardPeer : old.PublicKey # peer.PublicKey =>
        SetOf(old, peer).AllowedIPs = old.AllowedIPs \ peer.AllowedIPs
  BY DEF SetOf, WireGuardPeer
<1>7. /\ peer.Endpoint # "" => peers[k].Endpoint = peer.Endpoint
      /\ peer.AllowedIPs # {} => peers[k].AllowedIPs = peer.AllowedIPs
      /\ peer.PersistentKeepalive > 0 => peers[k].PersistentKeepalive = peer.PersistentKeepalive
  <2>1. peers[k] = SetOf(peers[k], peer) /\ peers[k] \in WireGuardPeer
    BY <1>4
  <2> QED BY <1>3, <1>5, <2>1
<1>8. ASSUME NEW j \in DOMAIN peers \ {k} PROVE peers[j].AllowedIPs \cap peer.AllowedIPs = {}
  <2>1. peers[j].PublicKey # peer.PublicKey
    BY <1>3 DEF Apart
  <2>2. peers[j] = SetOf(peers[j], peer) /\ peers[j] \in WireGuardPeer
    BY <1>4
  <2>3. peers[j].AllowedIPs = peers[j].AllowedIPs \ peer.AllowedIPs
    BY <1>6, <2>1, <2>2
  <2> QED BY <2>3
<1> QED BY <1>3, <1>7, <1>8

(* A device on which the peer is set already has it.                       *)
LEMMA SetIsPeered ==
  ASSUME NEW dev \in Device, NEW cfg \in WireGuardConfig, Apart(dev.Peers),
         cfg.Peer.PublicKey # "", PeerSet(dev, cfg)
  PROVE  Peered(dev, cfg.Peer)
<1>1. dev.Peers \in Seq(WireGuardPeer) /\ cfg.Peer \in WireGuardPeer
  BY DEF Device, WireGuardConfig
<1>2. WGSetPeer(dev.Peers, cfg.Peer) = dev.Peers
  BY DEF PeerSet
<1> QED BY <1>1, <1>2, SetChangesNothing DEF Peered

(* The first of a sequence.                                                *)
LEMMA FirstElement ==
  ASSUME NEW S, NEW x \in Seq(S), x # << >>
  PROVE  1 \in DOMAIN x /\ Head(x) = x[1]
OBVIOUS

(* So does one whose dump matches.                                         *)
LEMMA MatchIsPeered ==
  ASSUME NEW dev \in Device, NEW cfg \in WireGuardConfig, Apart(dev.Peers),
         cfg.Peer.PublicKey # "", DumpMatches(dev, cfg)
  PROVE  Peered(dev, cfg.Peer)
<1> DEFINE peers == dev.Peers
           peer  == cfg.Peer
           none  == [PublicKey |-> "", Endpoint |-> "",
                     AllowedIPs |-> {}, PersistentKeepalive |-> 0]
<1>1. peers \in Seq(WireGuardPeer) /\ Apart(peers) /\ peer.PublicKey # ""
  BY DEF Device
<1>2. (IF peers = << >> THEN none ELSE Head(peers)) = peer
  BY DEF DumpMatches
<1>3. none.PublicKey = ""
  OBVIOUS
<1>4. peers # << >>
  <2> HIDE DEF none, peers, peer
  <2> QED BY <1>1, <1>2, <1>3
<1>5. Head(peers) = peer
  <2> HIDE DEF none, peers, peer
  <2> QED BY <1>2, <1>4
<1>6. 1 \in DOMAIN peers /\ peers[1] = peer
  <2> HIDE DEF none, peers, peer
  <2> QED BY <1>1, <1>4, <1>5, FirstElement
<1>7. \A j \in DOMAIN peers \ {1} : peers[j].AllowedIPs \cap peer.AllowedIPs = {}
  <2> HIDE DEF none, peers, peer
  <2> QED BY <1>1, <1>6 DEF Apart
<1> QED BY <1>6, <1>7 DEF Peered

(* Peers stay apart.                                                       *)
LEMMA ApartStep ==
  ASSUME TypeInv, ApartInv, [Next]_vars
  PROVE  ApartInv'
<1>0. RunnerTypeOK /\ KernelTypeOK
  BY DEF TypeInv, TypeOK
<1>1. ASSUME \A i \in Ifaces : wg'[i].Peers = wg[i].Peers \/ Apart(wg'[i].Peers) PROVE ApartInv'
  BY <1>1 DEF ApartInv, Apart
<1>2. CASE wg' = wg
  BY <1>1, <1>2
<1>3. ASSUME NEW j \in Ifaces, NEW dev, wg' = [wg EXCEPT ![j] = dev],
             dev.Peers = wg[j].Peers \/ Apart(dev.Peers)
      PROVE  ApartInv'
  <2>1. \A i \in Ifaces : wg'[i] = IF i = j THEN dev ELSE wg[i]
    BY <1>0, <1>3 DEF KernelTypeOK
  <2> QED BY <1>1, <1>3, <2>1
<1>4. Apart(NoDevice.Peers)
  BY DEF NoDevice, Apart
<1>5. CASE UNCHANGED vars
  BY <1>2, <1>5 DEF vars, kernel
<1>6. ASSUME NEW s \in Procs, Move(s) \/ Kill(s) PROVE ApartInv'
  BY <1>2, <1>6, MoveKeeps DEF kernel
<1>7. ASSUME NEW s \in Procs, ClearStep(s) PROVE ApartInv'
  <2>1. wg' = wg \/ \E j \in Ifaces : wg' = [wg EXCEPT ![j] = NoDevice]
    BY <1>7 DEF ClearStep, ClearLink, ClearRule, ClearTable, ClearNft, LinkDel, Ifaces
  <2> QED BY <1>2, <1>3, <1>4, <2>1
<1>8. ASSUME NEW i \in Ifaces, LinkLost(i) \/ LinkForcedDown(i) PROVE ApartInv'
  BY <1>2, <1>3, <1>4, <1>8 DEF LinkLost, LinkForcedDown, LinkDel
<1>9. ASSUME NEW j \in Ifaces, Roam(j) PROVE ApartInv'
  <2> DEFINE peers == wg[j].Peers
  <2>1. PICK k \in DOMAIN peers : wg' = [wg EXCEPT ![j].Peers[k].Endpoint = RoamedTo]
    BY <1>9 DEF Roam
  <2>2. peers \in Seq(WireGuardPeer) /\ wg[j] \in Device /\ Apart(peers)
    BY <1>0 DEF KernelTypeOK, Device, ApartInv
  <2> DEFINE peer == [peers[k] EXCEPT !.Endpoint = RoamedTo]
             new == [peers EXCEPT ![k] = peer]
             dev == [wg[j] EXCEPT !.Peers = new]
  <2>3. dev.Peers = new /\ wg' = [wg EXCEPT ![j] = dev]
    BY <2>1, <2>2 DEF Device
  <2>4. peer.PublicKey = peers[k].PublicKey /\ peer.AllowedIPs = peers[k].AllowedIPs
    <3>1. peers[k] \in WireGuardPeer
      BY <2>1, <2>2
    <3> HIDE DEF peers
    <3> QED BY <3>1 DEF WireGuardPeer
  <2>5. Apart(new)
    <3> HIDE DEF peer, peers
    <3>1. /\ DOMAIN new = DOMAIN peers
          /\ \A i \in DOMAIN peers : new[i] = IF i = k THEN peer ELSE peers[i]
      BY <2>1
    <3> HIDE DEF new
    <3>2. \A i \in DOMAIN peers : /\ new[i].PublicKey = peers[i].PublicKey
                                  /\ new[i].AllowedIPs = peers[i].AllowedIPs
      BY <2>4, <3>1
    <3> QED BY <2>2, <3>1, <3>2 DEF Apart
  <2> HIDE DEF dev, new, peer, peers
  <2> QED BY <1>3, <2>3, <2>5
<1>10. ASSUME NEW s \in Procs, SysctlNext(s) \/ NftNext(s) \/ RoutingNext(s) PROVE ApartInv'
  BY <1>2, <1>10, WorkKeeps
<1>11. ASSUME NEW s \in Procs, WGNext(s) PROVE ApartInv'
  <2> DEFINE j == phase[s]
             peers == wg[j].Peers
             peer == WGWant(s).cfg.Peer
  <2>1. j \in Ifaces
    BY <1>11, WGKeeps
  <2>2. peers \in Seq(WireGuardPeer) /\ wg[j] \in Device /\ Apart(peers)
    BY <1>0, <2>1 DEF KernelTypeOK, Device, ApartInv
  <2>3. \/ wg' = wg
        \/ \E dev : /\ wg' = [wg EXCEPT ![j] = dev]
                    /\ dev.Peers = peers \/ dev.Peers = WGSetPeer(peers, peer)
    <3>1. CASE LinkShow(s) \/ LinkAdd(s) \/ RouteDel(s) \/ SetLinkDown(s) \/ Dump(s)
               \/ AddrShow(s) \/ SetLinkUp(s) \/ RouteReplace(s)
      BY <3>1 DEF LinkShow, LinkAdd, RouteDel, SetLinkDown, Dump, AddrShow, SetLinkUp,
                  RouteReplace
    <3>2. CASE SetKey(s) \/ AddrReplace(s)
      BY <2>2, <3>2 DEF SetKey, AddrReplace, SetCommand, SetDevice, Device
    <3>3. CASE SetPeer(s)
      <4> DEFINE dev == [wg[j] EXCEPT !.Peers = WGSetPeer(@, peer)]
      <4>1. dev.Peers = WGSetPeer(peers, peer)
        BY <2>2 DEF Device
      <4>2. wg' = wg \/ wg' = [wg EXCEPT ![j] = dev]
        BY <3>3 DEF SetPeer, SetCommand, SetDevice
      <4> QED BY <4>1, <4>2
    <3> QED BY <1>11, <3>1, <3>2, <3>3 DEF WGNext
  <2>4. peer \in WireGuardPeer
    <3>1. pol[s] \in Policies
      BY <1>0 DEF RunnerTypeOK
    <3> QED BY <2>1, <3>1, WGSpecType DEF WGWant
  <2>5. Apart(WGSetPeer(peers, peer))
    BY <2>2, <2>4, SetPeerApart
  <2> HIDE DEF peer
  <2> QED BY <1>2, <1>3, <2>1, <2>3, <2>5
<1> QED BY <1>5, <1>6, <1>7, <1>8, <1>9, <1>10, <1>11, StepKinds DEF Work, Outside

(* A settled device has what its policy gives it.                          *)
LEMMA FixedIsSet ==
  ASSUME TypeInv, ApartInv, NEW p \in Policies, NEW i \in Ifaces, FixedDevice(p, i)
  PROVE  DeviceSet(p, i)
<1> DEFINE spec == WGSpec(p, i)
           cfg == spec.cfg
<1>1. wg[i] \in Device /\ Apart(wg[i].Peers)
  BY DEF TypeInv, TypeOK, KernelTypeOK, ApartInv
<1>2. cfg \in WireGuardConfig
  BY PolicyFields DEF WGSpec
<1>3. spec.Managed => link[i] = IF spec.Up THEN "up" ELSE "down"
  BY DEF FixedDevice
<1>4. ASSUME spec.Managed, spec.Up
      PROVE  /\ wg[i].PrivateKey = cfg.PrivateKey
             /\ cfg.ListenPort > 0 => wg[i].ListenPort = cfg.ListenPort
             /\ cfg.Address # "" => cfg.Address \in wg[i].Addresses
             /\ cfg.Peer.PublicKey # "" => Peered(wg[i], cfg.Peer)
  <2>1. Matched(cfg, i) \/ Rewritten(cfg, i)
    BY <1>4 DEF FixedDevice
  <2> HIDE DEF cfg, spec
  <2>2. CASE Matched(cfg, i)
    BY <1>1, <1>2, <2>2, MatchIsPeered DEF Matched, DumpMatches, AddressSet
  <2>3. CASE Rewritten(cfg, i)
    BY <1>1, <1>2, <2>3, SetIsPeered DEF Rewritten, KeySet, AddressSet
  <2> QED BY <2>1, <2>2, <2>3
<1> QED BY <1>3, <1>4 DEF DeviceSet

(* After an apply that reports success and was not interfered with, and    *)
(* until the next command, wg-exit and wg-clients are up or down as the    *)
(* policy says, and those that are up have its key, port and address, and  *)
(* its peer with all it was given and with the AllowedIPs to itself:       *)
(* whatever was rotated, had roamed, or was left half done before.  The    *)
(* hypotheses are those of ReapplyTouchesNothingHolds, whose invariant     *)
(* this rests on.                                                          *)
THEOREM DeviceConvergesHolds ==
  ASSUME NoLookalike, SameFirewall \/ KnownFirewall, FlushSafe, Listable, SeparateRoutes
  PROVE  Spec => []DeviceConverges
<1>1. Init => ConvergedInv /\ FixedInv /\ ApartInv
  <2>1. Apart(NoDevice.Peers)
    BY DEF Apart, NoDevice
  <2>2. Init => \A i \in Ifaces : wg[i] = NoDevice
    BY DEF Init
  <2>3. Init => ApartInv
    BY <2>1, <2>2 DEF ApartInv
  <2> QED BY <2>3, ConvergedInit, FixedInit
<1>2. TypeInv /\ ConvergedInv /\ FixedInv /\ ApartInv /\ [Next]_vars
        => ConvergedInv' /\ FixedInv' /\ ApartInv'
  BY ConvergedStep, FixedStep, ApartStep
<1>3. TypeInv /\ FixedInv /\ ApartInv => DeviceConverges
  <2> SUFFICES ASSUME TypeInv, FixedInv, ApartInv, NEW p \in stable, NEW i \in Ifaces
               PROVE  DeviceSet(p, i)
    BY DEF DeviceConverges
  <2>1. p \in Policies /\ FixedDevice(p, i)
    BY DEF TypeInv, TypeOK, FixedInv, Fixed
  <2> QED BY <2>1, FixedIsSet
<1> QED BY <1>1, <1>2, <1>3, InitTyped, NextTyped, PTL DEF Spec

-----------------------------------------------------------------------------
(* A repeated apply only reads, if the policies name one peer.             *)

(* A sequence of one element.                                              *)
LEMMA OneElement ==
  ASSUME NEW S, NEW x \in Seq(S), Len(x) = 1
  PROVE  x # << >> /\ Head(x) = x[1] /\ x[1] \in S
OBVIOUS

(* What tells two peers apart.                                             *)
LEMMA SamePeer ==
  ASSUME NEW x \in WireGuardPeer, NEW y \in WireGuardPeer, x.PublicKey = y.PublicKey,
         x.Endpoint = y.Endpoint, x.AllowedIPs = y.AllowedIPs,
         x.PersistentKeepalive = y.PersistentKeepalive
  PROVE  x = y
BY DEF WireGuardPeer

(* The peer an interface has after wg set, if it had that one or none.     *)
LEMMA SetOnePeer ==
  ASSUME NEW peers \in Seq(WireGuardPeer), NEW peer \in WireGuardPeer,
         peers = << >> \/ (Len(peers) = 1 /\ peers[1].PublicKey = peer.PublicKey)
  PROVE  LET new == WGSetPeer(peers, peer)
             old == IF peers = << >> THEN EmptyPeer ELSE peers[1]
         IN /\ Len(new) = 1 /\ new[1].PublicKey = peer.PublicKey
            /\ new[1].Endpoint = IF peer.Endpoint # "" THEN peer.Endpoint ELSE old.Endpoint
            /\ new[1].AllowedIPs = IF peer.AllowedIPs # {} THEN peer.AllowedIPs
                                                           ELSE old.AllowedIPs
            /\ new[1].PersistentKeepalive = IF peer.PersistentKeepalive > 0
                                            THEN peer.PersistentKeepalive
                                            ELSE old.PersistentKeepalive
<1> DEFINE first == [PublicKey |-> peer.PublicKey, Endpoint |-> "",
                     AllowedIPs |-> {}, PersistentKeepalive |-> 0]
           known == \E i \in DOMAIN peers : peers[i].PublicKey = peer.PublicKey
           all == IF known THEN peers ELSE Append(peers, first)
           new == WGSetPeer(peers, peer)
           old == IF peers = << >> THEN EmptyPeer ELSE peers[1]
<1>1. /\ DOMAIN all = {1} /\ all[1].PublicKey = peer.PublicKey
      /\ all[1].Endpoint = old.Endpoint /\ all[1].AllowedIPs = old.AllowedIPs
      /\ all[1].PersistentKeepalive = old.PersistentKeepalive
  <2>1. CASE peers = << >>
    <3>1. ~known
      BY <2>1
    <3>2. Append(peers, first) = << first >>
      BY <2>1
    <3>3. \A x : DOMAIN << x >> = {1} /\ << x >>[1] = x
      OBVIOUS
    <3>4. all = << first >>
      BY <3>1, <3>2
    <3>5. /\ first.PublicKey = peer.PublicKey /\ first.Endpoint = old.Endpoint
          /\ first.AllowedIPs = old.AllowedIPs
          /\ first.PersistentKeepalive = old.PersistentKeepalive
      BY <2>1 DEF EmptyPeer
    <3> HIDE DEF all, first, old
    <3>6. DOMAIN all = {1} /\ all[1] = first
      BY <3>3, <3>4
    <3> QED BY <3>5, <3>6
  <2>2. CASE Len(peers) = 1 /\ peers[1].PublicKey = peer.PublicKey
    <3>1. DOMAIN peers = {1} /\ peers # << >>
      BY <2>2
    <3>2. all = peers
      BY <2>2, <3>1
    <3> QED BY <2>2, <3>1, <3>2
  <2> QED BY <2>1, <2>2
<1>2. /\ DOMAIN new = DOMAIN all
      /\ \A i \in DOMAIN all : all[i].PublicKey = peer.PublicKey =>
           new[i] = [PublicKey  |-> peer.PublicKey,
                     Endpoint   |-> IF peer.Endpoint # "" THEN peer.Endpoint
                                                          ELSE all[i].Endpoint,
                     AllowedIPs |-> IF peer.AllowedIPs # {} THEN peer.AllowedIPs
                                                            ELSE all[i].AllowedIPs,
                     PersistentKeepalive |-> IF peer.PersistentKeepalive > 0
                                             THEN peer.PersistentKeepalive
                                             ELSE all[i].PersistentKeepalive]
  BY DEF WGSetPeer
<1>3. new \in Seq(WireGuardPeer)
  BY WGSetPeerType
<1> HIDE DEF all, new, old
<1>4. Len(new) = 1
  <2>1. Len(new) \in Nat /\ DOMAIN new = 1 .. Len(new)
    BY <1>3
  <2>2. DOMAIN new = {1}
    BY <1>1, <1>2
  <2>3. 1 .. Len(new) = {1}
    BY <2>1, <2>2
  <2> DEFINE k == Len(new)
  <2>4. k \in Nat /\ 1 .. k = {1}
    BY <2>1, <2>3
  <2> HIDE DEF k
  <2>5. 1 \in 1 .. k /\ 2 \notin 1 .. k
    BY <2>4
  <2>6. k = 1
    BY <2>4, <2>5
  <2> QED BY <2>6 DEF k
<1>5. /\ new[1].PublicKey = peer.PublicKey
      /\ new[1].Endpoint = IF peer.Endpoint # "" THEN peer.Endpoint ELSE all[1].Endpoint
      /\ new[1].AllowedIPs = IF peer.AllowedIPs # {} THEN peer.AllowedIPs
                                                     ELSE all[1].AllowedIPs
      /\ new[1].PersistentKeepalive = IF peer.PersistentKeepalive > 0
                                      THEN peer.PersistentKeepalive
                                      ELSE all[1].PersistentKeepalive
  <2> DEFINE e == IF peer.Endpoint # "" THEN peer.Endpoint ELSE all[1].Endpoint
             a == IF peer.AllowedIPs # {} THEN peer.AllowedIPs ELSE all[1].AllowedIPs
             k == IF peer.PersistentKeepalive > 0 THEN peer.PersistentKeepalive
                                                  ELSE all[1].PersistentKeepalive
  <2>1. new[1] = [PublicKey |-> peer.PublicKey, Endpoint |-> e, AllowedIPs |-> a,
                  PersistentKeepalive |-> k]
    BY <1>1, <1>2
  <2> HIDE DEF e, a, k
  <2>2. /\ new[1].PublicKey = peer.PublicKey /\ new[1].Endpoint = e
        /\ new[1].AllowedIPs = a /\ new[1].PersistentKeepalive = k
    BY <2>1
  <2> QED BY <2>2 DEF e, a, k
<1> QED BY <1>1, <1>4, <1>5 DEF new, old

(* The peers the policies want for an interface differ in no gap.          *)
LEMMA PeersAlike ==
  ASSUME OnePeer, NEW i \in Ifaces, NEW P \in PeersOf(i), NEW Q \in PeersOf(i)
  PROVE  /\ P \in WireGuardPeer /\ SameGaps(P, Q)
         /\ P.PublicKey = "" => P = EmptyPeer
         /\ P.PublicKey # "" /\ "roam" \in Fallible => P.Endpoint # ""
<1>1. PICK p \in { r \in Policies : Manages(r, i) } : P = WGSpec(p, i).cfg.Peer
  BY DEF PeersOf
<1>2. PICK q \in { r \in Policies : Manages(r, i) } : Q = WGSpec(q, i).cfg.Peer
  BY DEF PeersOf
<1>3. P \in WireGuardPeer
  BY <1>1, WGSpecType
<1> QED BY <1>1, <1>2, <1>3 DEF OnePeer

(* A peer that is set stays the only one.                                  *)
LEMMA PeerKept ==
  ASSUME OnePeer, NEW i \in Ifaces, NEW peers \in Seq(WireGuardPeer),
         NEW peer \in PeersOf(i), peer.PublicKey # "",
         \/ peers = << >>
         \/ /\ Len(peers) = 1
            /\ \E want \in PeersOf(i) : want.PublicKey # "" /\ SameGaps(peers[1], want)
  PROVE  /\ Len(WGSetPeer(peers, peer)) = 1
         /\ SameGaps(WGSetPeer(peers, peer)[1], peer)
<1> DEFINE new == WGSetPeer(peers, peer)
           old == IF peers = << >> THEN EmptyPeer ELSE peers[1]
<1>1. peer \in WireGuardPeer
  BY PeersAlike
<1>2. /\ peers = << >> \/ (Len(peers) = 1 /\ peers[1].PublicKey = peer.PublicKey)
      /\ peer.Endpoint = "" => old.Endpoint = ""
      /\ peer.AllowedIPs = {} => old.AllowedIPs = {}
      /\ peer.PersistentKeepalive = 0 => old.PersistentKeepalive = 0
  <2>1. CASE peers = << >>
    BY <2>1 DEF EmptyPeer
  <2>2. ASSUME Len(peers) = 1, NEW want \in PeersOf(i), SameGaps(peers[1], want)
        PROVE  /\ Len(peers) = 1 /\ old = peers[1] /\ old.PublicKey = peer.PublicKey
               /\ peer.Endpoint = "" => old.Endpoint = ""
               /\ peer.AllowedIPs = {} => old.AllowedIPs = {}
               /\ peer.PersistentKeepalive = 0 => old.PersistentKeepalive = 0
    <3>1. SameGaps(want, peer)
      BY PeersAlike
    <3>2. peers # << >>
      BY <2>2, OneElement
    <3> QED BY <2>2, <3>1, <3>2 DEF SameGaps
  <2> QED BY <2>1, <2>2
<1>3. /\ Len(new) = 1 /\ new[1].PublicKey = peer.PublicKey
      /\ new[1].Endpoint = IF peer.Endpoint # "" THEN peer.Endpoint ELSE old.Endpoint
      /\ new[1].AllowedIPs = IF peer.AllowedIPs # {} THEN peer.AllowedIPs ELSE old.AllowedIPs
      /\ new[1].PersistentKeepalive = IF peer.PersistentKeepalive > 0
                                      THEN peer.PersistentKeepalive
                                      ELSE old.PersistentKeepalive
  BY <1>1, <1>2, SetOnePeer
<1> HIDE DEF new, old
<1>4. peer.PersistentKeepalive \in Nat
  BY <1>1 DEF WireGuardPeer
<1>5. SameGaps(new[1], peer)
  BY <1>2, <1>3, <1>4 DEF SameGaps
<1> QED BY <1>3, <1>5 DEF new

(* What wg set makes no different is what is wanted.                       *)
LEMMA RewrittenMatches ==
  ASSUME OnePeer, TypeInv, PeersInv, NEW p \in Policies, NEW i \in Ifaces, Manages(p, i),
         Rewritten(WGSpec(p, i).cfg, i)
  PROVE  Matched(WGSpec(p, i).cfg, i)
<1> DEFINE cfg == WGSpec(p, i).cfg
           peer == cfg.Peer
           peers == wg[i].Peers
<1>1. peer \in PeersOf(i)
  BY DEF PeersOf
<1>2. peers \in Seq(WireGuardPeer)
  BY DEF TypeInv, TypeOK, KernelTypeOK, Device
<1>3. /\ KeySet(wg[i], cfg) /\ AddressSet(wg[i], cfg)
      /\ peer.PublicKey # "" => WGSetPeer(peers, peer) = peers
  BY DEF Rewritten, PeerSet
<1>4. /\ peer \in WireGuardPeer
      /\ peer.PublicKey = "" => peer = EmptyPeer
  BY <1>1, PeersAlike
<1>5. \/ peers = << >>
      \/ /\ Len(peers) = 1
         /\ \E want \in PeersOf(i) : want.PublicKey # "" /\ SameGaps(peers[1], want)
  BY DEF PeersInv
<1> HIDE DEF cfg, peer, peers
<1>6. CASE peer.PublicKey = ""
  <2>1. \A want \in PeersOf(i) : want.PublicKey = ""
    BY <1>1, <1>6, PeersAlike DEF SameGaps
  <2>2. peers = << >> /\ peer = EmptyPeer
    BY <1>4, <1>5, <1>6, <2>1
  <2> QED BY <1>3, <2>2 DEF Matched, DumpMatches, KeySet, EmptyPeer, cfg, peer, peers
<1>7. CASE peer.PublicKey # ""
  <2>1. Len(peers) = 1 /\ SameGaps(peers[1], peer)
    BY <1>1, <1>2, <1>3, <1>5, <1>7, PeerKept
  <2>2. peers # << >> /\ Head(peers) = peers[1] /\ peers[1] \in WireGuardPeer
    BY <1>2, <2>1, OneElement
  <2>3. peers[1].PublicKey = peer.PublicKey
    BY <2>1 DEF SameGaps
  <2>4. /\ peers[1].Endpoint = IF peer.Endpoint # "" THEN peer.Endpoint ELSE peers[1].Endpoint
        /\ peers[1].AllowedIPs = IF peer.AllowedIPs # {} THEN peer.AllowedIPs
                                                         ELSE peers[1].AllowedIPs
        /\ peers[1].PersistentKeepalive = IF peer.PersistentKeepalive > 0
                                          THEN peer.PersistentKeepalive
                                          ELSE peers[1].PersistentKeepalive
    <3> DEFINE new == WGSetPeer(peers, peer)
               old == IF peers = << >> THEN EmptyPeer ELSE peers[1]
    <3>1. /\ new[1].Endpoint = IF peer.Endpoint # "" THEN peer.Endpoint ELSE old.Endpoint
          /\ new[1].AllowedIPs = IF peer.AllowedIPs # {} THEN peer.AllowedIPs ELSE old.AllowedIPs
          /\ new[1].PersistentKeepalive = IF peer.PersistentKeepalive > 0
                                          THEN peer.PersistentKeepalive
                                          ELSE old.PersistentKeepalive
      BY <1>2, <1>4, <2>1, <2>3, SetOnePeer
    <3>2. new = peers /\ old = peers[1]
      BY <1>3, <1>7, <2>2
    <3> HIDE DEF new, old
    <3> QED BY <3>1, <3>2
  <2>5. peers[1] = peer
    <3>1. /\ peers[1].Endpoint = peer.Endpoint /\ peers[1].AllowedIPs = peer.AllowedIPs
      BY <2>1, <2>4 DEF SameGaps
    <3>2. peers[1].PersistentKeepalive = peer.PersistentKeepalive
      <4>1. peer.PersistentKeepalive \in Nat
        BY <1>4 DEF WireGuardPeer
      <4>2. CASE peer.PersistentKeepalive > 0
        BY <2>4, <4>2
      <4>3. CASE peer.PersistentKeepalive = 0
        BY <2>1, <4>3 DEF SameGaps
      <4> QED BY <4>1, <4>2, <4>3
    <3> QED BY <1>4, <2>2, <2>3, <3>1, <3>2, SamePeer
  <2> QED BY <1>3, <2>2, <2>5 DEF Matched, DumpMatches, KeySet, cfg, peer, peers
<1> QED BY <1>6, <1>7

(* No interface gets another peer.                                         *)
LEMMA PeersStep ==
  ASSUME OnePeer, TypeInv, TableInv, ModeInv, PeersInv, [Next]_vars
  PROVE  PeersInv'
<1>0. RunnerTypeOK /\ KernelTypeOK
  BY DEF TypeInv, TypeOK
<1>1. ASSUME \A i \in Ifaces : wg'[i].Peers \in {wg[i].Peers, << >>} PROVE PeersInv'
  BY <1>1 DEF PeersInv
<1>2. CASE wg' = wg
  BY <1>1, <1>2
<1>3. ASSUME NEW j \in Ifaces, wg' = [wg EXCEPT ![j] = NoDevice] PROVE PeersInv'
  <2>1. \A i \in Ifaces : wg'[i] = IF i = j THEN NoDevice ELSE wg[i]
    BY <1>0, <1>3 DEF KernelTypeOK
  <2>2. NoDevice.Peers = << >>
    BY DEF NoDevice
  <2>3. \A i \in Ifaces : wg'[i].Peers \in {wg[i].Peers, << >>}
    BY <2>1, <2>2
  <2> QED BY <1>1, <2>3
<1>4. CASE UNCHANGED vars
  BY <1>2, <1>4 DEF vars, kernel
<1>5. ASSUME NEW s \in Procs, Move(s) \/ Kill(s) PROVE PeersInv'
  BY <1>2, <1>5, MoveKeeps DEF kernel
<1>6. ASSUME NEW s \in Procs, ClearStep(s) PROVE PeersInv'
  <2>1. wg' = wg \/ \E j \in Ifaces : wg' = [wg EXCEPT ![j] = NoDevice]
    BY <1>6 DEF ClearStep, ClearLink, ClearRule, ClearTable, ClearNft, LinkDel, Ifaces
  <2> QED BY <1>2, <1>3, <2>1
<1>7. ASSUME NEW i \in Ifaces, LinkLost(i) \/ LinkForcedDown(i) PROVE PeersInv'
  BY <1>2, <1>3, <1>7 DEF LinkLost, LinkForcedDown, LinkDel
<1>8. ASSUME NEW j \in Ifaces, Roam(j) PROVE PeersInv'
  <2> DEFINE peers == wg[j].Peers
  <2>1. "roam" \in Fallible
    BY <1>8 DEF Roam, Fault
  <2>2. PICK k \in DOMAIN peers : wg' = [wg EXCEPT ![j].Peers[k].Endpoint = RoamedTo]
    BY <1>8 DEF Roam
  <2>3. peers \in Seq(WireGuardPeer) /\ wg[j] \in Device
    BY <1>0 DEF KernelTypeOK, Device
  <2>4. PICK want \in PeersOf(j) : /\ Len(peers) = 1 /\ want.PublicKey # ""
                                   /\ SameGaps(peers[1], want)
    <3>1. peers # << >>
      BY <2>2
    <3> QED BY <3>1 DEF PeersInv
  <2>5. want.Endpoint # ""
    BY <2>1, <2>4, PeersAlike
  <2>6. k = 1 /\ 1 \in 1 .. Len(peers) /\ peers[1] \in WireGuardPeer
    <3>1. DOMAIN peers = 1 .. Len(peers) /\ k \in DOMAIN peers
      BY <2>3
    <3> HIDE DEF peers
    <3>2. k \in 1 .. 1
      BY <2>4, <3>1
    <3>3. peers[1] \in WireGuardPeer
      BY <2>3, <2>4, OneElement
    <3>4. k = 1
      BY <3>2
    <3>5. 1 \in 1 .. Len(peers)
      BY <3>1, <3>4
    <3> QED BY <3>3, <3>4, <3>5
  <2> DEFINE peer == [peers[1] EXCEPT !.Endpoint = RoamedTo]
             new == [peers EXCEPT ![1] = peer]
  <2>7. /\ peer \in WireGuardPeer /\ peer.PublicKey = peers[1].PublicKey
        /\ peer.AllowedIPs = peers[1].AllowedIPs
        /\ peer.PersistentKeepalive = peers[1].PersistentKeepalive
    <3> HIDE DEF peers
    <3> QED BY <2>6, ApplyAssumption DEF WireGuardPeer
  <2>8. /\ \A i \in Ifaces \ {j} : wg'[i] = wg[i]
        /\ wg'[j].Peers = new
    <3>1. wg' = [wg EXCEPT ![j] = [wg[j] EXCEPT !.Peers = new]]
      BY <2>2, <2>6
    <3> HIDE DEF new
    <3> QED BY <1>0, <2>3, <3>1 DEF KernelTypeOK, Device
  <2>9. Len(new) = 1 /\ new[1] = peer
    <3> HIDE DEF peer, peers
    <3>1. /\ Len(new) = Len(peers)
          /\ \A i \in 1 .. Len(peers) : new[i] = IF i = 1 THEN peer ELSE peers[i]
      BY <2>3, <2>6, <2>7, ExceptSeq
    <3> QED BY <2>4, <2>6, <3>1
  <2> HIDE DEF new, peer, peers
  <2>10. SameGaps(new[1], want)
    BY <2>4, <2>5, <2>7, <2>9 DEF SameGaps
  <2> QED BY <2>4, <2>8, <2>9, <2>10 DEF PeersInv
<1>9. ASSUME NEW s \in Procs, SysctlNext(s) \/ NftNext(s) \/ RoutingNext(s) PROVE PeersInv'
  BY <1>2, <1>9, WorkKeeps
<1>10. ASSUME NEW s \in Procs, WGNext(s) PROVE PeersInv'
  <2> DEFINE j == phase[s]
             peers == wg[j].Peers
             peer == WGWant(s).cfg.Peer
  <2>1. j \in Ifaces
    BY <1>10, WGKeeps
  <2>2. peers \in Seq(WireGuardPeer) /\ wg[j] \in Device
    BY <1>0, <2>1 DEF KernelTypeOK, Device
  <2>3. \/ wg' = wg
        \/ \E dev : wg' = [wg EXCEPT ![j] = dev] /\ dev.Peers = peers
        \/ /\ pc[s] = "wg peer"
           /\ \E dev : wg' = [wg EXCEPT ![j] = dev] /\ dev.Peers = WGSetPeer(peers, peer)
    <3>1. CASE LinkShow(s) \/ LinkAdd(s) \/ RouteDel(s) \/ SetLinkDown(s) \/ Dump(s)
               \/ AddrShow(s) \/ SetLinkUp(s) \/ RouteReplace(s)
      BY <3>1 DEF LinkShow, LinkAdd, RouteDel, SetLinkDown, Dump, AddrShow, SetLinkUp,
                  RouteReplace
    <3>2. CASE SetKey(s) \/ AddrReplace(s)
      BY <2>2, <3>2 DEF SetKey, AddrReplace, SetCommand, SetDevice, Device
    <3>3. CASE SetPeer(s)
      <4> DEFINE dev == [wg[j] EXCEPT !.Peers = WGSetPeer(@, peer)]
      <4>1. dev.Peers = WGSetPeer(peers, peer)
        BY <2>2 DEF Device
      <4>2. pc[s] = "wg peer" /\ (wg' = wg \/ wg' = [wg EXCEPT ![j] = dev])
        BY <3>3 DEF SetPeer, SetCommand, SetDevice, At
      <4> QED BY <4>1, <4>2
    <3> QED BY <1>10, <3>1, <3>2, <3>3 DEF WGNext
  <2>4. ASSUME NEW dev, wg' = [wg EXCEPT ![j] = dev]
        PROVE  \A i \in Ifaces : wg'[i] = IF i = j THEN dev ELSE wg[i]
    BY <1>0, <2>4 DEF KernelTypeOK
  <2>5. ASSUME NEW dev, wg' = [wg EXCEPT ![j] = dev], dev.Peers = peers PROVE PeersInv'
    BY <1>1, <2>4, <2>5
  <2>6. ASSUME NEW dev, wg' = [wg EXCEPT ![j] = dev], dev.Peers = WGSetPeer(peers, peer),
               pc[s] = "wg peer"
        PROVE  PeersInv'
    <3>1. WGWant(s).Managed /\ peer.PublicKey # ""
      BY <2>6 DEF ModeInv, WGLabels
    <3>2. pol[s] \in Policies /\ Validate(pol[s])
      BY <1>0, <2>1 DEF RunnerTypeOK, TableInv, Accepted, Ifaces, TunnelIface, ClientsIface
    <3>3. peer \in PeersOf(j)
      BY <3>1, <3>2 DEF PeersOf, Manages, WGWant
    <3>4. \/ peers = << >>
          \/ /\ Len(peers) = 1
             /\ \E want \in PeersOf(j) : want.PublicKey # "" /\ SameGaps(peers[1], want)
      BY <2>1 DEF PeersInv
    <3> HIDE DEF j, peers, peer
    <3>5. /\ Len(WGSetPeer(peers, peer)) = 1
          /\ SameGaps(WGSetPeer(peers, peer)[1], peer)
      BY <2>1, <2>2, <3>1, <3>3, <3>4, PeerKept
    <3>6. \A i \in Ifaces : wg'[i] = IF i = j THEN dev ELSE wg[i]
      BY <2>4, <2>6
    <3> QED BY <2>1, <2>6, <3>1, <3>3, <3>5, <3>6 DEF PeersInv
  <2> QED BY <1>2, <2>3, <2>5, <2>6
<1> QED BY <1>4, <1>5, <1>6, <1>7, <1>8, <1>9, <1>10, StepKinds DEF Work, Outside

(* wireguard.Reconcile finds the device as it is wanted.                   *)
LEMMA RepeatReadsOnly ==
  ASSUME AlwaysUp, OnePeer, TypeInv, TableInv, ModeInv, PeersInv, NEW self \in Procs,
         RepeatAt(self), pc[self] \in Readers, faults' = faults, WGNext(self)
  PROVE  changes' = changes /\ pc'[self] \in Readers
<1> DEFINE i == phase[self]
           p == pol[self]
           w == WGWant(self)
<1>0. RunnerTypeOK
  BY DEF TypeInv, TypeOK
<1>1. i \in Ifaces
  BY WGKeeps
<1>2. p \in Policies /\ Validate(p) /\ w = WGSpec(p, i)
  BY <1>0, <1>1 DEF RunnerTypeOK, TableInv, Accepted, WGWant, Ifaces, TunnelIface, ClientsIface
<1>3. \A k : ~Fault(k)
  BY <1>0 DEF Fault, RunnerTypeOK
<1>4. w.Managed => w.Up
  <2> HIDE DEF i, p, w
  <2>1. p.WireGuard.PrivateKey # "" => p.TunnelUp
    BY <1>2 DEF AlwaysUp
  <2> QED BY <1>2, <2>1 DEF WGSpec
<1>5. w.Managed => link[i] = "up" /\ Matched(w.cfg, i)
  <2>1. FixedDevice(p, i)
    BY <1>1 DEF RepeatAt, Fixed
  <2>2. w.Managed => Manages(p, i)
    BY <1>2 DEF Manages
  <2> HIDE DEF i, p, w
  <2> QED BY <1>1, <1>2, <1>4, <2>1, <2>2, RewrittenMatches DEF FixedDevice
<1>6. LinkShow(self) \/ Dump(self) \/ AddrShow(self)
  BY DEF WGNext, LinkAdd, RouteDel, SetLinkDown, SetKey, SetPeer, AddrReplace, SetCommand,
         SetLinkUp, RouteReplace, At, Readers
<1>7. changes' = changes
  BY <1>6 DEF LinkShow, Dump, AddrShow
<1>8. CASE LinkShow(self)
  <2>1. \/ pc'[self] \in {"return", "wg dump"}
        \/ w.Managed /\ link[i] = "absent"
        \/ w.Managed /\ ~w.Up
        \/ w.Managed /\ link[i] = "down"
    BY <1>0, <1>3, <1>8 DEF LinkShow, Return, Goto, RunnerTypeOK
  <2> HIDE DEF i, p, w
  <2> QED BY <1>4, <1>5, <1>7, <2>1 DEF Readers
<1>9. CASE Dump(self) \/ AddrShow(self)
  <2>1. /\ w.Managed
        /\ pc[self] = "addr show" => w.cfg.Address # ""
    BY <1>9 DEF ModeInv, Dump, AddrShow, At, WGLabels
  <2>2. /\ DumpMatches(wg[i], w.cfg) /\ link[i] # "absent"
        /\ pc[self] = "addr show" => w.cfg.Address \in wg[i].Addresses
    BY <1>5, <2>1 DEF Matched, AddressSet
  <2>3. pc'[self] \in {"addr show", "return"}
    BY <1>0, <1>3, <1>9, <2>2 DEF Dump, AddrShow, Return, Goto, At, RunnerTypeOK
  <2> QED BY <1>7, <2>3 DEF Readers
<1> QED BY <1>6, <1>8, <1>9

(* A repeated apply does nothing but read.                                 *)
LEMMA ReadOnlyStep ==
  ASSUME AlwaysUp, OnePeer, TypeInv, ConvergedInv, FixedInv, PeersInv, ReadOnlyInv, [Next]_vars
  PROVE  ReadOnlyInv'
<1>0. TypeOK /\ RunnerTypeOK /\ TableInv /\ ModeInv /\ SoleInv
  BY DEF TypeInv, TypeOK, ConvergedInv
<1> SUFFICES ASSUME NEW s \in Procs, Repeating(s)'
             PROVE  ~changes'[s] /\ pc'[s] \in Readers
  BY DEF ReadOnlyInv
<1>1. pc'[s] # "idle" /\ run'[s] = "repeat"
  BY DEF Repeating
<1>2. CASE Repeating(s)
  <2>1. ~changes[s] /\ pc[s] \in Readers /\ RepeatAt(s)
    BY <1>2 DEF ReadOnlyInv, FixedInv
  <2>2. CASE Work(s) /\ RepeatAt(s) /\ faults' = faults
    <3>1. changes' = changes /\ pc'[s] \in Readers
      BY <1>0, <2>1, <2>2, RepeatReads, RepeatReadsOnly DEF Work
    <3> QED BY <2>1, <3>1
  <2>3. CASE UNCHANGED vars
    BY <2>1, <2>3 DEF vars, procVars
  <2>4. ASSUME NEW t \in Procs, Move(t) \/ Kill(t) PROVE ~changes'[s] /\ pc'[s] \in Readers
    <3>1. CASE t = s
      <4>1. pc[s] # "idle"
        BY <1>2 DEF Repeating
      <4>2. NextSubsystem(s)
        BY <1>1, <2>4, <3>1, <4>1, EndShape DEF Move, Kill, DisturbAll, Interfere, StartClear,
           StartApply, At
      <4> QED BY <2>1, <4>2, RepeatNext
    <3>2. CASE t # s
      <4>1. pc'[s] = pc[s]
        BY <2>4, <3>2, MoveKeeps DEF OthersKept
      <4>2. changes'[s] = changes[s]
        BY <1>0, <2>4, <3>2 DEF Move, NextSubsystem, ReturnError, ReturnOk, StartClear,
           StartApply, Kill, RunnerTypeOK
      <4> QED BY <2>1, <4>1, <4>2
    <3> QED BY <3>1, <3>2
  <2> QED BY <1>1, <1>2, <2>2, <2>3, <2>4, RepeatCommand
<1>3. CASE ~Repeating(s)
  <2>1. ~UNCHANGED << pc, run >>
    BY <1>1, <1>3 DEF Repeating
  <2>2. ASSUME NEW t \in Procs, NEW p \in Policies, StartApply(t, p)
        PROVE  ~changes'[s] /\ pc'[s] \in Readers
    <3>1. BeginRun(t, p) /\ pc' = [pc EXCEPT ![t] = "sysctl read"]
          /\ changes' = [changes EXCEPT ![t] = FALSE]
      BY <2>1, <2>2 DEF StartApply, SysctlEnter, Goto
    <3>2. t = s
      BY <1>1, <3>1 DEF BeginRun
    <3> QED BY <1>0, <3>1, <3>2 DEF RunnerTypeOK, Readers
  <2>3. ASSUME NEW t \in Procs, Work(t) \/ ClearStep(t), ObserveCommand(t) PROVE FALSE
    <3>1. run[s] = "repeat"
      BY <1>0, <1>1, <2>3, RunKept
    <3>2. OthersKept(t) /\ phase[t] # "idle"
      BY <2>3, SysctlShape, NftShape, WGShape, RoutingShape, ClearShape
         DEF Work, Shape, Ifaces, TunnelIface, ClientsIface
    <3>3. pc[t] # "idle"
      BY <3>2 DEF TypeInv, Control, ControlAt
    <3> QED BY <1>1, <1>3, <3>1, <3>2, <3>3 DEF Repeating, OthersKept
  <2>4. ASSUME NEW t \in Procs, NextSubsystem(t) \/ ReturnError(t) \/ ReturnOk(t) PROVE FALSE
    <3>1. run' = run /\ OthersKept(t) /\ pc[t] = "return"
      BY <2>4, MoveShape DEF NextSubsystem, ReturnError, ReturnOk, history, At
    <3> QED BY <1>1, <1>3, <3>1 DEF Repeating, OthersKept
  <2>5. CASE Outside \/ \E t \in Procs : Kill(t) \/ StartClear(t)
    BY <1>1, <2>5 DEF Outside, LinkLost, LinkForcedDown, Roam, Interfere, DisturbAll, Kill,
       StartClear
  <2>6. CASE UNCHANGED vars
    BY <2>1, <2>6 DEF vars, procVars, history
  <2> QED BY <2>2, <2>3, <2>4, <2>5, <2>6, StepKinds DEF Move
<1> QED BY <1>2, <1>3

(* Before the first command no interface has a peer.                       *)
LEMMA ReadOnlyInit == ASSUME Init PROVE PeersInv /\ ReadOnlyInv
<1>1. \A i \in Ifaces : wg[i].Peers = << >>
  BY DEF Init, NoDevice
<1>2. ReadOnlyInv
  BY DEF Init, ReadOnlyInv, Repeating
<1> QED BY <1>1, <1>2 DEF PeersInv

(* Applying a policy again, with nothing in between, counts no change: the *)
(* second apply only reads.  Besides what ReapplyTouchesNothingHolds takes, *)
(* gotun must not be asked to take a wg-exit it manages down, and the      *)
(* policies must name one peer for an interface, with the same gaps: wg    *)
(* set removes no peer and no setting, and an endpoint that is left out    *)
(* could be learned from the peer.                                         *)
THEOREM ZeroChangesOnReapplyHolds ==
  ASSUME NoLookalike, SameFirewall \/ KnownFirewall, FlushSafe, Listable, SeparateRoutes,
         AlwaysUp, OnePeer
  PROVE  Spec => []ZeroChangesOnReapply
<1> DEFINE Inv == ConvergedInv /\ FixedInv /\ PeersInv /\ ReadOnlyInv
<1>1. Init => Inv
  BY ConvergedInit, FixedInit, ReadOnlyInit
<1>2. TypeInv /\ Inv /\ [Next]_vars => Inv'
  <2> SUFFICES ASSUME TypeInv, Inv, [Next]_vars PROVE Inv'
    OBVIOUS
  <2>1. ConvergedInv' /\ FixedInv'
    BY ConvergedStep, FixedStep
  <2>2. PeersInv'
    BY PeersStep DEF ConvergedInv
  <2>3. ReadOnlyInv'
    BY ReadOnlyStep
  <2> QED BY <2>1, <2>2, <2>3
<1>3. Inv => ZeroChangesOnReapply
  BY DEF ReadOnlyInv, Repeating, ZeroChangesOnReapply, At
<1> HIDE DEF Inv
<1> QED BY <1>1, <1>2, <1>3, InitTyped, NextTyped, PTL DEF Spec
=============================================================================
