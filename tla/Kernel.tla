------------------------------- MODULE Kernel -------------------------------
(***************************************************************************)
(* The Linux objects gotun reconciles, and what the ip, wg and nft         *)
(* commands it runs do to them.  None of this is code of the repository:   *)
(* it is modelled from the commands the repository issues and from what it *)
(* expects of their output.                                                *)
(***************************************************************************)
EXTENDS Policy

VARIABLES sysctl,   \* sysctl[key] is the value of a key, "0" or "1"
          nft,      \* the table inet gotun
          link,     \* link[iface]: absent, down or up
          wg,       \* wg[iface]: configuration of the WireGuard device
          rules,    \* ip rules, besides local, main and default
          t100,     \* routes of table 100
          main      \* routes of table main: prefix to device

kernel == << sysctl, nft, link, wg, rules, t100, main >>

Uplink == "isp"
NoTable  == [exists |-> FALSE, ru_nets |-> {}, home_nets |-> {},
             prerouting |-> << >>, forward |-> << >>]
NoDevice == [PrivateKey |-> "", ListenPort |-> 0, Addresses |-> {}, Peers |-> << >>]

NftTable == [exists: BOOLEAN, ru_nets: SUBSET (Addr4 \cup Addr6),
             home_nets: SUBSET CIDR,
             prerouting: Seq(NftRule), forward: Seq(NftRule)]
Device   == [PrivateKey: Text, ListenPort: Nat, Addresses: SUBSET Text,
             Peers: Seq(WireGuardPeer)]
MainRoute == [Dst: CIDR, Dev: Ifaces \cup {Uplink}]

KernelTypeOK ==
  /\ sysctl \in [SysctlKeys -> {"0", "1"}]
  /\ nft \in NftTable
  /\ link \in [Ifaces -> {"absent", "down", "up"}]
  /\ wg \in [Ifaces -> Device]
  /\ rules \subseteq IPRule
  /\ t100 \subseteq OwnedRoutes
  /\ main \subseteq MainRoute

-----------------------------------------------------------------------------
(* nft -f: the statements RenderFullTable renders, run on table t.  On an  *)
(* existing table "add set" and "add chain" change nothing, "add element"  *)
(* extends the set and "add rule" appends to the chain.                    *)
NftBatch(t, spec) ==
  [exists     |-> TRUE,
   ru_nets    |-> t.ru_nets \cup spec.ru_nets,
   home_nets  |-> t.home_nets \cup spec.home_nets,
   prerouting |-> t.prerouting \o spec.prerouting,
   forward    |-> t.forward \o spec.forward]

(* wg set peer: creates the peer or updates what the command names.  The   *)
(* allowed IPs given to a peer are taken from every other one.             *)
WGSetPeer(peers, peer) ==
  LET updated(old) ==
        [PublicKey  |-> peer.PublicKey,
         Endpoint   |-> IF peer.Endpoint # "" THEN peer.Endpoint ELSE old.Endpoint,
         AllowedIPs |-> IF peer.AllowedIPs # {} THEN peer.AllowedIPs
                                                ELSE old.AllowedIPs,
         PersistentKeepalive |-> IF peer.PersistentKeepalive > 0
                                 THEN peer.PersistentKeepalive
                                 ELSE old.PersistentKeepalive]
      new == [PublicKey |-> peer.PublicKey, Endpoint |-> "",
              AllowedIPs |-> {}, PersistentKeepalive |-> 0]
      rest(old) == [old EXCEPT !.AllowedIPs = @ \ peer.AllowedIPs]
      known == \E i \in DOMAIN peers : peers[i].PublicKey = peer.PublicKey
      all == IF known THEN peers ELSE Append(peers, new)
  IN [i \in DOMAIN all |-> IF all[i].PublicKey = peer.PublicKey
                           THEN updated(all[i]) ELSE rest(all[i])]

(* ip route replace in main: one route for a prefix.                       *)
MainReplace(dst, dev) ==
  { r \in main : r.Dst # dst } \cup { [Dst |-> dst, Dev |-> dev] }

(* The routes that are left when an interface goes down or away.           *)
DropRoutes(iface) ==
  /\ main' = { r \in main : r.Dev # iface }
  /\ t100' = { r \in t100 : r.Device # iface }

(* ip link set dev iface down *)
LinkDown(iface) ==
  /\ link' = [link EXCEPT ![iface] = "down"]
  /\ DropRoutes(iface)

(* ip link del dev iface *)
LinkDel(iface) ==
  /\ link' = [link EXCEPT ![iface] = "absent"]
  /\ wg' = [wg EXCEPT ![iface] = NoDevice]
  /\ DropRoutes(iface)

-----------------------------------------------------------------------------
(* The way of a packet.  An IPv4 packet a client sends passes prerouting:  *)
(* it is marked if a mark rule is reached, before any rule returns, and    *)
(* its destination is not in ru_nets.                                      *)
Matches(rule, d) == \E c \in rule.DAddrs : d \in c

Marked(d) ==
  \E i \in DOMAIN nft.prerouting :
     /\ nft.prerouting[i].Comment = "mark-non-direct"
     /\ d \notin nft.ru_nets
     /\ \A j \in 1 .. (i - 1) :
          nft.prerouting[j].Comment \in {"exclude-lan", "exclude-endpoint"}
             => ~Matches(nft.prerouting[j], d)

(* Longest-prefix match in main, and lowest metric in table 100.           *)
MainEgress(d) ==
  LET covering == { r \in main : d \in r.Dst }
  IN IF covering = {} THEN "unreachable"
     ELSE (CHOOSE r \in covering : \A s \in covering : r.Dst \subseteq s.Dst).Dev

Table100Egress ==
  IF TunnelRoute \in t100 THEN TunnelIface ELSE "blackhole"

(* A marked packet is looked up in table 100 when the rule is there, and   *)
(* falls through to main when that table has no route.                     *)
Egress(d) ==
  IF Marked(d) /\ OwnedRule \in rules /\ t100 # {} THEN Table100Egress
                                                   ELSE MainEgress(d)

(* The forward chain drops what clients of wg-clients send to home_nets.   *)
Isolated(d) ==
  /\ \E i \in DOMAIN nft.forward :
        nft.forward[i].Comment = "isolate-inbound-from-home"
  /\ \E c \in nft.home_nets : d \in c
=============================================================================
