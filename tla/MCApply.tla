------------------------------ MODULE MCApply ------------------------------
(***************************************************************************)
(* Instances of Apply for TLC: the destinations of the lab topology, and   *)
(* the policies the runs apply.                                            *)
(***************************************************************************)
EXTENDS GatewayRefinement, TLC

CONSTANTS ru, ru1, fo, lan, lan2, ep, ep2, v6

MCAddr4 == {ru, ru1, fo, lan, lan2, ep, ep2}
MCHosts == {ru1, ep, ep2}
MCAddr6 == {v6}
(* The exit resolver: neither direct nor home nor among the AllowedIPs.    *)
MCResolver == ep2
(* The direct resolver: an address of the uplink's provider.               *)
MCDirectResolver == ru
MCText  == {"", "kx", "kc", "exit", "exit2", "client", "ep:51820", "ep2:51820",
            "10.99.0.1/30", "roamed"}

NoPeer == [PublicKey |-> "", Endpoint |-> "", AllowedIPs |-> {}, PersistentKeepalive |-> 0]
NoWG   == [PrivateKey |-> "", ListenPort |-> 0, Address |-> "", Peer |-> NoPeer]

ExitPeer   == [PublicKey |-> "exit", Endpoint |-> "ep:51820",
               AllowedIPs |-> {{fo}}, PersistentKeepalive |-> 25]
ExitWG     == [PrivateKey |-> "kx", ListenPort |-> 0,
               Address |-> "10.99.0.1/30", Peer |-> ExitPeer]
ClientPeer == [PublicKey |-> "client", Endpoint |-> "",
               AllowedIPs |-> {}, PersistentKeepalive |-> 0]
ClientsWG  == [PrivateKey |-> "kc", ListenPort |-> 51821, Address |-> "", Peer |-> ClientPeer]

(* The lab's policy and its variants.                                      *)
Base     == [DirectPrefixes |-> {ru}, TunnelEndpoint |-> ep, LANs |-> {{lan}},
             TunnelUp |-> TRUE, WireGuard |-> ExitWG, InboundWireGuard |-> ClientsWG]
NoDirect == [Base EXCEPT !.DirectPrefixes = {}]
Moved    == [Base EXCEPT !.TunnelEndpoint = ep2, !.LANs = {{lan}, {lan2}},
                         !.WireGuard.Peer.PublicKey = "exit2",
                         !.WireGuard.Peer.Endpoint = "ep2:51820"]
Down     == [Base EXCEPT !.TunnelUp = FALSE]
NoLAN    == [Base EXCEPT !.LANs = {}]
Endpoint6   == [Base EXCEPT !.TunnelEndpoint = v6]
OneHost     == [Base EXCEPT !.DirectPrefixes = {ru, ru1}]
NestedLANs  == [Base EXCEPT !.LANs = {{lan}, {lan, lan2}}]
NoInbound   == [NoDirect EXCEPT !.InboundWireGuard = NoWG]
OwnTunnel   == [NoInbound EXCEPT !.WireGuard = NoWG]
OwnDown     == [OwnTunnel EXCEPT !.TunnelUp = FALSE]
Rotated     == [Base EXCEPT !.WireGuard.Peer.PublicKey = "exit2"]
FullTunnel  == [Base EXCEPT !.WireGuard.Peer.AllowedIPs = {Addr4}]

(* Every policy isolates the clients; one is rejected by Compile.          *)
IsolatingPolicies == {Base, NoDirect, Moved, Down, NoLAN}
(* The tunnel is switched on and off, by two operators at once.            *)
TogglePolicies    == {Base, Down}
(* A tunnel that is always up, and policies nft refuses.                   *)
UpPolicies        == {Base, NoDirect, Endpoint6, NestedLANs}
BasePolicy        == {Base}
DownPolicy        == {Down}
OneHostPolicy     == {OneHost}
FullTunnelPolicy  == {FullTunnel}
OwnTunnelPolicy   == {OwnTunnel}
DropInbound       == {Base, NoInbound}
OwnToggle         == {OwnTunnel, OwnDown}
DropDirect        == {Base, NoDirect}
DropHost          == {Base, OneHost}
RotatePeer        == {Base, Rotated}

OtherRules == { [Priority |-> 50, Mark |-> 2, Table |-> 200] }
(* Rules whose listing contains the tokens of the owned one.               *)
LookalikeRules == { [Priority |-> 5100, Mark |-> 16, Table |-> 1000] }

Symmetry == Permutations(Procs)
=============================================================================
