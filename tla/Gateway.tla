------------------------------ MODULE Gateway ------------------------------
(***************************************************************************)
(* What gotun promises about the paths of packets, without saying how: the *)
(* abstract specification that Apply implements (GatewayRefinement) and    *)
(* that the DNS forwarder builds on (DnsServer).                           *)
(*                                                                         *)
(* route[d] is the way packets to destination d leave the gateway now, and *)
(* promise the set of destinations that are kept from the uplink at the    *)
(* moment.  A promise is made when an apply has succeeded, and is off as   *)
(* long as another command runs or has failed.  What is sent to a plain    *)
(* destination uses the uplink at all times.                               *)
(***************************************************************************)
CONSTANTS Destinations,
          Plain,           \* those that no policy has a say in
          Ways             \* the ways a packet may leave, or be dropped

VARIABLES route, promise

gatewayVars == << route, promise >>

(* The ways that keep a packet from the uplink.                            *)
Closed == {"wg-exit", "blackhole"}

Routings == { r \in [Destinations -> Ways] : \A d \in Plain \cap Destinations : r[d] = "isp" }

GatewayInit ==
  /\ route \in Routings
  /\ promise = {}

(* While commands run, and after one has failed, nothing is promised.      *)
Operate ==
  /\ route' \in Routings
  /\ promise' = {}

(* An apply has succeeded.                                                 *)
Install ==
  /\ promise = {}
  /\ route' \in Routings
  /\ promise' \in (SUBSET { d \in Destinations : route'[d] \in Closed }) \ {{}}

(* Without a command the tunnel may be lost, and what it carried is then   *)
(* dropped.  It does not come back by itself, and nothing opens the way to *)
(* the uplink.                                                             *)
TunnelLost ==
  /\ promise # {}
  /\ route' \in Routings
  /\ \A d \in promise :
       \/ route'[d] = route[d]
       \/ route[d] = "wg-exit" /\ route'[d] = "blackhole"
  /\ UNCHANGED promise

GatewayNext == Operate \/ Install \/ TunnelLost

GatewaySpec == GatewayInit /\ [][GatewayNext]_gatewayVars
=============================================================================
