------------------------- MODULE GatewayRefinement -------------------------
(***************************************************************************)
(* Apply implements Gateway.  The destinations of the gateway are those of *)
(* the packets it forwards, and the two resolvers gotun-dns dials: its     *)
(* packets are not forwarded but sent by the gateway itself, so they pass  *)
(* no prerouting chain and have the mark, or none, that SO_MARK gave them. *)
(***************************************************************************)
EXTENDS Apply

CONSTANTS Resolver,        \* the address gotun-dns sends marked packets to
          DirectResolver   \* the address it sends packets without a mark to

MarkedLocal == << "marked", Resolver >>
PlainLocal  == << "plain", DirectResolver >>

ASSUME ResolverAssumption ==
  /\ Resolver \in Addr4 /\ DirectResolver \in Addr4
  /\ MarkedLocal \notin Addr4 /\ PlainLocal \notin Addr4

(* Without SO_MARK they take table main like any other.                    *)
UnmarkedLocalEgress(d) == MainEgress(d)

MarkedLocalEgress(d) ==
  IF OwnedRule \in rules /\ t100 # {} THEN Table100Egress ELSE MainEgress(d)

Quiescent == \A self \in Procs : At(self, "idle") /\ res[self] = "ok"

G == INSTANCE Gateway WITH
       Destinations <- Addr4 \cup {MarkedLocal, PlainLocal},
       Plain <- {PlainLocal},
       Ways <- {"wg-exit", "wg-clients", "blackhole", "isp", "unreachable"},
       route <- [d \in Addr4 \cup {MarkedLocal, PlainLocal} |->
                   IF d \in Addr4 THEN Egress(d)
                   ELSE IF d = MarkedLocal THEN MarkedLocalEgress(Resolver)
                                           ELSE UnmarkedLocalEgress(DirectResolver)],
       promise <- IF Quiescent
                  THEN UNION { Tunnelled(p) \cup {MarkedLocal} : p \in installed }
                  ELSE {}

(* Whatever an apply, a clear or the loss of a link does step by step, an  *)
(* observer of the packets sees a gateway that, once an apply has          *)
(* succeeded, only ever goes from the tunnel to the blackhole of table 100 *)
(* until an operator runs the next command, and reaches the direct         *)
(* resolver by the uplink throughout.                                      *)
ImplementsGateway == G!GatewaySpec
=============================================================================
