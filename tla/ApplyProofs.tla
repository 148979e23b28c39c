---------------------------- MODULE ApplyProofs ----------------------------
(***************************************************************************)
(* Theorems about Apply, for every set of addresses, policies, processes   *)
(* and faults: type correctness, and home isolation.                       *)
(***************************************************************************)
EXTENDS Apply, TLAPS, SequenceTheorems

SysctlLabels  == {"sysctl read", "sysctl echo", "sysctl write", "sysctl reread"}
NftLabels     == {"nft list", "nft apply"}
WGLabels      == {"link show", "link add", "route del", "link down", "wg dump",
                  "addr show", "wg key", "wg peer", "addr replace", "link up",
                  "route replace"}
RoutingLabels == {"rule show", "rule del", "rule add",
                  "table show", "table flush", "table add"}
ClearLabels   == {"clear wg-exit", "clear wg-clients", "clear rule",
                  "clear table", "clear nft"}

(* Where a process is: its label belongs to the phase it is in, and the    *)
(* position of a loop is inside the list it walks.                         *)
ControlAt(s) ==
  /\ pc[s] = "idle" => phase[s] = "idle"
  /\ pc[s] \in SysctlLabels => phase[s] = "sysctl" /\ n[s] \in 1 .. 3
  /\ pc[s] \in NftLabels => phase[s] = "nft"
  /\ pc[s] \in WGLabels => phase[s] \in Ifaces
  /\ pc[s] \in RoutingLabels => phase[s] = "routing"
  /\ pc[s] = "table add" => n[s] \in 1 .. Len(RoutesForTunnel(pol[s]))
  /\ pc[s] \in ClearLabels => phase[s] = "clear"
  /\ pc[s] = "return" => phase[s] \notin {"idle", "clear"}

Control == \A s \in Procs : ControlAt(s)

TypeInv == TypeOK /\ Control

-----------------------------------------------------------------------------
(* The desired state has the types of the live one.                        *)

(* Every policy is a Policy: what PolicyAssumption says of its fields.     *)
LEMMA PolicyFields ==
  ASSUME NEW p \in Policies
  PROVE  /\ p.DirectPrefixes \subseteq Addr4 \cup Addr6
         /\ p.TunnelEndpoint \in Addr4 \cup Addr6 \cup {NoAddr}
         /\ p.LANs \subseteq CIDR
         /\ p.TunnelUp \in BOOLEAN
         /\ p.WireGuard \in WireGuardConfig
         /\ p.InboundWireGuard \in WireGuardConfig
BY PolicyAssumption DEF Policy

(* The spec Compile builds for an interface carries a WireGuard config.    *)
LEMMA WGSpecType ==
  ASSUME NEW p \in Policies, NEW i \in Ifaces
  PROVE  /\ WGSpec(p, i).cfg \in WireGuardConfig
         /\ WGSpec(p, i).cfg.Peer \in WireGuardPeer
         /\ WGSpec(p, i).cfg.Peer.AllowedIPs \subseteq CIDR
BY PolicyFields DEF WGSpec, WireGuardConfig, WireGuardPeer

(* The rules rendered for a policy are well-formed chains.                 *)
LEMMA NftSpecType ==
  ASSUME NEW p \in Policies
  PROVE  /\ NftSpec(p).ru_nets \subseteq Addr4 \cup Addr6
         /\ NftSpec(p).home_nets \subseteq CIDR
         /\ NftSpec(p).prerouting \in Seq(NftRule)
         /\ NftSpec(p).forward \in Seq(NftRule)
<1> USE PolicyFields
<1>1. Rule("drop-ipv6", {}) \in NftRule
  BY DEF Rule, NftRule
<1>2. Rule("exclude-lan", p.LANs) \in NftRule
  BY DEF Rule, NftRule, CIDR
<1>3. Rule("exclude-endpoint", {{p.TunnelEndpoint}}) \in NftRule
  BY DEF Rule, NftRule
<1>4. Rule("mark-non-direct", {}) \in NftRule
  BY DEF Rule, NftRule
<1>5. Rule("isolate-inbound-from-home", {}) \in NftRule
  BY DEF Rule, NftRule
<1>6. NftSpec(p).prerouting \in Seq(NftRule)
  BY <1>1, <1>2, <1>3, <1>4 DEF NftSpec, PreroutingRules
<1>7. NftSpec(p).forward \in Seq(NftRule)
  <2>1. /\ << Rule("isolate-inbound-from-home", {}) >> \in Seq(NftRule)
        /\ << >> \in Seq(NftRule)
    BY <1>5
  <2> QED BY <2>1 DEF NftSpec
<1> QED BY <1>6, <1>7 DEF NftSpec

(* Running the rendered statements on a table gives a table.               *)
LEMMA NftBatchType ==
  ASSUME NEW t \in NftTable, NEW p \in Policies
  PROVE  NftBatch(t, NftSpec(p)) \in NftTable
<1>1. /\ t.prerouting \in Seq(NftRule) /\ t.forward \in Seq(NftRule)
      /\ t.ru_nets \subseteq Addr4 \cup Addr6 /\ t.home_nets \subseteq CIDR
  BY DEF NftTable
<1>2. t.prerouting \o NftSpec(p).prerouting \in Seq(NftRule)
  BY <1>1, NftSpecType, ConcatProperties
<1>3. t.forward \o NftSpec(p).forward \in Seq(NftRule)
  BY <1>1, NftSpecType, ConcatProperties
<1> QED BY <1>1, <1>2, <1>3, NftSpecType DEF NftBatch, NftTable

(* There is no table at the start and after a clear.                       *)
LEMMA NoTableType == NoTable \in NftTable
BY DEF NoTable, NftTable

(* A new interface has no configuration.                                   *)
LEMMA NoDeviceType == NoDevice \in Device
<1>1. << >> \in Seq(WireGuardPeer)
  BY EmptySeq
<1> QED BY <1>1, PolicyAssumption DEF NoDevice, Device

(* A function on an interval 1 .. k is a sequence.                         *)
LEMMA SeqIntro ==
  ASSUME NEW S, NEW k \in Nat, NEW f \in [1 .. k -> S]
  PROVE  f \in Seq(S)
BY SeqDef

(* wg set peer keeps a list of peers.                                      *)
LEMMA WGSetPeerType ==
  ASSUME NEW peers \in Seq(WireGuardPeer), NEW peer \in WireGuardPeer
  PROVE  WGSetPeer(peers, peer) \in Seq(WireGuardPeer)
<1> DEFINE new == [PublicKey |-> peer.PublicKey, Endpoint |-> "",
                   AllowedIPs |-> {}, PersistentKeepalive |-> 0]
           known == \E i \in DOMAIN peers : peers[i].PublicKey = peer.PublicKey
           all == IF known THEN peers ELSE Append(peers, new)
<1>1. new \in WireGuardPeer
  BY PolicyAssumption DEF WireGuardPeer
<1> HIDE DEF new, known
<1>2. all \in Seq(WireGuardPeer)
  <2>1. Append(peers, new) \in Seq(WireGuardPeer)
    BY <1>1
  <2> QED BY <2>1
<1> HIDE DEF all
<1>3. DOMAIN all = 1 .. Len(all) /\ Len(all) \in Nat
  BY <1>2
<1>4. \A i \in 1 .. Len(all) : all[i] \in WireGuardPeer
  BY <1>2
<1>5. DOMAIN WGSetPeer(peers, peer) = 1 .. Len(all)
  BY <1>3 DEF WGSetPeer, all, known, new
<1>6. \A i \in 1 .. Len(all) : WGSetPeer(peers, peer)[i] \in WireGuardPeer
  BY <1>3, <1>4 DEF WGSetPeer, WireGuardPeer, all, known, new
<1>7. WGSetPeer(peers, peer) = [i \in 1 .. Len(all) |-> WGSetPeer(peers, peer)[i]]
  BY <1>3 DEF WGSetPeer, all, known, new
<1>8. WGSetPeer(peers, peer) \in [1 .. Len(all) -> WireGuardPeer]
  BY <1>6, <1>7
<1> QED BY <1>3, <1>8, SeqIntro

-----------------------------------------------------------------------------
(* What one command of a process does to the process.                      *)
Effect(self, L) ==
  /\ \E l \in L : pc' = [pc EXCEPT ![self] = l]
  /\ UNCHANGED << phase, pol >>
  /\ res' = res \/ \E r \in {"ok", "error"} : res' = [res EXCEPT ![self] = r]
  /\ changes' = changes \/ Count(self)
  /\ seen' = seen \/ \E b \in BOOLEAN : seen' = [seen EXCEPT ![self] = b]
  /\ n' = n \/ \E k \in 0 .. 4 : n' = [n EXCEPT ![self] = k]
  /\ todo' = todo \/ \E ps \in SUBSET CIDR : todo' = [todo EXCEPT ![self] = ps]
  /\ faults' = faults \/ (faults < MaxFaults /\ faults' = faults + 1)

(* A command keeps the types of the processes.                             *)
LEMMA EffectTyped ==
  ASSUME RunnerTypeOK, NEW self \in Procs, NEW L, L \subseteq Labels, Effect(self, L)
  PROVE  RunnerTypeOK'
<1>1. pc' \in [Procs -> Labels]
  BY DEF Effect, RunnerTypeOK
<1>2. phase' \in [Procs -> Phases] /\ pol' \in [Procs -> Policies]
  BY DEF Effect, RunnerTypeOK
<1>3. res' \in [Procs -> {"ok", "error"}]
  BY DEF Effect, RunnerTypeOK
<1>4. changes' \in [Procs -> BOOLEAN]
  BY DEF Effect, RunnerTypeOK, Count
<1>5. seen' \in [Procs -> BOOLEAN]
  BY DEF Effect, RunnerTypeOK
<1>6. n' \in [Procs -> 0 .. 4]
  BY DEF Effect, RunnerTypeOK
<1>7. todo' \in [Procs -> SUBSET CIDR]
  BY DEF Effect, RunnerTypeOK
<1>8. faults' \in 0 .. MaxFaults
  BY RunnerAssumption DEF Effect, RunnerTypeOK
<1> QED BY <1>1, <1>2, <1>3, <1>4, <1>5, <1>6, <1>7, <1>8 DEF RunnerTypeOK

(* A command that stays in its subsystem, or returns from it, keeps the    *)
(* processes where they can be.                                            *)
LEMMA EffectControl ==
  ASSUME RunnerTypeOK, Control, NEW self \in Procs, NEW L, Effect(self, L),
         \/ L \subseteq SysctlLabels \cup {"return"} /\ phase[self] = "sysctl" /\ n'[self] \in 1 .. 3
         \/ L \subseteq NftLabels \cup {"return"} /\ phase[self] = "nft"
         \/ L \subseteq WGLabels \cup {"return"} /\ phase[self] \in Ifaces
         \/ /\ L \subseteq RoutingLabels \cup {"return"} /\ phase[self] = "routing"
            /\ pc'[self] = "table add" => n'[self] \in 1 .. Len(RoutesForTunnel(pol[self]))
  PROVE  Control'
<1>1. ASSUME NEW s \in Procs, s # self PROVE ControlAt(s)'
  <2>1. pc'[s] = pc[s] /\ phase'[s] = phase[s] /\ pol'[s] = pol[s] /\ n'[s] = n[s]
    BY <1>1 DEF Effect, RunnerTypeOK
  <2>2. ControlAt(s)
    BY DEF Control
  <2> QED BY <2>1, <2>2 DEF ControlAt
<1>2. ControlAt(self)'
  <2>1. pc'[self] \in L /\ phase'[self] = phase[self] /\ pol'[self] = pol[self]
    BY DEF Effect, RunnerTypeOK
  <2> QED BY <2>1 DEF ControlAt, SysctlLabels, NftLabels, WGLabels, RoutingLabels,
                      ClearLabels, Ifaces, TunnelIface, ClientsIface
<1> QED BY <1>1, <1>2 DEF Control

(* The history variables of a command.                                     *)
LEMMA ObserveTyped ==
  ASSUME TypeOK, NEW self \in Procs, ObserveCommand(self)
  PROVE  /\ installed' \subseteq Policies /\ stable' \subseteq Policies
         /\ run' \in [Procs -> {"disturbed", "alone", "repeat"}]
BY DEF TypeOK, ObserveCommand

-----------------------------------------------------------------------------
(* sysctl.Reconcile preserves the type invariant.                          *)
LEMMA SysctlTyped ==
  ASSUME TypeInv, NEW self \in Procs, SysctlNext(self), ObserveCommand(self)
  PROVE  TypeInv'
<1> DEFINE L == SysctlLabels \cup {"return"}
<1>0. TypeOK /\ Control /\ RunnerTypeOK /\ KernelTypeOK
  BY DEF TypeInv, TypeOK
<1>1. n[self] \in 1 .. 3 /\ phase[self] = "sysctl"
  BY <1>0 DEF SysctlNext, SysctlRead, SysctlEcho, SysctlWrite, SysctlReread,
              Control, ControlAt, SysctlLabels, At
<1>2. SysctlSpecs[n[self]] \in SysctlKeys /\ Len(SysctlSpecs) = 3
  BY <1>1 DEF SysctlKeys, SysctlSpecs
<1>3. /\ UNCHANGED << nft, link, wg, rules, t100, main, phase, pol, seen, todo >>
      /\ \E l \in L : pc' = [pc EXCEPT ![self] = l]
      /\ res' = res \/ \E r \in {"ok", "error"} : res' = [res EXCEPT ![self] = r]
      /\ changes' = changes \/ Count(self)
      /\ n' = n \/ (n[self] # 3 /\ n' = [n EXCEPT ![self] = @ + 1])
      /\ sysctl' = sysctl \/ WriteKey(self)
      /\ faults' = faults \/ (faults < MaxFaults /\ faults' = faults + 1)
  BY <1>2 DEF SysctlNext, SysctlRead, SysctlEcho, SysctlWrite, SysctlReread,
     sysctlFrame, NextKey, Return, Goto, Ok, Fault, SysctlLabels
<1>4. n'[self] \in 1 .. 3 /\ (n' = n \/ \E k \in 0 .. 4 : n' = [n EXCEPT ![self] = k])
  BY <1>0, <1>1, <1>3 DEF RunnerTypeOK
<1>5. Effect(self, L)
  BY <1>3, <1>4 DEF Effect
<1>6. L \subseteq Labels
  BY DEF SysctlLabels, Labels
<1>7. KernelTypeOK'
  BY <1>0, <1>2, <1>3 DEF KernelTypeOK, WriteKey
<1>8. Control'
  BY <1>0, <1>1, <1>4, <1>5, EffectControl
<1> QED BY <1>0, <1>5, <1>6, <1>7, <1>8, EffectTyped, ObserveTyped DEF TypeInv, TypeOK

(* nftables.Reconcile preserves the type invariant.                        *)
LEMMA NftTyped ==
  ASSUME TypeInv, NEW self \in Procs, NftNext(self), ObserveCommand(self)
  PROVE  TypeInv'
<1> DEFINE L == NftLabels \cup {"return"}
<1>0. TypeOK /\ Control /\ RunnerTypeOK /\ KernelTypeOK
  BY DEF TypeInv, TypeOK
<1>1. phase[self] = "nft"
  BY <1>0 DEF NftNext, NftList, NftApply, Control, ControlAt, NftLabels, At
<1>2. /\ UNCHANGED << sysctl, link, wg, rules, t100, main, phase, pol, n, todo >>
      /\ \E l \in L : pc' = [pc EXCEPT ![self] = l]
      /\ res' = res \/ \E r \in {"ok", "error"} : res' = [res EXCEPT ![self] = r]
      /\ changes' = changes \/ Count(self)
      /\ faults' = faults \/ (faults < MaxFaults /\ faults' = faults + 1)
  BY DEF NftNext, NftList, NftApply, nftFrame, Return, Goto, Ok, Fault, NftLabels
<1>3. seen' = seen \/ \E b \in BOOLEAN : seen' = [seen EXCEPT ![self] = b]
  <2>1. nft.exists \in BOOLEAN
    BY <1>0 DEF KernelTypeOK, NftTable
  <2> QED BY <2>1 DEF NftNext, NftList, NftApply
<1>4. \/ nft' = nft
      \/ nft' = NftBatch(NoTable, NftSpec(pol[self]))
      \/ nft' = NftBatch(nft, NftSpec(pol[self]))
  BY DEF NftNext, NftList, NftApply
<1>5. KernelTypeOK'
  <2>1. pol[self] \in Policies /\ nft \in NftTable
    BY <1>0 DEF RunnerTypeOK, KernelTypeOK
  <2>2. nft' \in NftTable
    BY <1>4, <2>1, NftBatchType, NoTableType
  <2> QED BY <1>0, <1>2, <2>2 DEF KernelTypeOK
<1>6. Effect(self, L)
  BY <1>2, <1>3 DEF Effect
<1>7. L \subseteq Labels
  BY DEF NftLabels, Labels
<1>8. Control'
  BY <1>0, <1>1, <1>6, EffectControl
<1> QED BY <1>0, <1>5, <1>6, <1>7, <1>8, EffectTyped, ObserveTyped DEF TypeInv, TypeOK

(* routing.Reconcile preserves the type invariant.                         *)
LEMMA RoutingTyped ==
  ASSUME TypeInv, NEW self \in Procs, RoutingNext(self), ObserveCommand(self)
  PROVE  TypeInv'
<1> DEFINE L == RoutingLabels \cup {"return"}
           want == RoutesForTunnel(pol[self])
<1>0. TypeOK /\ Control /\ RunnerTypeOK /\ KernelTypeOK
  BY DEF TypeInv, TypeOK
<1>1. phase[self] = "routing"
  BY <1>0 DEF RoutingNext, RuleShow, RuleDel, RuleAdd, TableShow, TableFlush, TableAdd,
              Control, ControlAt, RoutingLabels, At
<1>2. /\ UNCHANGED << sysctl, nft, link, wg, main, phase, pol, seen, todo >>
      /\ pc' = pc \/ \E l \in L : pc' = [pc EXCEPT ![self] = l]
      /\ res' = res \/ \E r \in {"ok", "error"} : res' = [res EXCEPT ![self] = r]
      /\ changes' = changes \/ Count(self)
      /\ faults' = faults \/ (faults < MaxFaults /\ faults' = faults + 1)
  BY DEF RoutingNext, RuleShow, RuleDel, RuleAdd, TableShow, TableFlush, TableAdd,
         routingFrame, Return, Goto, Ok, Fault, RoutingLabels
<1>3. \E l \in L : pc' = [pc EXCEPT ![self] = l]
  <2>1. pc[self] \in L /\ pc = [pc EXCEPT ![self] = pc[self]]
    BY <1>0 DEF RunnerTypeOK, RoutingNext, RuleShow, RuleDel, RuleAdd, TableShow,
                TableFlush, TableAdd, At, RoutingLabels
  <2> QED BY <1>2, <2>1
<1>4. /\ Len(want) \in {1, 2}
      /\ \A i \in 1 .. Len(want) : want[i] \in OwnedRoutes
  BY DEF RoutesForTunnel, OwnedRoutes
<1>5. /\ n' = n \/ \E k \in 0 .. 4 : n' = [n EXCEPT ![self] = k]
      /\ pc'[self] = "table add" => n'[self] \in 1 .. Len(want)
  <2>1. CASE TableFlush(self)
    <3>1. n' = [n EXCEPT ![self] = 1]
      BY <2>1 DEF TableFlush
    <3>2. n'[self] = 1
      BY <1>0, <3>1 DEF RunnerTypeOK
    <3> HIDE DEF want
    <3>3. 1 \in 1 .. Len(want) /\ 1 \in 0 .. 4
      BY <1>4
    <3> QED BY <3>1, <3>2, <3>3
  <2>2. CASE TableAdd(self)
    <3>1. n[self] \in 1 .. Len(want)
      BY <1>0, <2>2 DEF TableAdd, At, Control, ControlAt
    <3>2. n' = n \/ (n[self] # Len(want) /\ n' = [n EXCEPT ![self] = @ + 1])
      BY <2>2 DEF TableAdd
    <3>3. n[self] # Len(want) => n[self] + 1 \in 1 .. Len(want) /\ n[self] + 1 \in 0 .. 4
      BY <1>4, <3>1
    <3>4. CASE n' = n
      BY <3>1, <3>4
    <3>5. CASE n[self] # Len(want) /\ n' = [n EXCEPT ![self] = @ + 1]
      <4>1. n' = [n EXCEPT ![self] = n[self] + 1] /\ n'[self] = n[self] + 1
        BY <1>0, <3>5 DEF RunnerTypeOK
      <4> HIDE DEF want
      <4> QED BY <3>3, <3>5, <4>1
    <3> QED BY <3>2, <3>4, <3>5
  <2>3. CASE RuleShow(self) \/ RuleDel(self) \/ RuleAdd(self) \/ TableShow(self)
    <3>1. n' = n /\ \E l \in L \ {"table add"} : pc' = [pc EXCEPT ![self] = l]
      BY <2>3 DEF RuleShow, RuleDel, RuleAdd, TableShow, Return, Goto, RoutingLabels
    <3> QED BY <1>0, <3>1 DEF RunnerTypeOK
  <2> QED BY <2>1, <2>2, <2>3 DEF RoutingNext
<1>6. KernelTypeOK'
  <2>1. rules' \subseteq rules \cup {OwnedRule}
    BY DEF RoutingNext, RuleShow, RuleDel, RuleAdd, TableShow, TableFlush, TableAdd, DeleteRule
  <2>2. OwnedRule \in IPRule
    BY DEF OwnedRule, IPRule
  <2>3. t100' \subseteq OwnedRoutes
    <3>1. CASE TableAdd(self)
      <4>1. want[n[self]] \in OwnedRoutes
        BY <1>0, <1>4, <3>1 DEF TableAdd, At, Control, ControlAt
      <4>2. t100' \subseteq t100 \cup {want[n[self]]}
        BY <3>1 DEF TableAdd, AddRoute
      <4> QED BY <1>0, <4>1, <4>2 DEF KernelTypeOK
    <3>2. CASE ~TableAdd(self)
      <4>1. t100' \subseteq t100
        BY <3>2 DEF RoutingNext, RuleShow, RuleDel, RuleAdd, TableShow, TableFlush
      <4> QED BY <1>0, <4>1 DEF KernelTypeOK
    <3> QED BY <3>1, <3>2
  <2> QED BY <1>0, <1>2, <2>1, <2>2, <2>3 DEF KernelTypeOK
<1>7. Effect(self, L)
  BY <1>2, <1>3, <1>5 DEF Effect
<1>8. L \subseteq Labels
  BY DEF RoutingLabels, Labels
<1>9. Control'
  BY <1>0, <1>1, <1>5, <1>7, EffectControl
<1> QED BY <1>0, <1>6, <1>7, <1>8, <1>9, EffectTyped, ObserveTyped DEF TypeInv, TypeOK

(* The actions of wireguard.Reconcile.                                     *)
WGActions(self) ==
  \/ LinkShow(self) \/ LinkAdd(self) \/ RouteDel(self) \/ SetLinkDown(self)
  \/ Dump(self) \/ AddrShow(self) \/ SetLinkUp(self) \/ RouteReplace(self)

(* A device command leaves a device.                                       *)
LEMMA SetCommandTyped ==
  ASSUME TypeInv, NEW self \in Procs, NEW label \in WGLabels, NEW dev \in Device,
         NEW next \in WGLabels, SetCommand(self, label, dev, next), ObserveCommand(self)
  PROVE  TypeInv'
<1> DEFINE L == WGLabels \cup {"return"}
<1>0. TypeOK /\ Control /\ RunnerTypeOK /\ KernelTypeOK
  BY DEF TypeInv, TypeOK
<1>1. phase[self] \in Ifaces
  BY <1>0 DEF SetCommand, At, Control, ControlAt
<1>2. /\ UNCHANGED << sysctl, nft, link, rules, t100, main, phase, pol, seen, n, todo >>
      /\ \E l \in L : pc' = [pc EXCEPT ![self] = l]
      /\ res' = res \/ \E r \in {"ok", "error"} : res' = [res EXCEPT ![self] = r]
      /\ changes' = changes \/ Count(self)
      /\ faults' = faults \/ (faults < MaxFaults /\ faults' = faults + 1)
      /\ wg' = wg \/ wg' = [wg EXCEPT ![phase[self]] = dev]
  BY DEF SetCommand, wgFrame, SetDevice, Return, Goto, Ok, Fault
<1>3. KernelTypeOK'
  BY <1>0, <1>1, <1>2 DEF KernelTypeOK
<1>4. Effect(self, L)
  BY <1>2 DEF Effect
<1>5. L \subseteq Labels
  BY DEF WGLabels, Labels
<1>6. Control'
  BY <1>0, <1>1, <1>4, EffectControl
<1> QED BY <1>0, <1>3, <1>4, <1>5, <1>6, EffectTyped, ObserveTyped DEF TypeInv, TypeOK

(* wg set and ip address preserve the type invariant.                      *)
LEMMA WGSetTyped ==
  ASSUME TypeInv, NEW self \in Procs, ObserveCommand(self),
         SetKey(self) \/ SetPeer(self) \/ AddrReplace(self)
  PROVE  TypeInv'
<1> DEFINE cfg == WGWant(self).cfg
           old == wg[phase[self]]
<1>0. TypeOK /\ Control /\ RunnerTypeOK /\ KernelTypeOK
  BY DEF TypeInv, TypeOK
<1>1. phase[self] \in Ifaces
  BY <1>0 DEF SetKey, SetPeer, AddrReplace, SetCommand, At, Control, ControlAt, WGLabels
<1>2. old \in Device
  BY <1>0, <1>1 DEF KernelTypeOK
<1>3. cfg \in WireGuardConfig /\ cfg.Peer \in WireGuardPeer
  BY <1>0, <1>1, WGSpecType DEF WGWant, RunnerTypeOK
<1>4. /\ AfterPeer(WGWant(self)) \in WGLabels
      /\ AfterKey(WGWant(self)) \in WGLabels
      /\ {"wg key", "wg peer", "addr replace", "link up"} \subseteq WGLabels
  BY DEF AfterPeer, AfterKey, WGLabels
<1>5. CASE SetKey(self)
  <2> DEFINE dev == [old EXCEPT !.PrivateKey = cfg.PrivateKey,
                       !.ListenPort = IF cfg.ListenPort > 0 THEN cfg.ListenPort ELSE @]
  <2>1. dev \in Device
    BY <1>2, <1>3 DEF Device, WireGuardConfig
  <2>2. SetCommand(self, "wg key", dev, AfterKey(WGWant(self)))
    BY <1>5 DEF SetKey
  <2> HIDE DEF dev
  <2> QED BY <1>4, <2>1, <2>2, SetCommandTyped
<1>6. CASE SetPeer(self)
  <2> DEFINE dev == [old EXCEPT !.Peers = WGSetPeer(@, cfg.Peer)]
  <2>1. WGSetPeer(old.Peers, cfg.Peer) \in Seq(WireGuardPeer)
    BY <1>2, <1>3, WGSetPeerType DEF Device
  <2>2. dev \in Device
    BY <1>2, <2>1 DEF Device
  <2>3. SetCommand(self, "wg peer", dev, AfterPeer(WGWant(self)))
    BY <1>6 DEF SetPeer
  <2> HIDE DEF dev
  <2> QED BY <1>4, <2>2, <2>3, SetCommandTyped
<1>7. CASE AddrReplace(self)
  <2> DEFINE dev == [old EXCEPT !.Addresses = @ \cup {cfg.Address}]
  <2>1. dev \in Device
    BY <1>2, <1>3 DEF Device, WireGuardConfig
  <2>2. SetCommand(self, "addr replace", dev, "link up")
    BY <1>7 DEF AddrReplace
  <2> HIDE DEF dev
  <2> QED BY <1>4, <2>1, <2>2, SetCommandTyped
<1> QED BY <1>5, <1>6, <1>7

(* The other commands of wireguard.Reconcile preserve the type invariant.  *)
LEMMA WGTyped ==
  ASSUME TypeInv, NEW self \in Procs, ObserveCommand(self), WGActions(self)
  PROVE  TypeInv'
<1> DEFINE L == WGLabels \cup {"return"}
           iface == phase[self]
           ips == WGWant(self).cfg.Peer.AllowedIPs
<1>0. TypeOK /\ Control /\ RunnerTypeOK /\ KernelTypeOK
  BY DEF TypeInv, TypeOK
<1>1. iface \in Ifaces
  BY <1>0 DEF WGActions, LinkShow, LinkAdd, RouteDel, SetLinkDown, Dump, AddrShow,
              SetLinkUp, RouteReplace, At, Control, ControlAt, WGLabels
<1>2. ips \subseteq CIDR /\ todo[self] \subseteq CIDR
  BY <1>0, <1>1, WGSpecType DEF WGWant, RunnerTypeOK
<1> HIDE DEF iface, ips
<1>3. /\ UNCHANGED << sysctl, nft, rules, phase, pol, seen, n >>
      /\ res' = res \/ \E r \in {"ok", "error"} : res' = [res EXCEPT ![self] = r]
      /\ changes' = changes \/ Count(self)
      /\ faults' = faults \/ (faults < MaxFaults /\ faults' = faults + 1)
  BY DEF WGActions, LinkShow, LinkAdd, RouteDel, SetLinkDown, Dump, AddrShow,
         SetLinkUp, RouteReplace, wgFrame, Return, Ok, Fault
<1>4. pc' = pc \/ \E l \in L : pc' = [pc EXCEPT ![self] = l]
  BY DEF WGActions, LinkShow, LinkAdd, RouteDel, SetLinkDown, Dump, AddrShow,
         SetLinkUp, RouteReplace, StartDown, NextPrefix, Return, Goto, WGLabels
<1>5. \E l \in L : pc' = [pc EXCEPT ![self] = l]
  <2>1. pc[self] \in L /\ pc = [pc EXCEPT ![self] = pc[self]]
    BY <1>0 DEF RunnerTypeOK, WGActions, LinkShow, LinkAdd, RouteDel, SetLinkDown, Dump,
                AddrShow, SetLinkUp, RouteReplace, At, WGLabels
  <2> QED BY <1>4, <2>1
<1>6. todo' = todo \/ \E ps \in SUBSET CIDR : todo' = [todo EXCEPT ![self] = ps]
  <2>1. \/ todo' = todo
        \/ todo' = [todo EXCEPT ![self] = ips]
        \/ \E p \in todo[self] : todo' = [todo EXCEPT ![self] = todo[self] \ {p}]
    BY DEF WGActions, LinkShow, LinkAdd, RouteDel, SetLinkDown, Dump, AddrShow,
           SetLinkUp, RouteReplace, StartDown, NextPrefix, ips
  <2> QED BY <1>2, <2>1
<1>7. KernelTypeOK'
  <2>1. wg' = wg
    BY DEF WGActions, LinkShow, LinkAdd, RouteDel, SetLinkDown, Dump, AddrShow,
           SetLinkUp, RouteReplace
  <2>2. link' = link \/ \E st \in {"down", "up"} : link' = [link EXCEPT ![iface] = st]
    BY DEF WGActions, LinkShow, LinkAdd, RouteDel, SetLinkDown, Dump, AddrShow,
           SetLinkUp, RouteReplace, LinkDown, iface
  <2>3. t100' \subseteq t100
    BY DEF WGActions, LinkShow, LinkAdd, RouteDel, SetLinkDown, Dump, AddrShow,
           SetLinkUp, RouteReplace, LinkDown, DropRoutes
  <2>4. main' \subseteq main \cup { [Dst |-> p, Dev |-> iface] : p \in todo[self] }
    BY DEF WGActions, LinkShow, LinkAdd, RouteDel, SetLinkDown, Dump, AddrShow,
           SetLinkUp, RouteReplace, LinkDown, DropRoutes, MainReplace, iface
  <2>5. main' \subseteq MainRoute
    BY <1>0, <1>1, <1>2, <2>4 DEF KernelTypeOK, MainRoute
  <2> QED BY <1>0, <1>1, <1>3, <2>1, <2>2, <2>3, <2>5 DEF KernelTypeOK
<1>8. Effect(self, L)
  BY <1>3, <1>5, <1>6 DEF Effect
<1>9. L \subseteq Labels
  BY DEF WGLabels, Labels
<1>10. Control'
  BY <1>0, <1>1, <1>8, EffectControl DEF iface
<1> QED BY <1>0, <1>7, <1>8, <1>9, <1>10, EffectTyped, ObserveTyped DEF TypeInv, TypeOK

-----------------------------------------------------------------------------
(* A step of self alone, after which self is where a process can be.       *)
LEMMA MoveControl ==
  ASSUME Control, NEW self \in Procs, ControlAt(self)',
         \A s \in Procs \ {self} :
            pc'[s] = pc[s] /\ phase'[s] = phase[s] /\ pol'[s] = pol[s] /\ n'[s] = n[s]
  PROVE  Control'
<1>1. ASSUME NEW s \in Procs \ {self} PROVE ControlAt(s)'
  BY <1>1 DEF Control, ControlAt
<1> QED BY <1>1 DEF Control

(* The steps of apply.Reconcile between the subsystems.                    *)
LEMMA ReconcileTyped ==
  ASSUME TypeInv, NEW self \in Procs,
         \/ NextSubsystem(self) \/ ReturnError(self) \/ ReturnOk(self)
         \/ StartClear(self) \/ \E p \in Policies : StartApply(self, p)
  PROVE  TypeInv'
<1> USE DEF At, Goto, SetPhase, Idle
<1>0. TypeOK /\ Control /\ RunnerTypeOK /\ KernelTypeOK
  BY DEF TypeInv, TypeOK
<1>1. UNCHANGED << kernel, faults, seen, todo >>
  BY DEF NextSubsystem, ReturnError, ReturnOk, StartClear, StartApply
<1>2. KernelTypeOK'
  BY <1>0, <1>1 DEF KernelTypeOK, kernel
<1>3. CASE NextSubsystem(self)
  <2>1. \/ phase' = [phase EXCEPT ![self] = "nft"] /\ pc' = [pc EXCEPT ![self] = "nft list"]
        \/ \E i \in Ifaces : phase' = [phase EXCEPT ![self] = i]
                             /\ pc' = [pc EXCEPT ![self] = "link show"]
        \/ phase' = [phase EXCEPT ![self] = "routing"] /\ pc' = [pc EXCEPT ![self] = "rule show"]
    BY <1>3 DEF NextSubsystem, Enter, NftEnter, WGEnter, RoutingEnter
  <2>2. UNCHANGED << pol, res, changes, n, history >>
    BY <1>3 DEF NextSubsystem, Enter, NftEnter, WGEnter, RoutingEnter
  <2>3. {"nft", TunnelIface, ClientsIface, "routing"} \subseteq Phases
    BY DEF Phases, Subsystems
  <2>4. {"nft list", "link show", "rule show"} \subseteq Labels
    BY DEF Labels
  <2>5. RunnerTypeOK'
    <3>1. /\ \E ph \in Phases : phase' = [phase EXCEPT ![self] = ph]
          /\ \E l \in Labels : pc' = [pc EXCEPT ![self] = l]
      BY <2>1, <2>3, <2>4 DEF Ifaces
    <3>2. phase' \in [Procs -> Phases] /\ pc' \in [Procs -> Labels]
      BY <1>0, <3>1 DEF RunnerTypeOK
    <3> QED BY <1>0, <1>1, <2>2, <3>2 DEF RunnerTypeOK
  <2>6. ControlAt(self)'
    BY <1>0, <2>1 DEF RunnerTypeOK, ControlAt, SysctlLabels, NftLabels, WGLabels,
                      RoutingLabels, ClearLabels, Ifaces, TunnelIface, ClientsIface
  <2>7. Control'
    BY <1>0, <2>1, <2>2, <2>6, MoveControl DEF RunnerTypeOK
  <2> QED BY <1>0, <1>2, <2>2, <2>5, <2>7 DEF TypeInv, TypeOK, history
<1>4. CASE ReturnError(self) \/ ReturnOk(self)
  <2>1. phase' = [phase EXCEPT ![self] = "idle"] /\ pc' = [pc EXCEPT ![self] = "idle"]
    BY <1>4 DEF ReturnError, ReturnOk
  <2>2. UNCHANGED << pol, res, changes, n, run >>
    BY <1>4 DEF ReturnError, ReturnOk, history
  <2>3. installed' \subseteq Policies /\ stable' \subseteq Policies
    BY <1>0, <1>4 DEF ReturnError, ReturnOk, history, TypeOK, RunnerTypeOK
  <2>4. "idle" \in Phases /\ "idle" \in Labels
    BY DEF Phases, Labels
  <2>5. RunnerTypeOK'
    BY <1>0, <1>1, <2>1, <2>2, <2>4 DEF RunnerTypeOK
  <2>6. ControlAt(self)'
    BY <1>0, <2>1 DEF RunnerTypeOK, ControlAt, SysctlLabels, NftLabels, WGLabels,
                      RoutingLabels, ClearLabels
  <2>7. Control'
    BY <1>0, <2>1, <2>2, <2>6, MoveControl DEF RunnerTypeOK
  <2> QED BY <1>0, <1>2, <2>2, <2>3, <2>5, <2>7 DEF TypeInv, TypeOK
<1>5. CASE StartClear(self)
  <2>1. /\ phase' = [phase EXCEPT ![self] = "clear"]
        /\ pc' = [pc EXCEPT ![self] = "clear wg-exit"]
    BY <1>5 DEF StartClear
  <2>2. UNCHANGED << pol, res, changes, n >>
    BY <1>5 DEF StartClear
  <2>3. installed' = {} /\ stable' = {} /\ run' = [s \in Procs |-> "disturbed"]
    BY <1>5 DEF StartClear, DisturbAll
  <2>4. "clear" \in Phases /\ "clear wg-exit" \in Labels
    BY DEF Phases, Labels
  <2>5. RunnerTypeOK'
    BY <1>0, <1>1, <2>1, <2>2, <2>4 DEF RunnerTypeOK
  <2>6. ControlAt(self)'
    BY <1>0, <2>1 DEF RunnerTypeOK, ControlAt, SysctlLabels, NftLabels, WGLabels,
                      RoutingLabels, ClearLabels
  <2>7. Control'
    BY <1>0, <2>1, <2>2, <2>6, MoveControl DEF RunnerTypeOK
  <2> QED BY <1>2, <2>3, <2>5, <2>7 DEF TypeInv, TypeOK
<1>6. ASSUME NEW p \in Policies, StartApply(self, p) PROVE TypeInv'
  <2>1. pol' = [pol EXCEPT ![self] = p] /\ installed' = installed /\ pc[self] = "idle"
    BY <1>6 DEF StartApply
  <2>2. CASE UNCHANGED << pc, phase, n, changes, run, stable >> /\ res' = [res EXCEPT ![self] = "error"]
    <3>1. RunnerTypeOK'
      BY <1>0, <1>1, <2>1, <2>2 DEF RunnerTypeOK
    <3>2. ControlAt(self)'
      BY <1>0, <2>1, <2>2 DEF Control, ControlAt, SysctlLabels, NftLabels, WGLabels,
                              RoutingLabels, ClearLabels
    <3>3. Control'
      BY <1>0, <2>1, <2>2, <3>2, MoveControl DEF RunnerTypeOK
    <3> QED BY <1>0, <1>2, <2>1, <2>2, <3>1, <3>3 DEF TypeInv, TypeOK
  <2>3. CASE /\ phase' = [phase EXCEPT ![self] = "sysctl"]
             /\ pc' = [pc EXCEPT ![self] = "sysctl read"]
             /\ n' = [n EXCEPT ![self] = 1]
             /\ changes' = [changes EXCEPT ![self] = FALSE]
             /\ BeginRun(self, p) /\ stable' = {} /\ res' = res
    <3>1. "sysctl" \in Phases /\ "sysctl read" \in Labels
      BY DEF Phases, Subsystems, Labels
    <3>2. RunnerTypeOK'
      <4>1. phase' \in [Procs -> Phases] /\ pc' \in [Procs -> Labels] /\ pol' \in [Procs -> Policies]
        BY <1>0, <2>1, <2>3, <3>1 DEF RunnerTypeOK
      <4>2. n' \in [Procs -> 0 .. 4]
        <5>1. n \in [Procs -> 0 .. 4] /\ 1 \in 0 .. 4
          BY <1>0 DEF RunnerTypeOK
        <5>2. n' = [n EXCEPT ![self] = 1]
          BY <2>3
        <5> QED BY <5>1, <5>2
      <4>3. changes' \in [Procs -> BOOLEAN]
        BY <1>0, <2>3 DEF RunnerTypeOK
      <4> QED BY <1>0, <1>1, <2>3, <4>1, <4>2, <4>3 DEF RunnerTypeOK
    <3>3. run' \in [Procs -> {"disturbed", "alone", "repeat"}]
      BY <2>3 DEF BeginRun
    <3>4. ControlAt(self)'
      <4>1. pc'[self] = "sysctl read" /\ phase'[self] = "sysctl"
        BY <1>0, <2>3 DEF RunnerTypeOK
      <4>2. n'[self] \in 1 .. 3
        <5>1. n'[self] = 1
          BY <1>0, <2>3 DEF RunnerTypeOK
        <5> QED BY <5>1
      <4> QED BY <4>1, <4>2 DEF ControlAt, SysctlLabels, NftLabels, WGLabels,
                                RoutingLabels, ClearLabels
    <3>5. Control'
      BY <1>0, <2>1, <2>3, <3>4, MoveControl DEF RunnerTypeOK
    <3> QED BY <1>0, <1>2, <2>1, <2>3, <3>2, <3>3, <3>5 DEF TypeInv, TypeOK
  <2> QED BY <1>6, <2>2, <2>3 DEF StartApply, SysctlEnter, Subsystems
<1> QED BY <1>3, <1>4, <1>5, <1>6

(* Deleting a link or setting it down keeps the types of the kernel.       *)
LEMMA LinkDelTyped ==
  ASSUME KernelTypeOK, NEW i \in Ifaces, UNCHANGED << sysctl, nft, rules >>,
         LinkDel(i) \/ (LinkDown(i) /\ wg' = wg)
  PROVE  KernelTypeOK'
<1>1. wg' = wg \/ wg' = [wg EXCEPT ![i] = NoDevice]
  BY DEF LinkDel
<1>2. link' \in [Ifaces -> {"absent", "down", "up"}]
  BY DEF KernelTypeOK, LinkDel, LinkDown
<1>3. main' \subseteq main /\ t100' \subseteq t100
  BY DEF LinkDel, LinkDown, DropRoutes
<1>4. wg' \in [Ifaces -> Device]
  BY <1>1, NoDeviceType DEF KernelTypeOK
<1> QED BY <1>2, <1>3, <1>4 DEF KernelTypeOK

(* apply.Clear preserves the type invariant.                               *)
LEMMA ClearTyped ==
  ASSUME TypeInv, NEW self \in Procs, ClearStep(self), ObserveCommand(self)
  PROVE  TypeInv'
<1> USE DEF At, Goto, SetPhase, Idle
<1>0. TypeOK /\ Control /\ RunnerTypeOK /\ KernelTypeOK
  BY DEF TypeInv, TypeOK
<1>1. phase[self] = "clear"
  BY <1>0 DEF ClearStep, ClearLink, ClearRule, ClearTable, ClearNft, Control, ControlAt,
              ClearLabels
<1>2. /\ UNCHANGED << pol, changes, seen, n, todo >>
      /\ faults' = faults \/ (faults < MaxFaults /\ faults' = faults + 1)
      /\ res' = res \/ res' = [res EXCEPT ![self] = "ok"]
      /\ \/ phase' = phase /\ \E l \in ClearLabels : pc' = [pc EXCEPT ![self] = l]
         \/ phase' = [phase EXCEPT ![self] = "idle"] /\ pc' = [pc EXCEPT ![self] = "idle"]
  BY DEF ClearStep, ClearLink, ClearRule, ClearTable, ClearNft, Ok, Fault, ClearLabels
<1>3. KernelTypeOK'
  <2>1. CASE \E i \in Ifaces : LinkDel(i) /\ UNCHANGED << sysctl, nft, rules >>
    BY <1>0, <2>1, LinkDelTyped
  <2>2. CASE /\ UNCHANGED << sysctl, link, wg, main >>
             /\ rules' \subseteq rules /\ t100' \subseteq t100
             /\ nft' = nft \/ nft' = NoTable
    BY <1>0, <2>2, NoTableType DEF KernelTypeOK
  <2> QED BY <2>1, <2>2 DEF ClearStep, ClearLink, ClearRule, ClearTable, ClearNft,
                            DeleteRule, Ifaces
<1>4. RunnerTypeOK'
  <2>1. faults' \in 0 .. MaxFaults
    BY <1>0, <1>2, RunnerAssumption DEF RunnerTypeOK
  <2>2. ClearLabels \cup {"idle"} \subseteq Labels /\ "idle" \in Phases
    BY DEF ClearLabels, Labels, Phases
  <2>3. pc' \in [Procs -> Labels] /\ phase' \in [Procs -> Phases]
    BY <1>0, <1>2, <2>2 DEF RunnerTypeOK
  <2>4. res' \in [Procs -> {"ok", "error"}]
    BY <1>0, <1>2 DEF RunnerTypeOK
  <2> QED BY <1>0, <1>2, <2>1, <2>3, <2>4 DEF RunnerTypeOK
<1>5. ControlAt(self)'
  <2>1. \/ phase'[self] = "clear" /\ pc'[self] \in ClearLabels
        \/ phase'[self] = "idle" /\ pc'[self] = "idle"
    BY <1>0, <1>1, <1>2 DEF RunnerTypeOK
  <2> QED BY <2>1 DEF ControlAt, SysctlLabels, NftLabels, WGLabels, RoutingLabels, ClearLabels
<1>6. Control'
  BY <1>0, <1>2, <1>5, MoveControl DEF RunnerTypeOK
<1> QED BY <1>0, <1>3, <1>4, <1>6, ObserveTyped DEF TypeInv, TypeOK

(* Kills, lost links and peers that move preserve the type invariant.      *)
LEMMA FaultTyped ==
  ASSUME TypeInv,
         \/ \E self \in Procs : Kill(self)
         \/ \E i \in Ifaces : LinkLost(i) \/ LinkForcedDown(i) \/ Roam(i)
  PROVE  TypeInv'
<1>0. TypeOK /\ Control /\ RunnerTypeOK /\ KernelTypeOK
  BY DEF TypeInv, TypeOK
<1>1. /\ faults < MaxFaults /\ faults' = faults + 1
      /\ installed' = installed /\ stable' = {} /\ run' = [s \in Procs |-> "disturbed"]
  BY DEF Kill, LinkLost, LinkForcedDown, Roam, Fault, Interfere, DisturbAll
<1>2. faults' \in 0 .. MaxFaults
  BY <1>0, <1>1, RunnerAssumption DEF RunnerTypeOK
<1>3. ASSUME NEW self \in Procs, Kill(self) PROVE TypeInv'
  <2>1. /\ UNCHANGED << kernel, pol, changes, seen, n, todo >>
        /\ phase' = [phase EXCEPT ![self] = "idle"] /\ pc' = [pc EXCEPT ![self] = "idle"]
        /\ res' = [res EXCEPT ![self] = "error"]
    BY <1>3 DEF Kill, Idle, Goto, SetPhase
  <2>2. "idle" \in Phases /\ "idle" \in Labels
    BY DEF Phases, Labels
  <2>3. KernelTypeOK'
    BY <1>0, <2>1 DEF KernelTypeOK, kernel
  <2>4. RunnerTypeOK'
    BY <1>0, <1>2, <2>1, <2>2 DEF RunnerTypeOK
  <2>5. ControlAt(self)'
    BY <1>0, <2>1 DEF RunnerTypeOK, ControlAt, SysctlLabels, NftLabels, WGLabels,
                      RoutingLabels, ClearLabels
  <2>6. Control'
    BY <1>0, <2>1, <2>5, MoveControl DEF RunnerTypeOK
  <2> QED BY <1>0, <1>1, <2>3, <2>4, <2>6 DEF TypeInv, TypeOK
<1>4. ASSUME NEW i \in Ifaces, LinkLost(i) \/ LinkForcedDown(i) \/ Roam(i) PROVE TypeInv'
  <2>1. UNCHANGED procVars
    BY <1>4 DEF LinkLost, LinkForcedDown, Roam
  <2>2. RunnerTypeOK'
    BY <1>0, <1>2, <2>1 DEF RunnerTypeOK, procVars
  <2>3. Control'
    BY <1>0, <2>1 DEF Control, ControlAt, procVars
  <2>4. KernelTypeOK'
    <3>1. CASE LinkLost(i) \/ LinkForcedDown(i)
      BY <1>0, <3>1, LinkDelTyped DEF LinkLost, LinkForcedDown
    <3>2. CASE Roam(i)
      <4>1. PICK j \in DOMAIN wg[i].Peers :
              wg' = [wg EXCEPT ![i].Peers[j].Endpoint = RoamedTo]
        BY <3>2 DEF Roam
      <4> DEFINE peers == wg[i].Peers
                 peer == [peers[j] EXCEPT !.Endpoint = RoamedTo]
      <4>2. wg[i] \in Device /\ peers \in Seq(WireGuardPeer)
        BY <1>0 DEF KernelTypeOK, Device
      <4>3. peers[j] \in WireGuardPeer /\ j \in 1 .. Len(peers)
        BY <4>2
      <4>4. peer \in WireGuardPeer
        BY <4>3, ApplyAssumption DEF WireGuardPeer
      <4>5. [peers EXCEPT ![j] = peer] \in Seq(WireGuardPeer)
        BY <4>2, <4>3, <4>4, ExceptSeq
      <4>6. [wg[i] EXCEPT !.Peers = [peers EXCEPT ![j] = peer]] \in Device
        BY <4>2, <4>5 DEF Device
      <4>7. wg' = [wg EXCEPT ![i] = [wg[i] EXCEPT !.Peers = [peers EXCEPT ![j] = peer]]]
        BY <4>1
      <4>8. wg' \in [Ifaces -> Device]
        BY <1>0, <4>6, <4>7 DEF KernelTypeOK
      <4> QED BY <1>0, <3>2, <4>8 DEF Roam, KernelTypeOK
    <3> QED BY <1>4, <3>1, <3>2
  <2> QED BY <1>0, <1>1, <2>2, <2>3, <2>4 DEF TypeInv, TypeOK
<1> QED BY <1>3, <1>4

-----------------------------------------------------------------------------
(* The invariant holds before the first command.                           *)
LEMMA InitTyped == Init => TypeInv
<1> SUFFICES ASSUME Init PROVE TypeInv
  OBVIOUS
<1>1. KernelTypeOK
  <2>1. main \subseteq MainRoute
    BY DEF Init, MainRoute, CIDR
  <2>2. link \in [Ifaces -> {"absent", "down", "up"}]
    BY DEF Init
  <2> QED BY <2>1, <2>2, NoTableType, NoDeviceType, ApplyAssumption DEF Init, KernelTypeOK
<1>2. RunnerTypeOK
  <2>1. "idle" \in Labels /\ "idle" \in Phases
    BY DEF Labels, Phases
  <2>2. (CHOOSE p \in Policies : TRUE) \in Policies
    BY PolicyAssumption
  <2>3. pol \in [Procs -> Policies]
    BY <2>2 DEF Init
  <2> QED BY <2>1, <2>3, RunnerAssumption DEF Init, RunnerTypeOK
<1>3. Control
  BY DEF Init, Control, ControlAt, SysctlLabels, NftLabels, WGLabels, RoutingLabels, ClearLabels
<1> QED BY <1>1, <1>2, <1>3 DEF Init, TypeInv, TypeOK

(* Every step of a process or of its surroundings preserves the types.     *)
LEMMA NextTyped == TypeInv /\ [Next]_vars => TypeInv'
<1> SUFFICES ASSUME TypeInv, [Next]_vars PROVE TypeInv'
  OBVIOUS
<1>1. ASSUME NEW self \in Procs, Command(self) PROVE TypeInv'
  <2>1. ObserveCommand(self)
    BY <1>1 DEF Command
  <2>2. CASE WGNext(self)
    BY <2>1, <2>2, WGTyped, WGSetTyped DEF WGNext, WGActions
  <2> QED BY <1>1, <2>1, <2>2, SysctlTyped, NftTyped, RoutingTyped, ClearTyped DEF Command
<1>2. CASE UNCHANGED vars
  BY <1>2 DEF vars, kernel, procVars, history, TypeInv, TypeOK, KernelTypeOK, RunnerTypeOK,
              Control, ControlAt
<1> QED BY <1>1, <1>2, ReconcileTyped, FaultTyped DEF Next, Process

(* Type correctness: whatever the policies and the faults, the processes   *)
(* and the kernel objects gotun reconciles keep to their types, and every  *)
(* process is in the subsystem its next command belongs to.                *)
THEOREM TypeCorrect == Spec => []TypeOK
<1>1. TypeInv => TypeOK
  BY DEF TypeInv
<1> QED BY <1>1, InitTyped, NextTyped, PTL DEF Spec
=============================================================================
