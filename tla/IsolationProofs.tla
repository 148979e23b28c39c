-------------------------- MODULE IsolationProofs --------------------------
(***************************************************************************)
(* Home isolation, for every set of addresses, policies, processes and     *)
(* faults: whoever is connected through wg-clients is kept from the home   *)
(* networks.                                                               *)
(***************************************************************************)
EXTENDS ApplyProofs

(* Every policy gotun is run with manages wg-clients (inbound isolation is *)
(* part of each).                                                          *)
Isolating == \A p \in Policies : Validate(p) => p.InboundWireGuard.PrivateKey # ""

(* gotun clear is run by one process and can delete wg-clients, or is not  *)
(* run at all.                                                             *)
ClearSafe ==
  "clear" \in Commands =>
    /\ "clear wg-clients" \notin Fallible
    /\ \A s, t \in Procs : s = t

(* The live nft table keeps clients from every home address.               *)
Isolates == \A d \in HomeAddrs : Isolated(d)

(* What a process has made sure of where it is.                            *)
IsolationAt(s) ==
  /\ phase[s] \notin {"idle", "clear"} => Validate(pol[s])
  /\ phase[s] \in Ifaces => Isolates
  /\ phase[s] = "nft" /\ pc[s] = "return" /\ res[s] = "ok" => Isolates
  /\ phase[s] = "clear" => "clear" \in Commands
  /\ pc[s] \in {"clear rule", "clear table", "clear nft"} => link[ClientsIface] = "absent"

IsolationInv == HomeIsolation /\ \A s \in Procs : IsolationAt(s)

-----------------------------------------------------------------------------
(* A home address is in the LANs of every policy Compile accepts, so the   *)
(* spec compiled from one isolates it.                                     *)
LEMMA SpecIsolates ==
  ASSUME Isolating, NEW p \in Policies, Validate(p)
  PROVE  /\ NftSpec(p).home_nets = p.LANs /\ p.LANs # {}
         /\ NftSpec(p).forward = << Rule("isolate-inbound-from-home", {}) >>
         /\ \A d \in HomeAddrs : \E c \in p.LANs : d \in c
<1>1. p.InboundWireGuard.PrivateKey # ""
  BY DEF Isolating
<1>2. p.LANs # {}
  BY <1>1 DEF Validate
<1>3. \A d \in HomeAddrs : d \in UNION p.LANs
  BY DEF HomeAddrs, LANAddrs
<1> QED BY <1>1, <1>2, <1>3 DEF NftSpec

(* A live table that matches the spec isolates the home addresses:         *)
(* semanticMatchJSON compares home_nets and looks for the forward rule.    *)
LEMMA MatchIsolates ==
  ASSUME Isolating, NEW p \in Policies, Validate(p), SemanticMatch(nft, NftSpec(p))
  PROVE  Isolates
<1>1. p.LANs \subseteq nft.home_nets
  BY SpecIsolates DEF SemanticMatch, SetElements
<1>2. NftSpec(p).forward # << >>
  <2>1. \A r : << r >> # << >>
    OBVIOUS
  <2> QED BY <2>1, SpecIsolates
<1>3. \E i \in DOMAIN nft.forward : nft.forward[i].Comment = "isolate-inbound-from-home"
  BY <1>2 DEF SemanticMatch, LiveForward, HasComment
<1> QED BY <1>1, <1>3, SpecIsolates DEF Isolates, Isolated

(* So does what the nft transaction leaves, with or without the delete.    *)
LEMMA BatchIsolates ==
  ASSUME Isolating, NEW p \in Policies, Validate(p), NEW t \in NftTable,
         nft' = NftBatch(t, NftSpec(p))
  PROVE  Isolates'
<1> DEFINE rule == Rule("isolate-inbound-from-home", {})
           k == Len(t.forward)
<1>1. nft'.home_nets = t.home_nets \cup p.LANs
  BY SpecIsolates DEF NftBatch
<1>2. nft'.forward = t.forward \o << rule >>
  BY SpecIsolates DEF NftBatch
<1>3. t.forward \in Seq(NftRule) /\ k \in Nat /\ rule.Comment = "isolate-inbound-from-home"
  BY DEF NftTable, Rule
<1> HIDE DEF rule
<1>4. k + 1 \in DOMAIN nft'.forward /\ nft'.forward[k + 1] = rule
  BY <1>2, <1>3
<1>5. \E i \in DOMAIN nft'.forward : nft'.forward[i].Comment = "isolate-inbound-from-home"
  BY <1>3, <1>4
<1> QED BY <1>1, <1>5, SpecIsolates DEF Isolates, Isolated, HomeAddrs, LANAddrs

(* While one process is at work on a policy, none is clearing.             *)
LEMMA NobodyClears ==
  ASSUME IsolationInv, ClearSafe, NEW self \in Procs, phase[self] # "clear"
  PROVE  \A s \in Procs : phase[s] # "clear"
BY DEF IsolationInv, IsolationAt, ClearSafe

(* A command of a subsystem keeps the invariant if it does not undo the    *)
(* isolation, brings up only the interface it is about, and returns from   *)
(* nftables.Reconcile with success only when clients are isolated.         *)
LEMMA WorkIsolates ==
  ASSUME TypeInv, TypeInv', IsolationInv, ClearSafe,
         NEW self \in Procs, phase[self] # "clear",
         phase' = phase, pol' = pol,
         \A s \in Procs \ {self} : pc'[s] = pc[s] /\ res'[s] = res[s],
         Isolates => Isolates',
         link'[ClientsIface] = "up" => link[ClientsIface] = "up" \/ phase[self] \in Ifaces,
         phase[self] = "nft" /\ pc'[self] = "return" /\ res'[self] = "ok" => Isolates'
  PROVE  IsolationInv'
<1>1. HomeIsolation'
  <2>1. IsolationAt(self) /\ HomeIsolation
    BY DEF IsolationInv
  <2>2. HomeAddrs' = HomeAddrs
    BY DEF HomeAddrs, LANAddrs
  <2> QED BY <2>1, <2>2 DEF IsolationAt, HomeIsolation, Isolates
<1>2. ASSUME NEW s \in Procs PROVE IsolationAt(s)'
  <2>1. IsolationAt(s) /\ phase[s] # "clear"
    BY NobodyClears DEF IsolationInv
  <2>2. pc'[s] \notin ClearLabels
    BY <2>1 DEF TypeInv, Control, ControlAt
  <2>3. phase'[s] = "nft" /\ pc'[s] = "return" /\ res'[s] = "ok" => Isolates'
    BY <2>1 DEF IsolationAt
  <2> QED BY <2>1, <2>2, <2>3 DEF IsolationAt, ClearLabels
<1> QED BY <1>1, <1>2 DEF IsolationInv

-----------------------------------------------------------------------------
(* Every command keeps the invariant: sysctl, nft, WireGuard, routing.     *)
LEMMA CommandIsolates ==
  ASSUME Isolating, ClearSafe, TypeInv, TypeInv', IsolationInv, NEW self \in Procs,
         SysctlNext(self) \/ NftNext(self) \/ WGNext(self) \/ RoutingNext(self)
  PROVE  IsolationInv'
<1>0. TypeOK /\ Control /\ RunnerTypeOK /\ KernelTypeOK
  BY DEF TypeInv, TypeOK
<1>1. nft' = nft => (Isolates => Isolates')
  BY DEF Isolates, Isolated, HomeAddrs, LANAddrs
<1>2. CASE SysctlNext(self)
  <2>1. UNCHANGED << nft, link, phase, pol >>
    BY <1>2 DEF SysctlNext, SysctlRead, SysctlEcho, SysctlWrite, SysctlReread, sysctlFrame
  <2>2. phase[self] = "sysctl"
    BY <1>0, <1>2 DEF SysctlNext, SysctlRead, SysctlEcho, SysctlWrite, SysctlReread,
                      Control, ControlAt, SysctlLabels, At
  <2>3. \A s \in Procs \ {self} : pc'[s] = pc[s] /\ res'[s] = res[s]
    BY <1>0, <1>2 DEF SysctlNext, SysctlRead, SysctlEcho, SysctlWrite, SysctlReread,
       NextKey, Return, Goto, RunnerTypeOK
  <2> QED BY <1>1, <2>1, <2>2, <2>3, WorkIsolates
<1>3. CASE NftNext(self)
  <2>1. UNCHANGED << link, phase, pol >>
    BY <1>3 DEF NftNext, NftList, NftApply, nftFrame
  <2>2. phase[self] = "nft"
    BY <1>0, <1>3 DEF NftNext, NftList, NftApply, Control, ControlAt, NftLabels, At
  <2>3. \A s \in Procs \ {self} : pc'[s] = pc[s] /\ res'[s] = res[s]
    BY <1>0, <1>3 DEF NftNext, NftList, NftApply, Return, Goto, RunnerTypeOK
  <2>4. pol[self] \in Policies /\ Validate(pol[self]) /\ nft \in NftTable
    BY <1>0, <2>2 DEF RunnerTypeOK, KernelTypeOK, IsolationInv, IsolationAt
  <2>5. \/ nft' = nft /\ (SemanticMatch(nft, NftSpec(pol[self])) \/ pc' = [pc EXCEPT ![self] = "nft apply"]
                           \/ res' = [res EXCEPT ![self] = "error"])
        \/ nft' = NftBatch(NoTable, NftSpec(pol[self]))
        \/ nft' = NftBatch(nft, NftSpec(pol[self]))
    BY <1>3 DEF NftNext, NftList, NftApply, Return, Goto
  <2>6. nft' # nft => Isolates'
    BY <2>4, <2>5, BatchIsolates, NoTableType
  <2>7. pc'[self] = "return" /\ res'[self] = "ok" => Isolates'
    <3>1. SemanticMatch(nft, NftSpec(pol[self])) => Isolates
      BY <2>4, MatchIsolates
    <3>2. pc' = [pc EXCEPT ![self] = "nft apply"] => pc'[self] # "return"
      BY <1>0 DEF RunnerTypeOK
    <3>3. res' = [res EXCEPT ![self] = "error"] => res'[self] # "ok"
      BY <1>0 DEF RunnerTypeOK
    <3>4. nft' = NftBatch(NoTable, NftSpec(pol[self])) \/ nft' = NftBatch(nft, NftSpec(pol[self]))
            => Isolates'
      BY <2>4, BatchIsolates, NoTableType
    <3> QED BY <1>1, <2>5, <3>1, <3>2, <3>3, <3>4
  <2> QED BY <1>1, <2>1, <2>2, <2>3, <2>6, <2>7, WorkIsolates
<1>4. CASE WGNext(self)
  <2>1. UNCHANGED << nft, phase, pol >>
    BY <1>4 DEF WGNext, LinkShow, LinkAdd, RouteDel, SetLinkDown, Dump, AddrShow, SetKey,
       SetPeer, AddrReplace, SetCommand, SetLinkUp, RouteReplace, wgFrame
  <2>2. phase[self] \in Ifaces
    BY <1>0, <1>4 DEF WGNext, LinkShow, LinkAdd, RouteDel, SetLinkDown, Dump, AddrShow, SetKey,
       SetPeer, AddrReplace, SetCommand, SetLinkUp, RouteReplace, At, Control, ControlAt, WGLabels
  <2>3. \A s \in Procs \ {self} : pc'[s] = pc[s] /\ res'[s] = res[s]
    BY <1>0, <1>4 DEF WGNext, LinkShow, LinkAdd, RouteDel, SetLinkDown, Dump, AddrShow, SetKey,
       SetPeer, AddrReplace, SetCommand, SetLinkUp, RouteReplace, StartDown, NextPrefix,
       Return, Goto, RunnerTypeOK
  <2>4. phase[self] # "clear" /\ phase[self] # "nft"
    BY <2>2 DEF Ifaces, TunnelIface, ClientsIface
  <2> QED BY <1>1, <2>1, <2>2, <2>3, <2>4, WorkIsolates
<1>5. CASE RoutingNext(self)
  <2>1. UNCHANGED << nft, link, phase, pol >>
    BY <1>5 DEF RoutingNext, RuleShow, RuleDel, RuleAdd, TableShow, TableFlush, TableAdd, routingFrame
  <2>2. phase[self] = "routing"
    BY <1>0, <1>5 DEF RoutingNext, RuleShow, RuleDel, RuleAdd, TableShow, TableFlush, TableAdd,
              Control, ControlAt, RoutingLabels, At
  <2>3. \A s \in Procs \ {self} : pc'[s] = pc[s] /\ res'[s] = res[s]
    BY <1>0, <1>5 DEF RoutingNext, RuleShow, RuleDel, RuleAdd, TableShow, TableFlush, TableAdd,
       Return, Goto, RunnerTypeOK
  <2> QED BY <1>1, <2>1, <2>2, <2>3, WorkIsolates
<1> QED BY <1>2, <1>3, <1>4, <1>5

(* The steps of apply.Reconcile between the subsystems, and the start of a *)
(* command: only a validated policy is applied, and a WireGuard interface  *)
(* is entered after nftables.Reconcile has returned without an error.      *)
LEMMA MoveIsolates ==
  ASSUME Isolating, ClearSafe, TypeInv, IsolationInv, NEW self \in Procs,
         \/ NextSubsystem(self) \/ ReturnError(self) \/ ReturnOk(self)
         \/ StartClear(self) \/ \E p \in Policies : StartApply(self, p)
  PROVE  IsolationInv'
<1> USE DEF At, Goto, SetPhase, Idle
<1>0. TypeOK /\ Control /\ RunnerTypeOK /\ KernelTypeOK
  BY DEF TypeInv, TypeOK
<1>1. nft' = nft /\ link' = link
  BY DEF NextSubsystem, ReturnError, ReturnOk, StartClear, StartApply, kernel
<1>2. (Isolates <=> Isolates') /\ HomeIsolation'
  BY <1>1 DEF IsolationInv, HomeIsolation, Isolates, Isolated, HomeAddrs, LANAddrs
<1>3. ASSUME NEW s \in Procs, s # self PROVE IsolationAt(s)'
  <2>1. pc'[s] = pc[s] /\ phase'[s] = phase[s] /\ pol'[s] = pol[s] /\ res'[s] = res[s]
    BY <1>0, <1>3 DEF RunnerTypeOK, NextSubsystem, Enter, NftEnter, WGEnter, RoutingEnter,
       ReturnError, ReturnOk, StartClear, StartApply, SysctlEnter
  <2>2. IsolationAt(s)
    BY DEF IsolationInv
  <2> QED BY <1>1, <1>2, <2>1, <2>2 DEF IsolationAt
<1>4. IsolationAt(self)'
  <2>1. IsolationAt(self)
    BY DEF IsolationInv
  <2>2. CASE NextSubsystem(self)
    <3>1. PICK i \in 1 .. 4 : phase[self] = Subsystems[i] /\ Enter(self, Subsystems[i + 1])
      BY <2>2 DEF NextSubsystem, Subsystems
    <3>2. /\ phase' = [phase EXCEPT ![self] = Subsystems[i + 1]] /\ pol' = pol
          /\ \E l \in {"nft list", "link show", "rule show"} : pc' = [pc EXCEPT ![self] = l]
      BY <2>2, <3>1 DEF NextSubsystem, Enter, NftEnter, WGEnter, RoutingEnter
    <3>3. /\ phase'[self] = Subsystems[i + 1] /\ pol'[self] = pol[self]
          /\ pc'[self] \in {"nft list", "link show", "rule show"}
      BY <1>0, <3>2 DEF RunnerTypeOK
    <3>4. /\ Subsystems[i] \notin {"idle", "clear"} /\ Subsystems[i + 1] \notin {"idle", "clear"}
          /\ Subsystems[i + 1] \in Ifaces => Subsystems[i] \in Ifaces \cup {"nft"}
      <4>1. i = 1 \/ i = 2 \/ i = 3 \/ i = 4
        OBVIOUS
      <4> QED BY <4>1 DEF Subsystems, Ifaces, TunnelIface, ClientsIface
    <3>5. Validate(pol[self])
      BY <2>1, <3>1, <3>4 DEF IsolationAt
    <3>6. Subsystems[i + 1] \in Ifaces => Isolates
      BY <2>1, <2>2, <3>1, <3>4 DEF IsolationAt, NextSubsystem
    <3>7. Validate(pol'[self])
      BY <3>3, <3>5
    <3> QED BY <1>2, <3>3, <3>4, <3>6, <3>7 DEF IsolationAt
  <2>3. CASE ReturnError(self) \/ ReturnOk(self)
    <3>1. phase'[self] = "idle" /\ pc'[self] = "idle"
      BY <1>0, <2>3 DEF RunnerTypeOK, ReturnError, ReturnOk
    <3> QED BY <3>1 DEF IsolationAt, Ifaces, TunnelIface, ClientsIface
  <2>4. CASE StartClear(self)
    <3>1. phase'[self] = "clear" /\ pc'[self] = "clear wg-exit" /\ "clear" \in Commands
      BY <1>0, <2>4 DEF RunnerTypeOK, StartClear
    <3> QED BY <3>1 DEF IsolationAt, Ifaces, TunnelIface, ClientsIface
  <2>5. ASSUME NEW p \in Policies, StartApply(self, p) PROVE IsolationAt(self)'
    <3>1. pol'[self] = p /\ pc[self] = "idle"
      BY <1>0, <2>5 DEF RunnerTypeOK, StartApply
    <3>2. CASE Validate(p) /\ phase'[self] = "sysctl" /\ pc'[self] = "sysctl read"
      <4>1. Validate(pol'[self])
        BY <3>1, <3>2
      <4> QED BY <3>2, <4>1 DEF IsolationAt, Ifaces, TunnelIface, ClientsIface
    <3>3. CASE phase'[self] = phase[self] /\ pc'[self] = pc[self]
      <4>1. phase[self] = "idle"
        BY <1>0, <3>1 DEF Control, ControlAt
      <4> QED BY <3>1, <3>3, <4>1 DEF IsolationAt, Ifaces, TunnelIface, ClientsIface
    <3> QED BY <1>0, <2>5, <3>2, <3>3 DEF RunnerTypeOK, StartApply, SysctlEnter, Subsystems
  <2> QED BY <2>2, <2>3, <2>4, <2>5
<1> QED BY <1>2, <1>3, <1>4 DEF IsolationInv

(* apply.Clear: wg-clients is gone before the nft table is.                *)
LEMMA ClearIsolates ==
  ASSUME Isolating, ClearSafe, TypeInv, TypeInv', IsolationInv, NEW self \in Procs,
         ClearStep(self)
  PROVE  IsolationInv'
<1> USE DEF At, Goto, SetPhase, Idle
<1>0. TypeOK /\ Control /\ RunnerTypeOK /\ KernelTypeOK
  BY DEF TypeInv, TypeOK
<1>1. phase[self] = "clear" /\ "clear" \in Commands
  BY <1>0 DEF ClearStep, ClearLink, ClearRule, ClearTable, ClearNft, Control, ControlAt,
              ClearLabels, IsolationInv, IsolationAt
<1>2. Procs = {self} /\ "clear wg-clients" \notin Fallible
  BY <1>1 DEF ClearSafe
<1>3. \/ phase'[self] = "clear" /\ pc'[self] \in ClearLabels
      \/ phase'[self] = "idle" /\ pc'[self] = "idle"
  BY <1>0, <1>1 DEF ClearStep, ClearLink, ClearRule, ClearTable, ClearNft, ClearLabels, RunnerTypeOK
<1>4. pc'[self] \in {"clear rule", "clear table", "clear nft"} => link'[ClientsIface] = "absent"
  <2>1. CASE ClearLink(self, TunnelIface, "clear wg-exit") /\ pc' = [pc EXCEPT ![self] = "clear wg-clients"]
    BY <1>0, <2>1 DEF RunnerTypeOK
  <2>2. CASE ClearLink(self, ClientsIface, "clear wg-clients")
    BY <1>0, <1>2, <2>2 DEF ClearLink, Fault, LinkDel, KernelTypeOK, Ifaces
  <2>3. CASE ClearRule(self) \/ ClearTable(self)
    BY <2>3 DEF ClearRule, ClearTable, IsolationInv, IsolationAt
  <2>4. CASE ClearNft(self) /\ pc' = [pc EXCEPT ![self] = "idle"]
    BY <1>0, <2>4 DEF RunnerTypeOK
  <2> QED BY <2>1, <2>2, <2>3, <2>4 DEF ClearStep
<1>5. HomeIsolation'
  <2>1. CASE nft' = nft /\ (link'[ClientsIface] = "up" => link[ClientsIface] = "up")
    BY <2>1 DEF IsolationInv, HomeIsolation, Isolated, HomeAddrs, LANAddrs
  <2>2. CASE ClearNft(self)
    <3>1. link'[ClientsIface] = "absent"
      BY <2>2 DEF ClearNft, IsolationInv, IsolationAt
    <3> QED BY <3>1 DEF HomeIsolation
  <2>3. CASE \E i \in Ifaces, l \in ClearLabels : ClearLink(self, i, l)
    <3>1. link'[ClientsIface] = link[ClientsIface] \/ link'[ClientsIface] = "absent"
      BY <1>0, <2>3 DEF ClearLink, LinkDel, KernelTypeOK, Ifaces
    <3>2. nft' = nft
      BY <2>3 DEF ClearLink
    <3> QED BY <2>1, <3>1, <3>2
  <2>4. CASE ClearRule(self) \/ ClearTable(self)
    BY <2>1, <2>4 DEF ClearRule, ClearTable
  <2> QED BY <2>2, <2>3, <2>4 DEF ClearStep, Ifaces, ClearLabels
<1>6. IsolationAt(self)'
  BY <1>1, <1>3, <1>4 DEF IsolationAt, Ifaces, TunnelIface, ClientsIface, ClearLabels
<1> QED BY <1>2, <1>5, <1>6 DEF IsolationInv

(* A kill, a lost link and a peer that moves do not touch the nft table    *)
(* and bring no link up.                                                   *)
LEMMA FaultIsolates ==
  ASSUME TypeInv, IsolationInv,
         \/ \E self \in Procs : Kill(self)
         \/ \E i \in Ifaces : LinkLost(i) \/ LinkForcedDown(i) \/ Roam(i)
  PROVE  IsolationInv'
<1>0. TypeOK /\ Control /\ RunnerTypeOK /\ KernelTypeOK
  BY DEF TypeInv, TypeOK
<1>1. nft' = nft
  BY DEF Kill, LinkLost, LinkForcedDown, Roam, kernel
<1>2. /\ link'[ClientsIface] = "up" => link[ClientsIface] = "up"
      /\ link[ClientsIface] = "absent" => link'[ClientsIface] = "absent"
  BY <1>0 DEF Kill, LinkLost, LinkForcedDown, Roam, kernel, LinkDel, LinkDown, KernelTypeOK, Ifaces
<1>3. (Isolates <=> Isolates') /\ HomeIsolation'
  BY <1>1, <1>2 DEF IsolationInv, HomeIsolation, Isolates, Isolated, HomeAddrs, LANAddrs
<1>4. ASSUME NEW s \in Procs PROVE IsolationAt(s)'
  <2>1. \/ pc'[s] = pc[s] /\ phase'[s] = phase[s] /\ pol'[s] = pol[s] /\ res'[s] = res[s]
        \/ pc'[s] = "idle" /\ phase'[s] = "idle"
    BY <1>0 DEF RunnerTypeOK, Kill, Idle, Goto, SetPhase, LinkLost, LinkForcedDown, Roam, procVars
  <2>2. IsolationAt(s)
    BY DEF IsolationInv
  <2>3. CASE pc'[s] = "idle" /\ phase'[s] = "idle"
    BY <2>3 DEF IsolationAt, Ifaces, TunnelIface, ClientsIface
  <2> QED BY <1>2, <1>3, <2>1, <2>2, <2>3 DEF IsolationAt
<1> QED BY <1>3, <1>4 DEF IsolationInv

-----------------------------------------------------------------------------
(* The invariant is inductive.                                             *)
LEMMA IsolationStep ==
  ASSUME Isolating, ClearSafe, TypeInv, TypeInv', IsolationInv, [Next]_vars
  PROVE  IsolationInv'
<1>1. CASE UNCHANGED vars
  <2>1. UNCHANGED << nft, link, phase, pol, pc, res >>
    BY <1>1 DEF vars, kernel, procVars
  <2>2. (Isolates <=> Isolates') /\ HomeIsolation'
    BY <2>1 DEF IsolationInv, HomeIsolation, Isolates, Isolated, HomeAddrs, LANAddrs
  <2> QED BY <2>1, <2>2 DEF IsolationInv, IsolationAt
<1> QED BY <1>1, CommandIsolates, MoveIsolates, ClearIsolates, FaultIsolates
        DEF Next, Process, Command

(* No policy, fault or interleaving of applies lets a client of wg-clients *)
(* reach a home address: apply.Reconcile runs nftables before WireGuard    *)
(* and stops at an error, and apply.Clear deletes the link before the      *)
(* table.  It takes policies that all manage wg-clients, and clears that   *)
(* are not run next to another command; the runs drop_inbound and the      *)
(* README show what happens without these hypotheses.                      *)
THEOREM HomeIsolationHolds ==
  ASSUME Isolating, ClearSafe
  PROVE  Spec => []HomeIsolation
<1>1. Init => IsolationInv
  BY DEF Init, IsolationInv, IsolationAt, HomeIsolation, Ifaces, TunnelIface, ClientsIface
<1>2. TypeInv /\ TypeInv' /\ IsolationInv /\ [Next]_vars => IsolationInv'
  BY IsolationStep
<1>3. IsolationInv => HomeIsolation
  BY DEF IsolationInv
<1> QED BY <1>1, <1>2, <1>3, InitTyped, NextTyped, PTL DEF Spec
=============================================================================
