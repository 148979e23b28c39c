------------------------------- MODULE Apply -------------------------------
(***************************************************************************)
(* The apply package and the gotun command that drives it: apply.Reconcile *)
(* runs the subsystems one after the other and stops at the first error,   *)
(* apply.Clear removes what gotun owns and ignores errors.  Operators run  *)
(* these commands, in several processes if they like; commands fail,       *)
(* processes are killed and links are lost.                                *)
(***************************************************************************)
EXTENDS Sysctl, Nftables, WireGuard, Routing

CONSTANTS ForeignRules,  \* ip rules of other owners
          Commands,      \* the commands operators run: apply, clear
          RoamedTo       \* the endpoint a peer is heard from after it moved

ASSUME ApplyAssumption ==
  /\ ForeignRules \subseteq IPRule
  /\ Commands \subseteq {"apply", "clear"}
  /\ RoamedTo \in Text

(***************************************************************************)
(* What an operator knows.  installed is {p} once an apply of p succeeded, *)
(* until a clear is begun.  stable is {p} if that apply ran without        *)
(* interference from outside and nothing has happened since.  run[self]    *)
(* says of the apply in progress that it was interfered with ("disturbed", *)
(* by another process or a lost link), that it was not ("alone"), or that  *)
(* it also repeats the apply stable tells of and has met no fault          *)
(* ("repeat").                                                             *)
(***************************************************************************)
VARIABLES installed, stable, run

history == << installed, stable, run >>
vars    == << kernel, procVars, faults, history >>

TypeOK ==
  /\ KernelTypeOK
  /\ RunnerTypeOK
  /\ installed \subseteq Policies
  /\ stable \subseteq Policies
  /\ run \in [Procs -> {"disturbed", "alone", "repeat"}]

(* wg-exit may have been brought up by somebody else.                      *)
Init ==
  /\ sysctl = [k \in SysctlKeys |-> "0"]
  /\ nft = NoTable
  /\ \E up \in BOOLEAN :
       link = [i \in Ifaces |-> IF up /\ i = TunnelIface THEN "up" ELSE "absent"]
  /\ wg = [i \in Ifaces |-> NoDevice]
  /\ rules = ForeignRules
  /\ t100 = {}
  /\ main = { [Dst |-> Addr4, Dev |-> Uplink] }
  /\ pc = [s \in Procs |-> "idle"]
  /\ phase = [s \in Procs |-> "idle"]
  /\ pol = [s \in Procs |-> CHOOSE p \in Policies : TRUE]
  /\ res = [s \in Procs |-> "ok"]
  /\ changes = [s \in Procs |-> FALSE]
  /\ seen = [s \in Procs |-> FALSE]
  /\ n = [s \in Procs |-> 0]
  /\ todo = [s \in Procs |-> {}]
  /\ faults = 0
  /\ installed = {} /\ stable = {}
  /\ run = [s \in Procs |-> "disturbed"]

-----------------------------------------------------------------------------
SetPhase(self, s) == phase' = [phase EXCEPT ![self] = s]

DisturbAll == run' = [s \in Procs |-> "disturbed"]

BeginRun(self, p) ==
  LET sole == \A s \in Procs \ {self} : At(s, "idle")
  IN run' = [s \in Procs |-> IF s # self \/ ~sole THEN "disturbed"
                             ELSE IF stable = {p} THEN "repeat" ELSE "alone"]

(* gotun apply: Compile rejects the policy, or the first subsystem is      *)
(* reconciled.                                                             *)
StartApply(self, p) ==
  /\ At(self, "idle") /\ "apply" \in Commands
  /\ pol' = [pol EXCEPT ![self] = p]
  /\ \/ /\ Validate(p)
        /\ SetPhase(self, Subsystems[1]) /\ SysctlEnter(self)
        /\ changes' = [changes EXCEPT ![self] = FALSE]
        /\ BeginRun(self, p)
        /\ stable' = {}
        /\ UNCHANGED res
     \/ /\ ~Validate(p)
        /\ res' = [res EXCEPT ![self] = "error"]
        /\ UNCHANGED << pc, phase, n, changes, run, stable >>
  /\ UNCHANGED << kernel, seen, todo, faults, installed >>

(* A subsystem has returned without an error and the next one is entered.  *)
Enter(self, s) ==
  /\ SetPhase(self, s)
  /\ \/ s = "nft" /\ NftEnter(self)
     \/ s \in Ifaces /\ WGEnter(self)
     \/ s = "routing" /\ RoutingEnter(self)

NextSubsystem(self) ==
  /\ At(self, "return") /\ res[self] = "ok"
  /\ \E i \in 1 .. (Len(Subsystems) - 1) :
       phase[self] = Subsystems[i] /\ Enter(self, Subsystems[i + 1])
  /\ UNCHANGED << kernel, pol, res, changes, seen, todo, faults, history >>

Idle(self) == Goto(self, "idle") /\ SetPhase(self, "idle")

(* The first error, or the success of the last subsystem, ends the command. *)
ReturnError(self) ==
  /\ At(self, "return") /\ res[self] = "error"
  /\ Idle(self)
  /\ UNCHANGED << kernel, pol, res, changes, seen, n, todo, faults, history >>

ReturnOk(self) ==
  /\ At(self, "return") /\ res[self] = "ok" /\ phase[self] = Subsystems[Len(Subsystems)]
  /\ Idle(self)
  /\ installed' = {pol[self]}
  /\ stable' = IF run[self] # "disturbed" THEN {pol[self]} ELSE {}
  /\ UNCHANGED << kernel, pol, res, changes, seen, n, todo, faults, run >>

-----------------------------------------------------------------------------
(* gotun clear: both links, the rule, table 100, the nft table.            *)
StartClear(self) ==
  /\ At(self, "idle") /\ "clear" \in Commands
  /\ SetPhase(self, "clear") /\ Goto(self, "clear wg-exit")
  /\ installed' = {} /\ stable' = {} /\ DisturbAll
  /\ UNCHANGED << kernel, pol, res, changes, seen, n, todo, faults >>

ClearStep(self) ==
  \/ /\ ClearLink(self, TunnelIface, "clear wg-exit")
     /\ Goto(self, "clear wg-clients") /\ UNCHANGED << phase, pol, res >>
  \/ /\ ClearLink(self, ClientsIface, "clear wg-clients")
     /\ Goto(self, "clear rule") /\ UNCHANGED << phase, pol, res >>
  \/ ClearRule(self) /\ Goto(self, "clear table") /\ UNCHANGED << phase, pol, res >>
  \/ ClearTable(self) /\ Goto(self, "clear nft") /\ UNCHANGED << phase, pol, res >>
  \/ /\ ClearNft(self) /\ Idle(self)
     /\ res' = [res EXCEPT ![self] = "ok"] /\ UNCHANGED pol

-----------------------------------------------------------------------------
(* One command of a process.  A failed one makes its run an ordinary one.  *)
ObserveCommand(self) ==
  /\ run' = [run EXCEPT ![self] = IF faults' # faults /\ @ = "repeat" THEN "alone" ELSE @]
  /\ UNCHANGED << installed, stable >>

Command(self) ==
  /\ \/ SysctlNext(self) \/ NftNext(self) \/ WGNext(self) \/ RoutingNext(self)
     \/ ClearStep(self)
  /\ ObserveCommand(self)

(* Interference from outside ends what is known to be stable.              *)
Interfere == stable' = {} /\ DisturbAll /\ UNCHANGED installed

Kill(self) ==
  /\ ~At(self, "idle") /\ Fault("kill")
  /\ Idle(self)
  /\ res' = [res EXCEPT ![self] = "error"]
  /\ UNCHANGED << kernel, pol, changes, seen, n, todo >>
  /\ Interfere

(* Events outside gotun: a link is deleted or set down, and a peer is      *)
(* heard from a new address, which WireGuard then takes as its endpoint.   *)
LinkLost(iface) ==
  /\ link[iface] # "absent" /\ Fault("link lost")
  /\ LinkDel(iface)
  /\ UNCHANGED << sysctl, nft, rules, procVars >>
  /\ Interfere

LinkForcedDown(iface) ==
  /\ link[iface] = "up" /\ Fault("link forced down")
  /\ LinkDown(iface)
  /\ UNCHANGED << sysctl, nft, wg, rules, procVars >>
  /\ Interfere

Roam(iface) ==
  /\ link[iface] = "up" /\ Fault("roam")
  /\ \E i \in DOMAIN wg[iface].Peers :
       wg' = [wg EXCEPT ![iface].Peers[i].Endpoint = RoamedTo]
  /\ UNCHANGED << sysctl, nft, link, rules, t100, main, procVars >>
  /\ Interfere

Process(self) ==
  NextSubsystem(self) \/ ReturnError(self) \/ ReturnOk(self) \/ Command(self)

Next ==
  \/ \E self \in Procs :
       \/ Process(self)
       \/ \E p \in Policies : StartApply(self, p)
       \/ StartClear(self)
       \/ Kill(self)
  \/ \E iface \in Ifaces : LinkLost(iface) \/ LinkForcedDown(iface) \/ Roam(iface)

Spec == Init /\ [][Next]_vars

(* A process that has begun a command runs on.                             *)
FairSpec == Spec /\ \A self \in Procs : WF_vars(Process(self))

-----------------------------------------------------------------------------
(* Safety.  The destinations policy p sends through the tunnel.            *)
LANAddrs(p) == UNION p.LANs

Tunnelled(p) ==
  { d \in Addr4 : d \notin p.DirectPrefixes \cup LANAddrs(p) \cup {p.TunnelEndpoint} }

(***************************************************************************)
(* The datapath policy p describes: direct destinations leave by main and  *)
(* not by the tunnel, the others by the tunnel or not at all, IPv6 is      *)
(* dropped, and clients of wg-clients are kept from the LANs.              *)
(***************************************************************************)
Converged(p) ==
  /\ \A k \in SysctlKeys : sysctl[k] = "1"
  /\ HasComment(nft.prerouting, "drop-ipv6")
  /\ \A d \in Addr4 \ Tunnelled(p) :
        Egress(d) = MainEgress(d) /\ MainEgress(d) # TunnelIface
  /\ \A d \in Tunnelled(p) :
        Egress(d) = IF p.TunnelUp THEN TunnelIface ELSE "blackhole"
  /\ p.InboundWireGuard.PrivateKey # "" => \A d \in LANAddrs(p) : Isolated(d)

(* Whatever state failures, kills, lost links and other policies left      *)
(* behind, an apply that reports success has made the kernel do what its   *)
(* policy says: the README calls a successful apply the way to recover.    *)
SuccessConverges == \A p \in stable : Converged(p)

(* The link of an interface is as policy p wants it; if it is up, so are   *)
(* its key, port and address, and there is a peer that has all the policy  *)
(* gives it and shares the AllowedIPs with no other.                       *)
Peered(dev, peer) ==
  \E k \in DOMAIN dev.Peers :
     /\ dev.Peers[k].PublicKey = peer.PublicKey
     /\ peer.Endpoint # "" => dev.Peers[k].Endpoint = peer.Endpoint
     /\ peer.AllowedIPs # {} => dev.Peers[k].AllowedIPs = peer.AllowedIPs
     /\ peer.PersistentKeepalive > 0 =>
          dev.Peers[k].PersistentKeepalive = peer.PersistentKeepalive
     /\ \A j \in DOMAIN dev.Peers \ {k} : dev.Peers[j].AllowedIPs \cap peer.AllowedIPs = {}

DeviceSet(p, iface) ==
  LET spec == WGSpec(p, iface)
      cfg  == spec.cfg
  IN /\ spec.Managed => link[iface] = IF spec.Up THEN "up" ELSE "down"
     /\ spec.Managed /\ spec.Up =>
          /\ wg[iface].PrivateKey = cfg.PrivateKey
          /\ cfg.ListenPort > 0 => wg[iface].ListenPort = cfg.ListenPort
          /\ cfg.Address # "" => cfg.Address \in wg[iface].Addresses
          /\ cfg.Peer.PublicKey # "" => Peered(wg[iface], cfg.Peer)

(* The same of the WireGuard devices: after a peer that roamed, a key that *)
(* was rotated, a command that failed half way, an apply that reports      *)
(* success has set what its policy gives, whatever semanticMatch took for  *)
(* equal and "wg set" left alone.                                          *)
DeviceConverges == \A p \in stable : \A iface \in Ifaces : DeviceSet(p, iface)

(* After a successful apply and until the next command, a tunnelled        *)
(* destination never leaves by the uplink, whatever happens to wg-exit:    *)
(* the blackhole of table 100 and the ip rule outlive the link.            *)
FailClosed ==
  \A p \in installed :
     (\A self \in Procs : At(self, "idle") /\ res[self] = "ok")
        => \A d \in Tunnelled(p) : Egress(d) \in {TunnelIface, "blackhole"}

(* No client of wg-clients reaches an address that every policy counts as  *)
(* home, at any point of any apply or clear: the nft transaction comes     *)
(* before the link is brought up, and the link is deleted before nft.      *)
HomeAddrs == { d \in Addr4 : \A p \in Policies : Validate(p) => d \in LANAddrs(p) }

HomeIsolation ==
  link[ClientsIface] = "up" => \A d \in HomeAddrs : Isolated(d)

(* Applying a policy again, with nothing in between, counts no change.     *)
ZeroChangesOnReapply == \A self \in Procs : ~At(self, "idle") /\ run[self] = "repeat" => ~changes[self]

(* Applying a policy again, with nothing in between, changes nothing in    *)
(* the kernel, not even for a moment.                                      *)
ReapplyTouchesNothing ==
  [][\A self \in Procs :
       ~At(self, "idle") /\ run[self] = "repeat" /\ run'[self] = "repeat"
         => UNCHANGED kernel]_vars

(* A table that has been installed and not cleared keeps its terminal      *)
(* blackhole whenever no command is running.                               *)
BlackholeStays ==
  (installed # {} /\ \A self \in Procs : At(self, "idle")) => Blackhole \in t100

(* The encapsulated packets gotun itself sends to the tunnel endpoint are  *)
(* never routed back into the tunnel.                                      *)
EndpointNotViaTunnel ==
  \A p \in installed : MainEgress(p.TunnelEndpoint) # TunnelIface

(* Liveness.  Once the faults are over, an apply that begins succeeds,     *)
(* from whatever the faults have left behind.                              *)
RecoveryByApply ==
  \A self \in Procs :
     (At(self, "sysctl read") /\ n[self] = 1 /\ run[self] # "disturbed" /\ faults = MaxFaults)
        ~> (At(self, "idle") /\ res[self] = "ok" /\ stable = {pol[self]})
=============================================================================
