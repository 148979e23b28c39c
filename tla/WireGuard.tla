----------------------------- MODULE WireGuard -----------------------------
(***************************************************************************)
(* wireguard.Reconcile for the interface phase[self] names, wg-exit or     *)
(* wg-clients.                                                             *)
(***************************************************************************)
EXTENDS Runner

wgFrame == << sysctl, nft, rules, phase, pol, seen, n >>

WGEnter(self) == Goto(self, "link show") /\ UNCHANGED n

WGWant(self) == WGSpec(pol[self], phase[self])

SetDevice(self, dev) == wg' = [wg EXCEPT ![phase[self]] = dev]

(* Where the sequence of "set" commands continues after the private key    *)
(* and after the peer: a command with nothing to set is not run.           *)
AfterPeer(spec) == IF spec.cfg.Address # "" THEN "addr replace" ELSE "link up"
AfterKey(spec)  == IF spec.cfg.Peer.PublicKey # "" THEN "wg peer" ELSE AfterPeer(spec)

(* Take the interface down: first the routes, then the link.               *)
StartDown(self) == NextPrefix(self, WGWant(self).cfg.Peer.AllowedIPs, "route del", "link down")

(* The link is shown; a failure to show it counts as a missing link.  The  *)
(* state it is shown in decides whether the device is compared.            *)
LinkShow(self) ==
  LET iface == phase[self]
      spec  == WGWant(self)
  IN /\ At(self, "link show")
     /\ \/ Ok /\ ~spec.Managed /\ Return(self, "ok") /\ UNCHANGED todo
        \/ /\ Ok /\ spec.Managed /\ link[iface] = "absent"
           /\ Goto(self, "link add") /\ UNCHANGED << res, todo >>
        \/ /\ Fault("link show") /\ spec.Managed
           /\ Goto(self, "link add") /\ UNCHANGED << res, todo >>
        \/ /\ Ok /\ spec.Managed /\ link[iface] # "absent" /\ ~spec.Up
           /\ StartDown(self) /\ UNCHANGED res
        \/ /\ Ok /\ spec.Managed /\ link[iface] = "up" /\ spec.Up
           /\ Goto(self, "wg dump") /\ UNCHANGED << res, todo >>
        \/ /\ Ok /\ spec.Managed /\ link[iface] = "down" /\ spec.Up
           /\ Goto(self, "wg key") /\ UNCHANGED << res, todo >>
     /\ UNCHANGED << wgFrame, link, wg, t100, main, changes >>

LinkAdd(self) ==
  LET iface == phase[self]
  IN /\ At(self, "link add")
     /\ \/ /\ Ok /\ link[iface] = "absent"
           /\ link' = [link EXCEPT ![iface] = "down"]
           /\ Count(self)
           /\ IF WGWant(self).Up THEN Goto(self, "wg key") /\ UNCHANGED todo
                               ELSE StartDown(self)
           /\ UNCHANGED res
        \/ /\ Ok /\ link[iface] # "absent"
           /\ Return(self, "error") /\ UNCHANGED << link, changes, todo >>
        \/ /\ Fault("link add")
           /\ Return(self, "error") /\ UNCHANGED << link, changes, todo >>
     /\ UNCHANGED << wgFrame, wg, t100, main >>

(* Up = FALSE: the routes of the AllowedIPs, whose errors are ignored.     *)
RouteDel(self) ==
  /\ At(self, "route del")
  /\ \E p \in todo[self] :
       /\ \/ Ok /\ main' = main \ { [Dst |-> p, Dev |-> phase[self]] }
          \/ Fault("route del") /\ UNCHANGED main
       /\ NextPrefix(self, todo[self] \ {p}, "route del", "link down")
  /\ UNCHANGED << wgFrame, link, wg, t100, res, changes >>

SetLinkDown(self) ==
  /\ At(self, "link down")
  /\ \/ /\ Ok /\ link[phase[self]] # "absent"
        /\ LinkDown(phase[self]) /\ Count(self) /\ Return(self, "ok")
     \/ /\ Ok /\ link[phase[self]] = "absent"
        /\ Return(self, "error") /\ UNCHANGED << link, t100, main, changes >>
     \/ /\ Fault("link down")
        /\ Return(self, "error") /\ UNCHANGED << link, t100, main, changes >>
  /\ UNCHANGED << wgFrame, wg, todo >>

(* semanticMatch and parseWGDump: the device line and the first peer.  A   *)
(* listen port is compared only if the spec has one.  Comparing no more    *)
(* than the keys would miss what else there is of the peer.                *)
KeysMatch(dev, cfg) ==
  /\ dev.PrivateKey = cfg.PrivateKey
  /\ cfg.ListenPort > 0 => dev.ListenPort = cfg.ListenPort
  /\ dev.Peers # << >> /\ Head(dev.Peers).PublicKey = cfg.Peer.PublicKey

DumpMatches(dev, cfg) ==
  LET first == IF dev.Peers = << >>
               THEN [PublicKey |-> "", Endpoint |-> "",
                     AllowedIPs |-> {}, PersistentKeepalive |-> 0]
               ELSE Head(dev.Peers)
  IN /\ dev.PrivateKey = cfg.PrivateKey
     /\ cfg.ListenPort > 0 => dev.ListenPort = cfg.ListenPort
     /\ first = cfg.Peer

Dump(self) ==
  LET iface   == phase[self]
      cfg     == WGWant(self).cfg
      matches == link[iface] # "absent" /\ DumpMatches(wg[iface], cfg)
  IN /\ At(self, "wg dump")
     /\ \/ Ok /\ ~matches /\ Goto(self, "wg key") /\ UNCHANGED res
        \/ Fault("wg dump") /\ Goto(self, "wg key") /\ UNCHANGED res
        \/ Ok /\ matches /\ cfg.Address # "" /\ Goto(self, "addr show") /\ UNCHANGED res
        \/ Ok /\ matches /\ cfg.Address = "" /\ Return(self, "ok")
     /\ UNCHANGED << wgFrame, link, wg, t100, main, changes, todo >>

AddrShow(self) ==
  LET present == WGWant(self).cfg.Address \in wg[phase[self]].Addresses
  IN /\ At(self, "addr show")
     /\ \/ Ok /\ present /\ Return(self, "ok")
        \/ Ok /\ ~present /\ Goto(self, "wg key") /\ UNCHANGED res
        \/ Fault("addr show") /\ Goto(self, "wg key") /\ UNCHANGED res
     /\ UNCHANGED << wgFrame, link, wg, t100, main, changes, todo >>

(* A command on the interface: it fails if the link is gone by now, and    *)
(* Reconcile returns that error; else dev is what it makes of the device.  *)
SetCommand(self, label, dev, next) ==
  /\ At(self, label)
  /\ \/ /\ Ok /\ link[phase[self]] # "absent"
        /\ SetDevice(self, dev) /\ Count(self) /\ Goto(self, next) /\ UNCHANGED res
     \/ /\ Ok /\ link[phase[self]] = "absent"
        /\ Return(self, "error") /\ UNCHANGED << wg, changes >>
     \/ Fault(label) /\ Return(self, "error") /\ UNCHANGED << wg, changes >>
  /\ UNCHANGED << wgFrame, link, t100, main, todo >>

SetKey(self) ==
  LET cfg == WGWant(self).cfg
      old == wg[phase[self]]
  IN SetCommand(self, "wg key",
                [old EXCEPT !.PrivateKey = cfg.PrivateKey,
                            !.ListenPort = IF cfg.ListenPort > 0 THEN cfg.ListenPort ELSE @],
                AfterKey(WGWant(self)))

SetPeer(self) ==
  SetCommand(self, "wg peer",
             [wg[phase[self]] EXCEPT !.Peers = WGSetPeer(@, WGWant(self).cfg.Peer)],
             AfterPeer(WGWant(self)))

AddrReplace(self) ==
  SetCommand(self, "addr replace",
             [wg[phase[self]] EXCEPT !.Addresses = @ \cup {WGWant(self).cfg.Address}],
             "link up")

SetLinkUp(self) ==
  LET iface == phase[self]
      ips   == WGWant(self).cfg.Peer.AllowedIPs
  IN /\ At(self, "link up")
     /\ \/ /\ Ok /\ link[iface] # "absent"
           /\ link' = [link EXCEPT ![iface] = "up"]
           /\ Count(self)
           /\ todo' = [todo EXCEPT ![self] = ips]
           /\ IF ips # {} THEN Goto(self, "route replace") /\ UNCHANGED res
                          ELSE Return(self, "ok")
        \/ /\ Ok /\ link[iface] = "absent"
           /\ Return(self, "error") /\ UNCHANGED << link, changes, todo >>
        \/ /\ Fault("link up")
           /\ Return(self, "error") /\ UNCHANGED << link, changes, todo >>
     /\ UNCHANGED << wgFrame, wg, t100, main >>

(* The AllowedIPs become routes of main; the device must be up for that.   *)
RouteReplace(self) ==
  LET iface == phase[self]
  IN /\ At(self, "route replace")
     /\ \/ \E p \in todo[self] :
             /\ Ok /\ link[iface] = "up"
             /\ main' = MainReplace(p, iface)
             /\ Count(self)
             /\ todo' = [todo EXCEPT ![self] = @ \ {p}]
             /\ IF todo[self] # {p} THEN UNCHANGED << pc, res >> ELSE Return(self, "ok")
        \/ /\ Ok /\ link[iface] # "up"
           /\ Return(self, "error") /\ UNCHANGED << main, changes, todo >>
        \/ /\ Fault("route replace")
           /\ Return(self, "error") /\ UNCHANGED << main, changes, todo >>
     /\ UNCHANGED << wgFrame, link, wg, t100 >>

WGNext(self) ==
  \/ LinkShow(self) \/ LinkAdd(self)
  \/ RouteDel(self) \/ SetLinkDown(self)
  \/ Dump(self) \/ AddrShow(self)
  \/ SetKey(self) \/ SetPeer(self) \/ AddrReplace(self)
  \/ SetLinkUp(self) \/ RouteReplace(self)

(* wireguard.Clear *)
ClearLink(self, iface, label) ==
  /\ At(self, label)
  /\ \/ Ok /\ LinkDel(iface)
     \/ Fault(label) /\ UNCHANGED << link, wg, t100, main >>
  /\ UNCHANGED << sysctl, nft, rules, changes, seen, n, todo >>
=============================================================================
