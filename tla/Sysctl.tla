------------------------------- MODULE Sysctl -------------------------------
(***************************************************************************)
(* sysctl.Reconcile: for each key read it, write it through /proc, fall    *)
(* back on sysctl -w, and accept a value that is right after all.          *)
(***************************************************************************)
EXTENDS Runner

sysctlFrame == << nft, link, wg, rules, t100, main, phase, pol, seen, todo >>

SysctlEnter(self) ==
  /\ Goto(self, "sysctl read")
  /\ n' = [n EXCEPT ![self] = 1]

(* On to the key after n[self], or return.                                 *)
NextKey(self) ==
  IF n[self] = Len(SysctlSpecs)
  THEN Return(self, "ok") /\ UNCHANGED n
  ELSE /\ Goto(self, "sysctl read")
       /\ n' = [n EXCEPT ![self] = @ + 1]
       /\ UNCHANGED res

(* The value read, compared without its newline trimmed or trimmed.        *)
WantedUntrimmed(self) == FALSE

Wanted(self) == sysctl[SysctlSpecs[n[self]]] = "1"

WriteKey(self) == sysctl' = [sysctl EXCEPT ![SysctlSpecs[n[self]]] = "1"]

SysctlRead(self) ==
  /\ At(self, "sysctl read")
  /\ \/ Ok /\ Wanted(self) /\ NextKey(self)
     \/ Ok /\ ~Wanted(self) /\ Goto(self, "sysctl echo") /\ UNCHANGED << n, res >>
     \/ Fault("sysctl read") /\ Goto(self, "sysctl echo") /\ UNCHANGED << n, res >>
  /\ UNCHANGED << sysctlFrame, sysctl, changes >>

SysctlEcho(self) ==
  /\ At(self, "sysctl echo")
  /\ \/ Ok /\ WriteKey(self) /\ Count(self) /\ NextKey(self)
     \/ /\ Fault("sysctl echo") /\ Goto(self, "sysctl write")
        /\ UNCHANGED << sysctl, changes, n, res >>
  /\ UNCHANGED sysctlFrame

SysctlWrite(self) ==
  /\ At(self, "sysctl write")
  /\ \/ Ok /\ WriteKey(self) /\ Count(self) /\ NextKey(self)
     \/ /\ Fault("sysctl write") /\ Goto(self, "sysctl reread")
        /\ UNCHANGED << sysctl, changes, n, res >>
  /\ UNCHANGED sysctlFrame

SysctlReread(self) ==
  /\ At(self, "sysctl reread")
  /\ \/ Ok /\ Wanted(self) /\ NextKey(self)
     \/ Ok /\ ~Wanted(self) /\ Return(self, "error") /\ UNCHANGED n
     \/ Fault("sysctl reread") /\ Return(self, "error") /\ UNCHANGED n
  /\ UNCHANGED << sysctlFrame, sysctl, changes >>

SysctlNext(self) ==
  \/ SysctlRead(self) \/ SysctlEcho(self) \/ SysctlWrite(self) \/ SysctlReread(self)
=============================================================================
