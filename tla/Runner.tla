------------------------------- MODULE Runner -------------------------------
(***************************************************************************)
(* The gotun processes, each running one command after the other through   *)
(* linux.Runner.  A step of a process is one Runner.Run: it takes effect   *)
(* at once or fails without effect.  What can go wrong from outside (a     *)
(* command fails, a process is killed, a link is lost) is a fault, and     *)
(* MaxFaults bounds how many of them a behaviour has.                      *)
(***************************************************************************)
EXTENDS Kernel

CONSTANTS Procs,      \* gotun processes that may run at the same time
          Fallible,   \* the commands and events that may be faults
          MaxFaults   \* bound on the number of faults

VARIABLES pc,        \* pc[self]: the command self runs next, or "idle"
          phase,     \* phase[self]: the subsystem it reconciles
          pol,       \* pol[self]: the policy it applies
          res,       \* res[self]: outcome of the last subsystem or command
          changes,   \* changes[self]: a change has been counted
          seen,      \* seen[self]: tableExists, as the listing showed it
          n,         \* n[self]: position in the list a loop is walking
          todo,      \* todo[self]: prefixes a loop has still to visit
          faults     \* number of faults so far

procVars == << pc, phase, pol, res, changes, seen, n, todo >>

(* The subsystems in the order Reconcile runs them; in the other order the *)
(* interfaces would be up before the firewall is.                          *)
SubsystemsNftLast == << "sysctl", TunnelIface, ClientsIface, "nft", "routing" >>

Subsystems == << "sysctl", "nft", TunnelIface, ClientsIface, "routing" >>
Phases     == { Subsystems[i] : i \in 1 .. 5 } \cup {"idle", "clear"}

Labels == {"idle", "return",
           "sysctl read", "sysctl echo", "sysctl write", "sysctl reread",
           "nft list", "nft apply",
           "link show", "link add", "route del", "link down", "wg dump",
           "addr show", "wg key", "wg peer", "addr replace", "link up",
           "route replace",
           "rule show", "rule del", "rule add",
           "table show", "table flush", "table add",
           "clear wg-exit", "clear wg-clients", "clear rule", "clear table",
           "clear nft"}

FaultKinds == Labels \cup {"kill", "link lost", "link forced down", "roam"}

ASSUME RunnerAssumption ==
  /\ Procs # {}
  /\ Fallible \subseteq FaultKinds
  /\ MaxFaults \in Nat

RunnerTypeOK ==
  /\ pc \in [Procs -> Labels]
  /\ phase \in [Procs -> Phases]
  /\ pol \in [Procs -> Policies]
  /\ res \in [Procs -> {"ok", "error"}]
  /\ changes \in [Procs -> BOOLEAN]
  /\ seen \in [Procs -> BOOLEAN]
  /\ n \in [Procs -> 0 .. 4]
  /\ todo \in [Procs -> SUBSET CIDR]
  /\ faults \in 0 .. MaxFaults

-----------------------------------------------------------------------------
(* The command at pc[self] is run without a fault, or is one.              *)
At(self, label) == pc[self] = label

Ok == UNCHANGED faults

Fault(kind) ==
  /\ kind \in Fallible
  /\ faults < MaxFaults
  /\ faults' = faults + 1

Goto(self, label) == pc' = [pc EXCEPT ![self] = label]

Count(self) == changes' = [changes EXCEPT ![self] = TRUE]

(* A Reconcile of a subsystem returns, with or without an error.           *)
Return(self, r) ==
  /\ Goto(self, "return")
  /\ res' = [res EXCEPT ![self] = r]

(* A loop over the prefixes ps: the next command is label while some are   *)
(* left.                                                                   *)
NextPrefix(self, ps, label, end) ==
  /\ todo' = [todo EXCEPT ![self] = ps]
  /\ Goto(self, IF ps # {} THEN label ELSE end)
=============================================================================
