-------------------------- MODULE FailClosedProofs --------------------------
(***************************************************************************)
(* Fail-closed egress, for every set of addresses, policies, processes and *)
(* faults: once an apply has succeeded and until the next command, what    *)
(* belongs into the tunnel does not leave by the uplink.                   *)
(***************************************************************************)
EXTENDS ApplyProofs, GatewayRefinement, FiniteSetTheorems

OneProcess == \A s, t \in Procs : s = t

(* gotun clear is run by the only process, or not at all: a clear next to  *)
(* an apply leaves nothing of what the apply has reported as done.         *)
ClearAlone == "clear" \in Commands => OneProcess

(* No rules of others whose listing passes for that of the owned rule (run *)
(* lookalike_rule).                                                        *)
NoLookalike == ~RuleListed(ForeignRules)

(* Either all policies want the same of the prerouting chain, ...          *)
SameFirewall ==
  \A p, q \in Policies :
    (Validate(p) /\ Validate(q)) =>
      /\ p.DirectPrefixes = q.DirectPrefixes
      /\ p.LANs = q.LANs
      /\ p.TunnelEndpoint = q.TunnelEndpoint

(* ... or applies follow each other, the live table can be listed, and no  *)
(* direct prefix is a single address: the listing shows those in a form    *)
(* elemToCIDR does not see, so one that is no longer wanted would stay.    *)
KnownFirewall ==
  /\ OneProcess /\ "nft list" \notin Fallible
  /\ \A p \in Policies : p.DirectPrefixes \cap Hosts = {}

-----------------------------------------------------------------------------
(* The inductive invariant.                                                *)

(* A table that marks, and leaves no tunnelled destination unmarked.       *)
HasMark(t) == HasComment(t.prerouting, "mark-non-direct")

Spares(t, p) ==
  /\ t.ru_nets \cap Tunnelled(p) = {}
  /\ \A i \in DOMAIN t.prerouting :
       t.prerouting[i].Comment \in {"exclude-lan", "exclude-endpoint"}
         => \A d \in Tunnelled(p) : ~Matches(t.prerouting[i], d)

Serves(t, p) == HasMark(t) /\ Spares(t, p)

(* nftables.Reconcile has returned without an error.                       *)
PastNft(s) ==
  \/ phase[s] \in Ifaces \cup {"routing"}
  \/ phase[s] = "nft" /\ pc[s] = "return" /\ res[s] = "ok"

Failed(s) == pc[s] \in {"idle", "return"} /\ res[s] = "error"

(* With one process the live table is the one of some policy.              *)
Compiled(t) == \E q \in Policies : Validate(q) /\ t = NftBatch(NoTable, NftSpec(q))

TableShape ==
  /\ nft = NoTable \/ Compiled(nft)
  /\ \A s \in Procs : pc[s] = "nft apply" => (seen[s] <=> nft.exists)

ProcFirewall(s) ==
  /\ phase[s] \notin {"idle", "clear"} => Validate(pol[s])
  /\ PastNft(s) => Serves(nft, pol[s])
  /\ phase[s] = "clear" => "clear" \in Commands /\ installed = {}

FirewallInv ==
  /\ \A s \in Procs : ProcFirewall(s)
  /\ \A p \in installed : Validate(p)
  /\ \/ \A p \in installed : Serves(nft, p)
     \/ \E s \in Procs : pc[s] # "idle" \/ Failed(s)
  /\ SameFirewall => \A q \in Policies : Validate(q) => Spares(nft, q)
  /\ KnownFirewall => TableShape

(* The process has still to see to the rule, or has failed.                *)
BeforeRule(s) ==
  \/ pc[s] # "idle" /\ phase[s] \in {"sysctl", "nft"} \cup Ifaces
  \/ pc[s] \in {"rule show", "rule del", "rule add"}
  \/ Failed(s)

AtTable(s) == pc[s] \in {"table show", "table flush", "table add"}

Done(s) == pc[s] = "return" /\ phase[s] = "routing" /\ res[s] = "ok"

(* Whoever has passed the rule or the table leaves it in place, unless     *)
(* somebody else has still to see to it.                                   *)
RoutingInv ==
  /\ rules \subseteq ForeignRules \cup {OwnedRule}
  /\ (installed # {} \/ \E s \in Procs : AtTable(s) \/ Done(s)) =>
       OwnedRule \in rules \/ \E s \in Procs : BeforeRule(s)
  /\ (installed # {} \/ \E s \in Procs : Done(s)) =>
       Blackhole \in t100 \/ \E s \in Procs : BeforeRule(s) \/ AtTable(s)

-----------------------------------------------------------------------------
(* The firewall.                                                           *)

(* A table that serves a policy marks what the policy tunnels.             *)
LEMMA ServesMarks ==
  ASSUME NEW p \in Policies, KernelTypeOK, Serves(nft, p), NEW d \in Tunnelled(p)
  PROVE  Marked(d)
<1>1. PICK i \in DOMAIN nft.prerouting : nft.prerouting[i].Comment = "mark-non-direct"
  BY DEF Serves, HasMark, HasComment
<1>2. nft.prerouting \in Seq(NftRule)
  BY DEF KernelTypeOK, NftTable
<1>3. \A j \in 1 .. (i - 1) : j \in DOMAIN nft.prerouting
  BY <1>1, <1>2
<1>4. d \notin nft.ru_nets
  BY DEF Serves, Spares
<1> QED BY <1>1, <1>3, <1>4 DEF Marked, Serves, Spares

(* The rules rendered for a policy spare what it tunnels.                  *)
LEMMA RulesSpare ==
  ASSUME NEW p \in Policies
  PROVE  /\ Len(PreroutingRules(p)) = 4
         /\ PreroutingRules(p)[4].Comment = "mark-non-direct"
         /\ p.DirectPrefixes \cap Tunnelled(p) = {}
         /\ \A i \in 1 .. 4 :
              PreroutingRules(p)[i].Comment \in {"exclude-lan", "exclude-endpoint"}
                => \A d \in Tunnelled(p) : ~Matches(PreroutingRules(p)[i], d)
<1> DEFINE r == PreroutingRules(p)
<1>1. /\ r[1].Comment = "drop-ipv6" /\ r[4].Comment = "mark-non-direct"
      /\ r[2].DAddrs = p.LANs /\ r[3].DAddrs = {{p.TunnelEndpoint}} /\ Len(r) = 4
  BY DEF PreroutingRules, Rule
<1> HIDE DEF r
<1>2. \A d \in Tunnelled(p) : ~Matches(r[2], d) /\ ~Matches(r[3], d)
  BY <1>1 DEF Matches, Tunnelled, LANAddrs
<1>3. p.DirectPrefixes \cap Tunnelled(p) = {}
  BY DEF Tunnelled
<1>4. \A i \in 1 .. 4 : i = 1 \/ i = 2 \/ i = 3 \/ i = 4
  OBVIOUS
<1> QED BY <1>1, <1>2, <1>3, <1>4 DEF r

(* What the nft transaction leaves: the rules and elements of the table it *)
(* extends, and then those of the policy.                                  *)
LEMMA BatchRules ==
  ASSUME NEW t \in NftTable, NEW p \in Policies
  PROVE  LET b == NftBatch(t, NftSpec(p))
             k == Len(t.prerouting)
         IN /\ k \in Nat /\ DOMAIN t.prerouting = 1 .. k
            /\ b.ru_nets = t.ru_nets \cup p.DirectPrefixes
            /\ DOMAIN b.prerouting = 1 .. k + 4
            /\ \A i \in 1 .. k + 4 :
                 b.prerouting[i] = IF i <= k THEN t.prerouting[i]
                                             ELSE PreroutingRules(p)[i - k]
<1> DEFINE r == PreroutingRules(p)
           x == t.prerouting
           y == x \o r
<1>1. /\ NftBatch(t, NftSpec(p)).prerouting = y
      /\ NftBatch(t, NftSpec(p)).ru_nets = t.ru_nets \cup p.DirectPrefixes
  BY DEF NftBatch, NftSpec
<1>2. x \in Seq(NftRule)
  BY DEF NftTable
<1>3. r \in Seq(NftRule) /\ Len(r) = 4
  BY NftSpecType, RulesSpare DEF NftSpec
<1> HIDE DEF r, x
<1>4. /\ x \o r \in Seq(NftRule) /\ Len(x \o r) = Len(x) + Len(r)
      /\ \A i \in 1 .. Len(x) + Len(r) :
           (x \o r)[i] = IF i <= Len(x) THEN x[i] ELSE r[i - Len(x)]
  BY <1>2, <1>3, ConcatProperties
<1> HIDE DEF y
<1>5. DOMAIN y = 1 .. Len(x) + 4 /\ DOMAIN x = 1 .. Len(x) /\ Len(x) \in Nat
  BY <1>2, <1>3, <1>4 DEF y
<1> QED BY <1>1, <1>3, <1>4, <1>5 DEF r, x, y

(* So does what the nft transaction leaves, if the table it extends does.  *)
LEMMA BatchServes ==
  ASSUME NEW t \in NftTable, NEW p \in Policies, NEW q \in Policies, Spares(t, q),
         p.DirectPrefixes = q.DirectPrefixes, p.LANs = q.LANs,
         p.TunnelEndpoint = q.TunnelEndpoint
  PROVE  Serves(NftBatch(t, NftSpec(p)), q)
<1> DEFINE r == PreroutingRules(q)
           b == NftBatch(t, NftSpec(p))
           k == Len(t.prerouting)
<1>1. PreroutingRules(p) = r
  BY DEF PreroutingRules
<1>2. b.ru_nets = t.ru_nets \cup q.DirectPrefixes
  BY BatchRules
<1>3. k \in Nat /\ DOMAIN t.prerouting = 1 .. k
  BY BatchRules
<1>5. /\ r[4].Comment = "mark-non-direct"
      /\ q.DirectPrefixes \cap Tunnelled(q) = {}
      /\ \A i \in 1 .. 4 : r[i].Comment \in {"exclude-lan", "exclude-endpoint"}
                             => \A d \in Tunnelled(q) : ~Matches(r[i], d)
  BY RulesSpare
<1>6. /\ DOMAIN b.prerouting = 1 .. k + 4
      /\ \A i \in 1 .. k + 4 :
           b.prerouting[i] = IF i <= k THEN t.prerouting[i] ELSE r[i - k]
  BY <1>1, BatchRules
<1> HIDE DEF r, b
<1>7. HasMark(b)
  <2>1. k + 4 \in DOMAIN b.prerouting /\ b.prerouting[k + 4] = r[4]
    <3>1. k + 4 \in 1 .. k + 4 /\ ~(k + 4 <= k) /\ k + 4 - k = 4
      BY <1>3
    <3> QED BY <1>6, <3>1
  <2> QED BY <1>5, <2>1 DEF HasMark, HasComment
<1>8. ASSUME NEW i \in DOMAIN b.prerouting,
             b.prerouting[i].Comment \in {"exclude-lan", "exclude-endpoint"},
             NEW d \in Tunnelled(q)
      PROVE  ~Matches(b.prerouting[i], d)
  <2>1. CASE i <= k
    <3>1. i \in DOMAIN t.prerouting /\ b.prerouting[i] = t.prerouting[i]
      BY <1>3, <1>6, <2>1
    <3> QED BY <1>8, <3>1 DEF Spares
  <2>2. CASE ~(i <= k)
    <3>1. i - k \in 1 .. 4 /\ b.prerouting[i] = r[i - k]
      BY <1>3, <1>6, <2>2
    <3> QED BY <1>5, <1>8, <3>1
  <2> QED BY <2>1, <2>2
<1>9. b.ru_nets \cap Tunnelled(q) = {}
  BY <1>2, <1>5 DEF Spares
<1> QED BY <1>7, <1>8, <1>9 DEF Serves, Spares, b

(* A table compiled from one policy that matches another marks the same:   *)
(* semanticMatchJSON compares the direct prefixes and the exclusions.      *)
LEMMA MatchAgrees ==
  ASSUME KnownFirewall, NEW p \in Policies, NEW q \in Policies,
         SemanticMatch(NftBatch(NoTable, NftSpec(q)), NftSpec(p))
  PROVE  /\ p.DirectPrefixes = q.DirectPrefixes /\ p.LANs = q.LANs
         /\ p.TunnelEndpoint = q.TunnelEndpoint
<1> DEFINE t == NftBatch(NoTable, NftSpec(q))
           r == PreroutingRules(q)
<1>1. r \in Seq(NftRule) /\ Len(r) = 4
  BY NftSpecType, RulesSpare DEF NftSpec
<1>2. t.ru_nets = q.DirectPrefixes /\ t.prerouting = r
  <2>1. t.ru_nets = {} \cup q.DirectPrefixes /\ t.prerouting = << >> \o r
    BY DEF NftBatch, NoTable, NftSpec
  <2> QED BY <1>1, <2>1, ConcatEmptySeq
<1>3. /\ r[1].Comment = "drop-ipv6" /\ r[2].Comment = "exclude-lan"
      /\ r[3].Comment = "exclude-endpoint" /\ r[4].Comment = "mark-non-direct"
      /\ r[2].DAddrs = q.LANs /\ r[3].DAddrs = {{q.TunnelEndpoint}}
      /\ DOMAIN r = 1 .. 4
  <2>1. DOMAIN r = 1 .. 4
    BY <1>1
  <2> QED BY <2>1 DEF PreroutingRules, Rule
<1>4. /\ NftSpec(p).ru_nets = p.DirectPrefixes
      /\ NftSpec(p).prerouting[2].DAddrs = p.LANs
      /\ NftSpec(p).prerouting[3].DAddrs = {{p.TunnelEndpoint}}
  BY DEF NftSpec, PreroutingRules, Rule
<1>5. /\ SetElements({ {a} : a \in t.ru_nets }) = { {a} : a \in NftSpec(p).ru_nets }
      /\ LivePrerouting(t.prerouting, NftSpec(p).prerouting)
  BY DEF SemanticMatch
<1> HIDE DEF t, r
<1>6. \A i \in 1 .. 4 : i = 1 \/ i = 2 \/ i = 3 \/ i = 4
  OBVIOUS
<1>7. /\ DAddrsFor(r, "exclude-lan") = { DAddr(d) : d \in q.LANs }
      /\ DAddrsFor(r, "exclude-endpoint") = { DAddr(d) : d \in {{q.TunnelEndpoint}} }
  <2>1. /\ { j \in DOMAIN r : r[j].Comment = "exclude-lan" } = {2}
        /\ { j \in DOMAIN r : r[j].Comment = "exclude-endpoint" } = {3}
    BY <1>3, <1>6
  <2>2. /\ UNION { r[i].DAddrs : i \in {2} } = q.LANs
        /\ UNION { r[i].DAddrs : i \in {3} } = {{q.TunnelEndpoint}}
    BY <1>3
  <2> QED BY <2>1, <2>2, Zenon DEF DAddrsFor
<1>8. /\ { DAddr(d) : d \in q.LANs } = {"prefix"} \X p.LANs
      /\ { DAddr(d) : d \in {{q.TunnelEndpoint}} } = {"addr"} \X {{p.TunnelEndpoint}}
  BY <1>2, <1>4, <1>5, <1>7 DEF LivePrerouting
<1>10. \A c : DAddr(c)[2] = c
  BY DEF DAddr
<1>11. p.LANs = q.LANs
  <2>1. ASSUME NEW c \in q.LANs PROVE c \in p.LANs
    <3>1. DAddr(c) \in {"prefix"} \X p.LANs
      BY <1>8
    <3>2. DAddr(c)[2] \in p.LANs
      BY <3>1
    <3> QED BY <1>10, <3>2
  <2>2. ASSUME NEW c \in p.LANs PROVE c \in q.LANs
    <3>1. << "prefix", c >> \in { DAddr(d) : d \in q.LANs }
      BY <1>8
    <3>2. PICK d \in q.LANs : << "prefix", c >> = DAddr(d)
      BY <3>1
    <3>3. << "prefix", c >>[2] = c
      OBVIOUS
    <3> QED BY <1>10, <3>2, <3>3
  <2> QED BY <2>1, <2>2
<1>12. p.TunnelEndpoint = q.TunnelEndpoint
  <2>1. DAddr({q.TunnelEndpoint}) \in {"addr"} \X {{p.TunnelEndpoint}}
    BY <1>8
  <2>2. DAddr({q.TunnelEndpoint})[2] \in {{p.TunnelEndpoint}}
    BY <2>1
  <2>3. {q.TunnelEndpoint} = {p.TunnelEndpoint}
    BY <1>10, <2>2
  <2> QED BY <2>3
<1>13. p.DirectPrefixes = q.DirectPrefixes
  <2>1. \A a \in q.DirectPrefixes : ~IsHost({a})
    BY DEF KnownFirewall, IsHost
  <2>2. { {a} : a \in q.DirectPrefixes } = { {a} : a \in p.DirectPrefixes }
    <3> DEFINE S == { {a} : a \in q.DirectPrefixes }
    <3>1. \A c \in S : ~IsHost(c)
      BY <2>1
    <3> HIDE DEF S
    <3>2. SetElements(S) = S
      BY <3>1 DEF SetElements
    <3> QED BY <1>2, <1>4, <1>5, <3>2, Zenon DEF S
  <2>3. ASSUME NEW a \in q.DirectPrefixes PROVE a \in p.DirectPrefixes
    <3>1. PICK b \in p.DirectPrefixes : {a} = {b}
      BY <2>2
    <3> QED BY <3>1
  <2>4. ASSUME NEW a \in p.DirectPrefixes PROVE a \in q.DirectPrefixes
    <3>1. PICK b \in q.DirectPrefixes : {a} = {b}
      BY <2>2
    <3> QED BY <3>1
  <2> QED BY <2>3, <2>4
<1> QED BY <1>11, <1>12, <1>13

(* NoTable spares everything.                                              *)
LEMMA NoTableSpares == ASSUME NEW p PROVE Spares(NoTable, p) /\ ~NoTable.exists
<1>1. NoTable.prerouting = << >> /\ NoTable.ru_nets = {} /\ ~NoTable.exists
  BY DEF NoTable
<1>2. DOMAIN NoTable.prerouting = {}
  BY <1>1
<1> QED BY <1>1, <1>2 DEF Spares

(* What nftables.Reconcile finds to match serves the policy.               *)
LEMMA MatchServes ==
  ASSUME SameFirewall \/ KnownFirewall, FirewallInv, KernelTypeOK, nft.exists,
         NEW p \in Policies, Validate(p), SemanticMatch(nft, NftSpec(p))
  PROVE  Serves(nft, p)
<1>1. HasMark(nft)
  BY DEF SemanticMatch, LivePrerouting, HasMark
<1>2. CASE SameFirewall
  BY <1>1, <1>2 DEF FirewallInv, Serves
<1>3. CASE KnownFirewall
  <2>1. PICK q \in Policies : Validate(q) /\ nft = NftBatch(NoTable, NftSpec(q))
    BY <1>3, NoTableSpares DEF FirewallInv, TableShape, Compiled
  <2>2. /\ p.DirectPrefixes = q.DirectPrefixes /\ p.LANs = q.LANs
        /\ p.TunnelEndpoint = q.TunnelEndpoint
    BY <1>3, <2>1, MatchAgrees
  <2>3. Serves(NftBatch(NoTable, NftSpec(q)), p)
    BY <2>2, BatchServes, NoTableSpares, NoTableType
  <2> QED BY <2>1, <2>3
<1> QED BY <1>2, <1>3

-----------------------------------------------------------------------------
(* A step of self leaves the other processes where they are.               *)
OthersKept(self) ==
  \A s \in Procs \ {self} :
     /\ pc'[s] = pc[s] /\ phase'[s] = phase[s] /\ pol'[s] = pol[s]
     /\ res'[s] = res[s] /\ seen'[s] = seen[s]

Busy(s) == pc[s] # "idle" \/ Failed(s)

(* What a step of self has to see to for the firewall.                     *)
LEMMA FirewallFrame ==
  ASSUME FirewallInv, NEW self \in Procs, OthersKept(self), ProcFirewall(self)',
         \A p \in installed' : Validate(p),
         Busy(self)' \/ \A p \in installed' : Serves(nft', p),
         \A s \in Procs \ {self} : /\ phase[s] = "clear" => installed' = {}
                                   /\ PastNft(s) => Serves(nft', pol[s]),
         SameFirewall => \A q \in Policies : Validate(q) => Spares(nft', q),
         KnownFirewall => TableShape'
  PROVE  FirewallInv'
<1>1. ASSUME NEW s \in Procs PROVE ProcFirewall(s)'
  <2>1. CASE s = self
    BY <2>1
  <2>2. CASE s # self
    <3>1. /\ pc'[s] = pc[s] /\ phase'[s] = phase[s] /\ pol'[s] = pol[s] /\ res'[s] = res[s]
      BY <2>2 DEF OthersKept
    <3>2. ProcFirewall(s)
      BY DEF FirewallInv
    <3> QED BY <2>2, <3>1, <3>2 DEF ProcFirewall, PastNft
  <2> QED BY <2>1, <2>2
<1>2. \/ \A p \in installed' : Serves(nft', p)
      \/ \E s \in Procs : (pc[s] # "idle" \/ Failed(s))'
  BY DEF Busy
<1> QED BY <1>1, <1>2 DEF FirewallInv

(* A step that leaves the nft table alone.                                 *)
LEMMA FirewallKept ==
  ASSUME FirewallInv, NEW self \in Procs, OthersKept(self), nft' = nft,
         phase'[self] \notin {"idle", "clear"} => Validate(pol'[self]),
         PastNft(self)' => Serves(nft, pol'[self]),
         phase'[self] = "clear" => "clear" \in Commands /\ installed' = {},
         \A p \in installed' : Validate(p),
         Busy(self)' \/ \A p \in installed' : Serves(nft, p),
         installed' \in {installed, {}} \/ \A s \in Procs : phase[s] # "clear",
         KnownFirewall => (pc'[self] = "nft apply" => (seen'[self] <=> nft.exists))
  PROVE  FirewallInv'
<1>1. ProcFirewall(self)'
  BY DEF ProcFirewall
<1>2. ASSUME NEW s \in Procs \ {self}
      PROVE  /\ phase[s] = "clear" => installed' = {}
             /\ PastNft(s) => Serves(nft', pol[s])
  BY DEF FirewallInv, ProcFirewall
<1>3. SameFirewall => \A q \in Policies : Validate(q) => Spares(nft', q)
  BY DEF FirewallInv
<1>4. ASSUME KnownFirewall PROVE TableShape'
  <2>1. TableShape /\ \A s \in Procs : s = self
    BY <1>4 DEF FirewallInv, KnownFirewall, OneProcess
  <2>2. nft' = NoTable \/ Compiled(nft')
    BY <2>1 DEF TableShape
  <2> QED BY <1>4, <2>1, <2>2 DEF TableShape, Compiled
<1>5. Busy(self)' \/ \A p \in installed' : Serves(nft', p)
  OBVIOUS
<1> QED BY <1>1, <1>2, <1>3, <1>4, <1>5, FirewallFrame

(* While a process works on a policy, nobody clears.                       *)
LEMMA NoneClears ==
  ASSUME FirewallInv, ClearAlone, NEW self \in Procs, phase[self] # "clear"
  PROVE  \A s \in Procs : phase[s] # "clear"
BY DEF FirewallInv, ProcFirewall, ClearAlone, OneProcess

(* A command of a subsystem that is not about the table: it was past       *)
(* nftables already, or is not there yet.                                  *)
LEMMA WorkFirewall ==
  ASSUME TypeInv, FirewallInv, NEW self \in Procs, OthersKept(self), nft' = nft,
         installed' = installed, phase' = phase, pol' = pol,
         pc'[self] \notin {"idle", "nft apply"}, phase[self] \in {"sysctl", "routing"} \cup Ifaces
  PROVE  FirewallInv'
<1>1. ProcFirewall(self) /\ \A p \in installed : Validate(p)
  BY DEF FirewallInv
<1>2. phase[self] \notin {"idle", "clear", "nft"}
  BY DEF Ifaces, TunnelIface, ClientsIface
<1>3. PastNft(self)' => Serves(nft, pol[self])
  BY <1>1, <1>2 DEF ProcFirewall, PastNft
<1>4. Busy(self)'
  BY DEF Busy
<1> QED BY <1>1, <1>2, <1>3, <1>4, FirewallKept DEF ProcFirewall

(* What the commands of a subsystem do to the processes.                   *)
Shape(self, ph, L) ==
  /\ OthersKept(self) /\ phase' = phase /\ pol' = pol
  /\ phase[self] \in ph /\ pc'[self] \in L \cup {"return"}

(* sysctl.Reconcile touches no table, and no other process.                *)
LEMMA SysctlShape ==
  ASSUME TypeInv, NEW self \in Procs, SysctlNext(self)
  PROVE  Shape(self, {"sysctl"}, SysctlLabels) /\ UNCHANGED << nft, rules, t100 >>
<1>0. Control /\ RunnerTypeOK
  BY DEF TypeInv, TypeOK
<1>1. UNCHANGED << nft, rules, t100, phase, pol, seen >>
  BY DEF SysctlNext, SysctlRead, SysctlEcho, SysctlWrite, SysctlReread, sysctlFrame
<1>2. phase[self] = "sysctl"
  BY <1>0 DEF SysctlNext, SysctlRead, SysctlEcho, SysctlWrite, SysctlReread,
              Control, ControlAt, SysctlLabels, At
<1>3. /\ pc'[self] \in SysctlLabels \cup {"return"}
      /\ \A s \in Procs \ {self} : pc'[s] = pc[s] /\ res'[s] = res[s]
  BY <1>0 DEF SysctlNext, SysctlRead, SysctlEcho, SysctlWrite, SysctlReread,
              NextKey, Return, Goto, RunnerTypeOK, SysctlLabels
<1> QED BY <1>1, <1>2, <1>3 DEF Shape, OthersKept

(* nftables.Reconcile touches no rule and no route.                        *)
LEMMA NftShape ==
  ASSUME TypeInv, NEW self \in Procs, NftNext(self)
  PROVE  Shape(self, {"nft"}, NftLabels) /\ UNCHANGED << rules, t100 >>
<1>0. Control /\ RunnerTypeOK
  BY DEF TypeInv, TypeOK
<1>1. UNCHANGED << rules, t100, phase, pol >>
  BY DEF NftNext, NftList, NftApply, nftFrame
<1>2. phase[self] = "nft"
  BY <1>0 DEF NftNext, NftList, NftApply, Control, ControlAt, NftLabels, At
<1>3. pc'[self] \in NftLabels \cup {"return"}
  BY <1>0 DEF NftNext, NftList, NftApply, Return, Goto, RunnerTypeOK, NftLabels
<1>4. \A s \in Procs \ {self} : pc'[s] = pc[s] /\ res'[s] = res[s] /\ seen'[s] = seen[s]
  BY <1>0 DEF NftNext, NftList, NftApply, Return, Goto, RunnerTypeOK
<1> QED BY <1>1, <1>2, <1>3, <1>4 DEF Shape, OthersKept

(* wireguard.Reconcile touches neither the firewall nor the ip rules.      *)
LEMMA WGShape ==
  ASSUME TypeInv, NEW self \in Procs, WGNext(self)
  PROVE  Shape(self, Ifaces, WGLabels) /\ UNCHANGED << nft, rules >>
<1>0. Control /\ RunnerTypeOK
  BY DEF TypeInv, TypeOK
<1>1. UNCHANGED << nft, rules, phase, pol, seen >>
  BY DEF WGNext, LinkShow, LinkAdd, RouteDel, SetLinkDown, Dump, AddrShow, SetKey,
         SetPeer, AddrReplace, SetCommand, SetLinkUp, RouteReplace, wgFrame
<1>2. phase[self] \in Ifaces
  BY <1>0 DEF WGNext, LinkShow, LinkAdd, RouteDel, SetLinkDown, Dump, AddrShow, SetKey,
     SetPeer, AddrReplace, SetCommand, SetLinkUp, RouteReplace, At, Control, ControlAt, WGLabels
<1>3. \A s \in Procs \ {self} : pc'[s] = pc[s] /\ res'[s] = res[s]
  BY <1>0 DEF WGNext, LinkShow, LinkAdd, RouteDel, SetLinkDown, Dump, AddrShow, SetKey,
     SetPeer, AddrReplace, SetCommand, SetLinkUp, RouteReplace, StartDown, NextPrefix,
     Return, Goto, RunnerTypeOK
<1>4. pc'[self] \in WGLabels \cup {"return"}
  BY <1>0 DEF WGNext, LinkShow, LinkAdd, RouteDel, SetLinkDown, Dump, AddrShow, SetKey,
     SetPeer, AddrReplace, SetCommand, SetLinkUp, RouteReplace, StartDown, NextPrefix,
     AfterKey, AfterPeer, Return, Goto, RunnerTypeOK, At, WGLabels
<1> QED BY <1>1, <1>2, <1>3, <1>4 DEF Shape, OthersKept

(* routing.Reconcile leaves the firewall alone.                            *)
LEMMA RoutingShape ==
  ASSUME TypeInv, NEW self \in Procs, RoutingNext(self)
  PROVE  Shape(self, {"routing"}, RoutingLabels) /\ nft' = nft
<1>0. Control /\ RunnerTypeOK
  BY DEF TypeInv, TypeOK
<1>1. UNCHANGED << nft, phase, pol, seen >>
  BY DEF RoutingNext, RuleShow, RuleDel, RuleAdd, TableShow, TableFlush, TableAdd, routingFrame
<1>2. phase[self] = "routing"
  BY <1>0 DEF RoutingNext, RuleShow, RuleDel, RuleAdd, TableShow, TableFlush, TableAdd,
              Control, ControlAt, RoutingLabels, At
<1>3. /\ pc'[self] \in RoutingLabels \cup {"return"}
      /\ \A s \in Procs \ {self} : pc'[s] = pc[s] /\ res'[s] = res[s]
  BY <1>0 DEF RoutingNext, RuleShow, RuleDel, RuleAdd, TableShow, TableFlush, TableAdd,
              Return, Goto, RunnerTypeOK, RoutingLabels, At
<1> QED BY <1>1, <1>2, <1>3 DEF Shape, OthersKept

(* apply.Clear touches nothing but what it clears.                         *)
LEMMA ClearShape ==
  ASSUME TypeInv, NEW self \in Procs, ClearStep(self)
  PROVE  /\ OthersKept(self) /\ phase[self] = "clear"
         /\ \/ phase'[self] = "clear" /\ pc'[self] \in ClearLabels /\ nft' = nft
            \/ phase'[self] = "idle" /\ pc'[self] = "idle" /\ nft' \in {nft, NoTable}
<1>0. Control /\ RunnerTypeOK
  BY DEF TypeInv, TypeOK
<1>1. phase[self] = "clear"
  BY <1>0 DEF ClearStep, ClearLink, ClearRule, ClearTable, ClearNft, Control, ControlAt,
              ClearLabels, At
<1>2. pol' = pol /\ seen' = seen
  BY DEF ClearStep, ClearLink, ClearRule, ClearTable, ClearNft
<1>3. \A s \in Procs \ {self} : pc'[s] = pc[s] /\ phase'[s] = phase[s] /\ res'[s] = res[s]
  BY <1>0 DEF ClearStep, ClearLink, ClearRule, ClearTable, ClearNft, Goto, Idle, SetPhase,
              RunnerTypeOK
<1>4. \/ phase'[self] = "clear" /\ pc'[self] \in ClearLabels /\ nft' = nft
      \/ phase'[self] = "idle" /\ pc'[self] = "idle" /\ nft' \in {nft, NoTable}
  BY <1>0, <1>1 DEF ClearStep, ClearLink, ClearRule, ClearTable, ClearNft, Goto, Idle, SetPhase,
                    RunnerTypeOK, ClearLabels
<1> QED BY <1>1, <1>2, <1>3, <1>4 DEF OthersKept

-----------------------------------------------------------------------------
(* The listing of the live table: it matches, or is replaced next.         *)
LEMMA NftListFirewall ==
  ASSUME SameFirewall \/ KnownFirewall, TypeInv, FirewallInv, NEW self \in Procs,
         NftList(self), installed' = installed
  PROVE  FirewallInv'
<1>0. RunnerTypeOK /\ KernelTypeOK
  BY DEF TypeInv, TypeOK
<1>1. Shape(self, {"nft"}, NftLabels)
  BY NftShape DEF NftNext
<1>2. nft' = nft /\ phase'[self] = "nft" /\ phase[self] = "nft" /\ pol'[self] = pol[self]
  BY <1>1 DEF NftList, Shape
<1>3. ProcFirewall(self) /\ \A p \in installed : Validate(p)
  BY DEF FirewallInv
<1>4. pol[self] \in Policies /\ Validate(pol[self])
  BY <1>0, <1>2, <1>3 DEF RunnerTypeOK, ProcFirewall
<1>5. Busy(self)'
  BY <1>1 DEF Shape, NftLabels, Busy
<1>6. \/ nft.exists /\ SemanticMatch(nft, NftSpec(pol[self])) /\ pc'[self] = "return"
      \/ pc'[self] = "nft apply" /\ seen' = [seen EXCEPT ![self] = nft.exists]
      \/ pc'[self] = "nft apply" /\ "nft list" \in Fallible
  BY <1>0 DEF NftList, Return, Goto, Fault, RunnerTypeOK
<1>7. PastNft(self)' => Serves(nft, pol'[self])
  <2>1. ASSUME PastNft(self)' PROVE pc'[self] = "return"
    BY <1>2, <2>1 DEF PastNft, Ifaces, TunnelIface, ClientsIface
  <2> QED BY <1>0, <1>2, <1>4, <1>6, <2>1, MatchServes
<1>8. KnownFirewall => (pc'[self] = "nft apply" => (seen'[self] <=> nft.exists))
  BY <1>0, <1>6 DEF KnownFirewall, RunnerTypeOK
<1>9. OthersKept(self)
  BY <1>1 DEF Shape
<1> QED BY <1>2, <1>3, <1>4, <1>5, <1>7, <1>8, <1>9, FirewallKept

(* The transaction.  What it leaves serves the policy: it extends a table  *)
(* of the same policy, or none.                                            *)
LEMMA NftApplyFirewall ==
  ASSUME SameFirewall \/ KnownFirewall, TypeInv, FirewallInv, NEW self \in Procs,
         NftApply(self), installed' = installed
  PROVE  FirewallInv'
<1> DEFINE p == pol[self]
           b == NftBatch(IF seen[self] THEN NoTable ELSE nft, NftSpec(p))
<1>0. RunnerTypeOK /\ KernelTypeOK
  BY DEF TypeInv, TypeOK
<1>1. Shape(self, {"nft"}, NftLabels)
  BY NftShape DEF NftNext
<1>2. /\ phase'[self] = "nft" /\ phase[self] = "nft" /\ pol' = pol /\ seen' = seen
      /\ pc'[self] = "return" /\ OthersKept(self)
  BY <1>0, <1>1 DEF NftApply, Shape, Return, Goto, RunnerTypeOK
<1>3. ProcFirewall(self) /\ \A q \in installed : Validate(q)
  BY DEF FirewallInv
<1>4. p \in Policies /\ Validate(p) /\ nft \in NftTable
  BY <1>0, <1>2, <1>3 DEF RunnerTypeOK, KernelTypeOK, ProcFirewall
<1>5. Busy(self)'
  BY <1>2 DEF Busy
<1>6. CASE nft' = nft /\ res' = [res EXCEPT ![self] = "error"]
  <2>1. ~PastNft(self)'
    BY <1>0, <1>2, <1>6 DEF PastNft, RunnerTypeOK, Ifaces, TunnelIface, ClientsIface
  <2> QED BY <1>2, <1>3, <1>4, <1>5, <1>6, <2>1, FirewallKept
<1>7. CASE nft' = b
  <2> HIDE DEF p
  <2>1. /\ SameFirewall => \A q \in Policies : Validate(q) => Serves(b, q)
        /\ KnownFirewall => Serves(b, p) /\ b = NftBatch(NoTable, NftSpec(p))
    <3>1. ASSUME SameFirewall, NEW q \in Policies, Validate(q) PROVE Serves(b, q)
      <4>1. /\ p.DirectPrefixes = q.DirectPrefixes /\ p.LANs = q.LANs
            /\ p.TunnelEndpoint = q.TunnelEndpoint
        BY <1>4, <3>1 DEF SameFirewall
      <4>2. Spares(nft, q) /\ Spares(NoTable, q)
        BY <3>1, NoTableSpares DEF FirewallInv
      <4> QED BY <1>4, <4>1, <4>2, BatchServes, NoTableType
    <3>2. ASSUME KnownFirewall
          PROVE  Serves(b, p) /\ b = NftBatch(NoTable, NftSpec(p))
      <4>1. TableShape /\ pc[self] = "nft apply"
        BY <3>2 DEF FirewallInv, NftApply, At
      <4>2. ~seen[self] => nft = NoTable
        <5>1. \A q \in Policies : NftBatch(NoTable, NftSpec(q)).exists
          BY DEF NftBatch
        <5> QED BY <4>1, <5>1 DEF TableShape, Compiled
      <4>3. b = NftBatch(NoTable, NftSpec(p))
        BY <4>2
      <4> QED BY <1>4, <4>3, BatchServes, NoTableSpares, NoTableType
    <3> QED BY <3>1, <3>2
  <2> HIDE DEF b
  <2>2. Serves(b, p)
    BY <1>4, <2>1
  <2>3. ProcFirewall(self)'
    BY <1>2, <1>4, <1>7, <2>2 DEF ProcFirewall, p
  <2>4. ASSUME NEW s \in Procs \ {self}
        PROVE  /\ phase[s] = "clear" => installed' = {}
               /\ PastNft(s) => Serves(nft', pol[s])
    <3>1. ProcFirewall(s) /\ pol[s] \in Policies
      BY <1>0 DEF FirewallInv, RunnerTypeOK
    <3>2. PastNft(s) => Validate(pol[s])
      BY <3>1 DEF ProcFirewall, PastNft, Ifaces, TunnelIface, ClientsIface
    <3>3. ~KnownFirewall
      BY DEF KnownFirewall, OneProcess
    <3> QED BY <1>7, <2>1, <3>1, <3>2, <3>3 DEF ProcFirewall
  <2>5. SameFirewall => \A q \in Policies : Validate(q) => Spares(nft', q)
    BY <1>7, <2>1 DEF Serves
  <2>6. ASSUME KnownFirewall PROVE TableShape'
    <3>1. Compiled(nft')
      BY <1>4, <1>7, <2>1, <2>6 DEF Compiled
    <3>2. \A s \in Procs : pc'[s] # "nft apply"
      BY <1>2, <2>6 DEF KnownFirewall, OneProcess
    <3> QED BY <3>1, <3>2 DEF TableShape, Compiled
  <2> QED BY <1>2, <1>3, <1>5, <2>3, <2>4, <2>5, <2>6, FirewallFrame
<1> QED BY <1>6, <1>7 DEF NftApply, Return

(* Every command of a subsystem keeps the firewall part.                   *)
LEMMA CommandFirewall ==
  ASSUME SameFirewall \/ KnownFirewall, TypeInv, FirewallInv, NEW self \in Procs,
         SysctlNext(self) \/ NftNext(self) \/ WGNext(self) \/ RoutingNext(self),
         installed' = installed
  PROVE  FirewallInv'
<1>1. CASE SysctlNext(self)
  BY <1>1, SysctlShape, WorkFirewall DEF Shape, SysctlLabels
<1>2. CASE WGNext(self)
  BY <1>2, WGShape, WorkFirewall DEF Shape, WGLabels
<1>3. CASE RoutingNext(self)
  BY <1>3, RoutingShape, WorkFirewall DEF Shape, RoutingLabels
<1> QED BY <1>1, <1>2, <1>3, NftListFirewall, NftApplyFirewall DEF NftNext

(* The steps between the subsystems touch no kernel object and no other    *)
(* process.                                                                *)
LEMMA MoveShape ==
  ASSUME TypeInv, NEW self \in Procs,
         \/ NextSubsystem(self) \/ ReturnError(self) \/ ReturnOk(self)
         \/ StartClear(self) \/ \E p \in Policies : StartApply(self, p)
  PROVE  OthersKept(self) /\ UNCHANGED << nft, rules, t100, seen >>
<1>0. RunnerTypeOK
  BY DEF TypeInv, TypeOK
<1>1. UNCHANGED << nft, rules, t100, seen >>
  BY DEF NextSubsystem, ReturnError, ReturnOk, StartClear, StartApply, kernel
<1>2. \A s \in Procs \ {self} : /\ pc'[s] = pc[s] /\ phase'[s] = phase[s]
                                /\ pol'[s] = pol[s] /\ res'[s] = res[s]
  BY <1>0 DEF RunnerTypeOK, NextSubsystem, Enter, NftEnter, WGEnter, RoutingEnter,
     ReturnError, ReturnOk, StartClear, StartApply, SysctlEnter, Goto, SetPhase, Idle
<1> QED BY <1>1, <1>2 DEF OthersKept

(* Where NextSubsystem leads.                                              *)
LEMMA NextShape ==
  ASSUME TypeInv, NEW self \in Procs, NextSubsystem(self)
  PROVE  /\ pc[self] = "return" /\ res[self] = "ok" /\ res' = res /\ pol' = pol
         /\ installed' = installed
         /\ \/ phase[self] = "sysctl" /\ phase'[self] = "nft" /\ pc'[self] = "nft list"
            \/ phase[self] = "nft" /\ phase'[self] = TunnelIface /\ pc'[self] = "link show"
            \/ /\ phase[self] = TunnelIface /\ phase'[self] = ClientsIface
               /\ pc'[self] = "link show"
            \/ /\ phase[self] = ClientsIface /\ phase'[self] = "routing"
               /\ pc'[self] = "rule show"
<1>0. RunnerTypeOK
  BY DEF TypeInv, TypeOK
<1>1. PICK i \in 1 .. 4 : phase[self] = Subsystems[i] /\ Enter(self, Subsystems[i + 1])
  BY DEF NextSubsystem, Subsystems
<1>2. /\ i = 1 => Subsystems[i] = "sysctl" /\ Subsystems[i + 1] = "nft"
      /\ i = 2 => Subsystems[i] = "nft" /\ Subsystems[i + 1] = TunnelIface
      /\ i = 3 => Subsystems[i] = TunnelIface /\ Subsystems[i + 1] = ClientsIface
      /\ i = 4 => Subsystems[i] = ClientsIface /\ Subsystems[i + 1] = "routing"
  BY DEF Subsystems
<1>3. i = 1 \/ i = 2 \/ i = 3 \/ i = 4
  OBVIOUS
<1>4. phase'[self] = Subsystems[i + 1]
  BY <1>0, <1>1 DEF Enter, SetPhase, RunnerTypeOK
<1>5. \/ Subsystems[i + 1] = "nft" /\ pc'[self] = "nft list"
      \/ Subsystems[i + 1] \in Ifaces /\ pc'[self] = "link show"
      \/ Subsystems[i + 1] = "routing" /\ pc'[self] = "rule show"
  BY <1>0, <1>1 DEF Enter, NftEnter, WGEnter, RoutingEnter, Goto, RunnerTypeOK
<1> QED BY <1>1, <1>2, <1>3, <1>4, <1>5
        DEF NextSubsystem, At, Ifaces, TunnelIface, ClientsIface, history

(* Where StartApply leads.                                                 *)
LEMMA StartShape ==
  ASSUME TypeInv, NEW self \in Procs, NEW p \in Policies, StartApply(self, p)
  PROVE  /\ pol'[self] = p /\ installed' = installed
         /\ \/ Validate(p) /\ phase'[self] = "sysctl" /\ pc'[self] = "sysctl read"
            \/ phase'[self] = "idle" /\ pc'[self] = "idle" /\ res'[self] = "error"
<1>0. RunnerTypeOK /\ Control
  BY DEF TypeInv, TypeOK
<1>1. pc[self] = "idle" /\ phase[self] = "idle"
  BY <1>0 DEF StartApply, At, Control, ControlAt
<1> QED BY <1>0, <1>1 DEF RunnerTypeOK, StartApply, SysctlEnter, SetPhase, Goto, Subsystems

(* Where a command ends.                                                   *)
LEMMA EndShape ==
  ASSUME TypeInv, NEW self \in Procs, ReturnError(self) \/ ReturnOk(self)
  PROVE  /\ phase'[self] = "idle" /\ pc'[self] = "idle" /\ res' = res
         /\ ReturnError(self) => Failed(self)' /\ installed' = installed
         /\ ReturnOk(self) => Done(self) /\ installed' = {pol[self]}
<1>0. RunnerTypeOK
  BY DEF TypeInv, TypeOK
<1>1. phase'[self] = "idle" /\ pc'[self] = "idle" /\ res' = res
  BY <1>0 DEF RunnerTypeOK, ReturnError, ReturnOk, Idle, Goto, SetPhase
<1>2. Subsystems[Len(Subsystems)] = "routing"
  BY DEF Subsystems
<1> QED BY <1>1, <1>2 DEF ReturnError, ReturnOk, Failed, Done, At, history

(* The steps of apply.Reconcile between the subsystems: a command succeeds *)
(* only past nftables, and only with a policy that Compile accepts.        *)
LEMMA MoveFirewall ==
  ASSUME ClearAlone, TypeInv, FirewallInv, NEW self \in Procs,
         \/ NextSubsystem(self) \/ ReturnError(self) \/ ReturnOk(self)
         \/ StartClear(self) \/ \E p \in Policies : StartApply(self, p)
  PROVE  FirewallInv'
<1>0. RunnerTypeOK
  BY DEF TypeInv, TypeOK
<1>1. OthersKept(self) /\ nft' = nft
  BY MoveShape
<1>2. ProcFirewall(self) /\ \A p \in installed : Validate(p)
  BY DEF FirewallInv
<1>3. CASE NextSubsystem(self)
  <2>1. /\ pol' = pol /\ installed' = installed /\ phase[self] \notin {"idle", "clear"}
        /\ phase'[self] \notin {"idle", "clear"} /\ pc'[self] \notin {"idle", "nft apply"}
    BY <1>3, NextShape DEF Ifaces, TunnelIface, ClientsIface
  <2>2. PastNft(self)' => PastNft(self)
    BY <1>3, NextShape DEF PastNft, Ifaces, TunnelIface, ClientsIface
  <2>3. Busy(self)'
    BY <2>1 DEF Busy
  <2> QED BY <1>1, <1>2, <2>1, <2>2, <2>3, FirewallKept DEF ProcFirewall
<1>4. CASE ReturnError(self)
  <2>1. /\ phase'[self] = "idle" /\ pc'[self] = "idle" /\ Failed(self)'
        /\ installed' = installed
    BY <1>4, EndShape
  <2>2. Busy(self)' /\ ~PastNft(self)'
    BY <2>1 DEF Busy, PastNft, Ifaces, TunnelIface, ClientsIface
  <2> QED BY <1>1, <1>2, <2>1, <2>2, FirewallKept
<1>5. CASE ReturnOk(self)
  <2>1. /\ phase'[self] = "idle" /\ pc'[self] = "idle" /\ Done(self)
        /\ installed' = {pol[self]}
    BY <1>5, EndShape
  <2>2. Validate(pol[self]) /\ Serves(nft, pol[self])
    BY <1>2, <2>1 DEF Done, ProcFirewall, PastNft
  <2>3. ~PastNft(self)'
    BY <2>1 DEF PastNft, Ifaces, TunnelIface, ClientsIface
  <2>4. \A s \in Procs : phase[s] # "clear"
    BY <2>1, NoneClears DEF Done
  <2> QED BY <1>1, <2>1, <2>2, <2>3, <2>4, FirewallKept
<1>6. CASE StartClear(self)
  <2>1. /\ phase'[self] = "clear" /\ pc'[self] = "clear wg-exit" /\ "clear" \in Commands
        /\ installed' = {}
    BY <1>0, <1>6 DEF StartClear, SetPhase, Goto, RunnerTypeOK
  <2>2. ~PastNft(self)' /\ Busy(self)'
    BY <2>1 DEF PastNft, Busy, Ifaces, TunnelIface, ClientsIface
  <2> QED BY <1>1, <2>1, <2>2, FirewallKept
<1>7. ASSUME NEW p \in Policies, StartApply(self, p) PROVE FirewallInv'
  <2>1. /\ pol'[self] = p /\ installed' = installed
        /\ \/ Validate(p) /\ phase'[self] = "sysctl" /\ pc'[self] = "sysctl read"
           \/ phase'[self] = "idle" /\ pc'[self] = "idle" /\ res'[self] = "error"
    BY <1>7, StartShape
  <2>2. ~PastNft(self)' /\ Busy(self)'
    BY <2>1 DEF PastNft, Busy, Failed, Ifaces, TunnelIface, ClientsIface
  <2>3. /\ phase'[self] \notin {"idle", "clear"} => Validate(pol'[self])
        /\ phase'[self] # "clear" /\ pc'[self] # "nft apply"
    BY <2>1
  <2> QED BY <1>1, <1>2, <2>1, <2>2, <2>3, FirewallKept
<1> QED BY <1>3, <1>4, <1>5, <1>6, <1>7

(* apply.Clear: nothing is installed any more.                             *)
LEMMA ClearFirewall ==
  ASSUME ClearAlone, TypeInv, FirewallInv, NEW self \in Procs, ClearStep(self),
         installed' = installed
  PROVE  FirewallInv'
<1>1. /\ OthersKept(self) /\ phase[self] = "clear"
      /\ \/ phase'[self] = "clear" /\ pc'[self] \in ClearLabels /\ nft' = nft
         \/ phase'[self] = "idle" /\ pc'[self] = "idle" /\ nft' \in {nft, NoTable}
  BY ClearShape
<1>2. installed = {} /\ "clear" \in Commands /\ Procs = {self}
  BY <1>1 DEF FirewallInv, ProcFirewall, ClearAlone, OneProcess
<1>3. phase'[self] \in {"idle", "clear"} /\ pc'[self] # "nft apply" /\ ~PastNft(self)'
  BY <1>1 DEF PastNft, Ifaces, TunnelIface, ClientsIface, ClearLabels
<1>4. CASE nft' = nft
  BY <1>1, <1>2, <1>3, <1>4, FirewallKept
<1>5. CASE nft' = NoTable
  <2>1. ProcFirewall(self)'
    BY <1>2, <1>3 DEF ProcFirewall
  <2>2. SameFirewall => \A q \in Policies : Validate(q) => Spares(nft', q)
    BY <1>5, NoTableSpares
  <2>3. TableShape'
    BY <1>2, <1>3, <1>5 DEF TableShape
  <2> QED BY <1>1, <1>2, <2>1, <2>2, <2>3, FirewallFrame
<1> QED BY <1>1, <1>4, <1>5

(* Faults do not touch the table.                                          *)
LEMMA FaultFirewall ==
  ASSUME TypeInv, FirewallInv,
         \/ \E self \in Procs : Kill(self)
         \/ \E i \in Ifaces : LinkLost(i) \/ LinkForcedDown(i) \/ Roam(i)
  PROVE  FirewallInv'
<1>0. RunnerTypeOK
  BY DEF TypeInv, TypeOK
<1>1. nft' = nft /\ installed' = installed
  BY DEF Kill, LinkLost, LinkForcedDown, Roam, kernel, Interfere
<1>2. ASSUME NEW self \in Procs, Kill(self) PROVE FirewallInv'
  <2>1. /\ phase'[self] = "idle" /\ pc'[self] = "idle" /\ res'[self] = "error"
        /\ OthersKept(self)
    BY <1>0, <1>2 DEF RunnerTypeOK, Kill, Idle, Goto, SetPhase, OthersKept
  <2>2. ~PastNft(self)' /\ Busy(self)'
    BY <2>1 DEF PastNft, Busy, Failed, Ifaces, TunnelIface, ClientsIface
  <2>3. \A p \in installed : Validate(p)
    BY DEF FirewallInv
  <2> QED BY <1>1, <2>1, <2>2, <2>3, FirewallKept
<1>3. CASE UNCHANGED procVars
  BY <1>1, <1>3 DEF procVars, FirewallInv, ProcFirewall, PastNft, Failed, TableShape, Compiled
<1> QED BY <1>2, <1>3 DEF LinkLost, LinkForcedDown, Roam

(* The firewall part is inductive.                                         *)
LEMMA FirewallStep ==
  ASSUME ClearAlone, SameFirewall \/ KnownFirewall, TypeInv, FirewallInv, [Next]_vars
  PROVE  FirewallInv'
<1>1. CASE UNCHANGED vars
  BY <1>1 DEF vars, kernel, procVars, history, FirewallInv, ProcFirewall, PastNft, Failed,
              TableShape, Compiled
<1>2. ASSUME NEW self \in Procs, Command(self) PROVE FirewallInv'
  <2>1. installed' = installed
    BY <1>2 DEF Command, ObserveCommand
  <2> QED BY <1>2, <2>1, CommandFirewall, ClearFirewall DEF Command
<1> QED BY <1>1, <1>2, MoveFirewall, FaultFirewall DEF Next, Process

-----------------------------------------------------------------------------
(* The rule and table 100.                                                 *)

(* The rules of others do not pass for the owned one, so what is listed is *)
(* the owned one.                                                          *)
LEMMA ListedIsOwned ==
  ASSUME NoLookalike, RoutingInv, RuleListed(rules)
  PROVE  OwnedRule \in rules
<1>1. ASSUME OwnedRule \notin rules PROVE RuleListed(ForeignRules)
  <2>1. rules \subseteq ForeignRules
    BY <1>1 DEF RoutingInv
  <2> QED BY <2>1 DEF RuleListed
<1> QED BY <1>1 DEF NoLookalike

(* What a step of self has to see to for the rule and the table: it has    *)
(* still to come to them; or it has the rule, and has still to come to the *)
(* table or has the blackhole; or it is past the rule and leaves it.       *)
LEMMA RoutingFrame ==
  ASSUME RoutingInv, NEW self \in Procs, OthersKept(self),
         rules' \subseteq ForeignRules \cup {OwnedRule},
         \/ BeforeRule(self)'
         \/ OwnedRule \in rules' /\ (AtTable(self)' \/ Blackhole \in t100')
         \/ /\ AtTable(self) \/ Done(self)
            /\ ~BeforeRule(self) /\ rules' = rules
            /\ \/ AtTable(self)' \/ Blackhole \in t100'
               \/ Done(self) /\ ~AtTable(self) /\ t100' = t100
  PROVE  RoutingInv'
<1>1. \A s \in Procs \ {self} : /\ BeforeRule(s)' <=> BeforeRule(s)
                                /\ AtTable(s)' <=> AtTable(s)
                                /\ Done(s)' <=> Done(s)
  BY DEF OthersKept, BeforeRule, AtTable, Done, Failed
<1>2. OwnedRule \in rules' \/ \E s \in Procs : BeforeRule(s)'
  BY <1>1 DEF RoutingInv
<1>3. Blackhole \in t100' \/ \E s \in Procs : BeforeRule(s)' \/ AtTable(s)'
  BY <1>1 DEF RoutingInv
<1> QED BY <1>2, <1>3 DEF RoutingInv

(* The routes wanted of table 100 end with the blackhole.                  *)
LEMMA BlackholeLast ==
  ASSUME NEW p
  PROVE  LET want == RoutesForTunnel(p)
         IN Blackhole \in RangeOf(want) /\ want[Len(want)] = Blackhole
<1>1. CASE p.TunnelUp
  <2>1. RoutesForTunnel(p) = << TunnelRoute, Blackhole >>
    BY <1>1 DEF RoutesForTunnel
  <2> QED BY <2>1 DEF RangeOf
<1>2. CASE ~p.TunnelUp
  <2>1. RoutesForTunnel(p) = << Blackhole >>
    BY <1>2 DEF RoutesForTunnel
  <2> QED BY <2>1 DEF RangeOf
<1> QED BY <1>1, <1>2

(* routing.Reconcile.                                                      *)
LEMMA ReconcileRouting ==
  ASSUME NoLookalike, TypeInv, RoutingInv, NEW self \in Procs, RoutingNext(self)
  PROVE  RoutingInv'
<1>0. RunnerTypeOK
  BY DEF TypeInv, TypeOK
<1>1. OthersKept(self) /\ phase'[self] = "routing" /\ phase[self] = "routing"
  BY RoutingShape DEF Shape
<1>2. rules' \subseteq ForeignRules \cup {OwnedRule}
  BY DEF RoutingInv, RoutingNext, RuleShow, RuleDel, RuleAdd, DeleteRule, TableShow, TableFlush, TableAdd
<1>3. CASE RuleShow(self)
  <2>1. \/ RuleListed(rules) /\ pc'[self] = "table show" /\ rules' = rules
        \/ pc'[self] = "rule del"
    BY <1>0, <1>3 DEF RuleShow, Goto, RunnerTypeOK
  <2> QED BY <1>1, <1>2, <2>1, ListedIsOwned, RoutingFrame DEF BeforeRule, AtTable
<1>4. CASE RuleDel(self)
  <2>1. pc'[self] = "rule add"
    BY <1>0, <1>4 DEF RuleDel, Goto, RunnerTypeOK
  <2> QED BY <1>1, <1>2, <2>1, RoutingFrame DEF BeforeRule
<1>5. CASE RuleAdd(self)
  <2>1. \/ OwnedRule \in rules' /\ pc'[self] = "table show"
        \/ pc'[self] = "return" /\ res'[self] = "error"
    BY <1>0, <1>5 DEF RuleAdd, Return, Goto, RunnerTypeOK
  <2> QED BY <1>1, <1>2, <2>1, RoutingFrame DEF BeforeRule, Failed, AtTable
<1>6. CASE TableShow(self) \/ TableFlush(self) \/ TableAdd(self)
  <2>1. rules' = rules /\ AtTable(self)
    BY <1>6 DEF TableShow, TableFlush, TableAdd, At, AtTable
  <2>2. ~BeforeRule(self)
    BY <1>1, <2>1 DEF BeforeRule, AtTable, Failed, Ifaces, TunnelIface, ClientsIface
  <2>3. \/ pc'[self] = "table flush" \/ pc'[self] = "table add"
        \/ Blackhole \in t100'
        \/ pc'[self] = "return" /\ res'[self] = "error"
    <3>1. CASE TableShow(self)
      BY <1>0, <3>1, BlackholeLast DEF TableShow, Return, Goto, RunnerTypeOK
    <3>2. CASE TableFlush(self)
      BY <1>0, <3>2 DEF TableFlush, Goto, RunnerTypeOK
    <3>3. CASE TableAdd(self)
      BY <1>0, <3>3, BlackholeLast DEF TableAdd, At, AddRoute, Return, Goto, RunnerTypeOK
    <3> QED BY <1>6, <3>1, <3>2, <3>3
  <2>4. AtTable(self)' \/ Blackhole \in t100' \/ BeforeRule(self)'
    BY <2>3 DEF AtTable, BeforeRule, Failed
  <2> QED BY <1>1, <1>2, <2>1, <2>2, <2>4, RoutingFrame
<1> QED BY <1>3, <1>4, <1>5, <1>6 DEF RoutingNext

(* With the only process clearing, nothing is installed.                   *)
LEMMA ClearedRouting ==
  ASSUME NEW self \in Procs, Procs = {self}, installed' = {},
         phase'[self] \in {"idle", "clear"}, pc'[self] \in ClearLabels \cup {"idle"},
         rules' \subseteq ForeignRules \cup {OwnedRule}
  PROVE  RoutingInv'
<1>1. \A s \in Procs : ~AtTable(s)' /\ ~Done(s)'
  BY DEF AtTable, Done, ClearLabels
<1> QED BY <1>1 DEF RoutingInv

(* Every other step of a process comes before the rule, or is about a      *)
(* command that has succeeded or is being cleared.                         *)
LEMMA ProcessRouting ==
  ASSUME ClearAlone, NoLookalike, TypeInv, FirewallInv, RoutingInv, NEW self \in Procs,
         \/ Process(self) \/ StartClear(self) \/ Kill(self)
         \/ \E p \in Policies : StartApply(self, p)
  PROVE  RoutingInv'
<1>0. RunnerTypeOK /\ rules \subseteq ForeignRules \cup {OwnedRule}
  BY DEF TypeInv, TypeOK, RoutingInv
<1>1. CASE SysctlNext(self) \/ NftNext(self) \/ WGNext(self)
  <2>1. /\ OthersKept(self) /\ phase'[self] \in {"sysctl", "nft"} \cup Ifaces
        /\ pc'[self] # "idle" /\ rules' = rules
    BY <1>1, SysctlShape, NftShape, WGShape DEF Shape, SysctlLabels, NftLabels, WGLabels
  <2> QED BY <1>0, <2>1, RoutingFrame DEF BeforeRule
<1>2. CASE ClearStep(self) /\ installed' = installed
  <2>1. /\ phase'[self] \in {"idle", "clear"} /\ pc'[self] \in ClearLabels \cup {"idle"}
        /\ phase[self] = "clear"
    BY <1>2, ClearShape
  <2>2. Procs = {self} /\ installed = {}
    BY <2>1 DEF FirewallInv, ProcFirewall, ClearAlone, OneProcess
  <2>3. rules' \subseteq rules
    BY <1>2 DEF ClearStep, ClearLink, ClearRule, ClearTable, ClearNft, DeleteRule
  <2> QED BY <1>0, <1>2, <2>1, <2>2, <2>3, ClearedRouting
<1>3. CASE NextSubsystem(self)
  <2>1. OthersKept(self) /\ rules' = rules
    BY <1>3, MoveShape
  <2>2. BeforeRule(self)'
    BY <1>3, NextShape DEF BeforeRule, Ifaces
  <2> QED BY <1>0, <2>1, <2>2, RoutingFrame
<1>4. CASE ReturnError(self)
  <2>1. OthersKept(self) /\ rules' = rules
    BY <1>4, MoveShape
  <2>2. BeforeRule(self)'
    BY <1>4, EndShape DEF BeforeRule
  <2> QED BY <1>0, <2>1, <2>2, RoutingFrame
<1>5. CASE ReturnOk(self)
  <2>1. OthersKept(self) /\ rules' = rules /\ t100' = t100
    BY <1>5, MoveShape
  <2>2. Done(self) /\ ~AtTable(self) /\ ~BeforeRule(self)
    BY <1>5, EndShape DEF Done, AtTable, BeforeRule, Failed, Ifaces, TunnelIface, ClientsIface
  <2> QED BY <1>0, <2>1, <2>2, RoutingFrame
<1>6. CASE StartClear(self)
  <2>1. /\ phase'[self] = "clear" /\ pc'[self] = "clear wg-exit" /\ "clear" \in Commands
        /\ installed' = {} /\ rules' = rules
    BY <1>0, <1>6 DEF StartClear, SetPhase, Goto, RunnerTypeOK, kernel
  <2>2. Procs = {self}
    BY <2>1 DEF ClearAlone, OneProcess
  <2> QED BY <1>0, <2>1, <2>2, ClearedRouting DEF ClearLabels
<1>7. ASSUME NEW p \in Policies, StartApply(self, p) PROVE RoutingInv'
  <2>1. OthersKept(self) /\ rules' = rules
    BY <1>7, MoveShape
  <2>2. BeforeRule(self)'
    BY <1>7, StartShape DEF BeforeRule, Failed
  <2> QED BY <1>0, <2>1, <2>2, RoutingFrame
<1>8. CASE Kill(self)
  <2>1. /\ OthersKept(self) /\ rules' = rules /\ pc'[self] = "idle" /\ res'[self] = "error"
    BY <1>0, <1>8 DEF RunnerTypeOK, Kill, Idle, Goto, SetPhase, OthersKept, kernel
  <2>2. BeforeRule(self)'
    BY <2>1 DEF BeforeRule, Failed
  <2> QED BY <1>0, <2>1, <2>2, RoutingFrame
<1> QED BY <1>1, <1>2, <1>3, <1>4, <1>5, <1>6, <1>7, <1>8, ReconcileRouting
        DEF Process, Command, ObserveCommand

(* A lost link takes its own routes with it, and no others.                *)
LEMMA EventRouting ==
  ASSUME RoutingInv, NEW i \in Ifaces, LinkLost(i) \/ LinkForcedDown(i) \/ Roam(i)
  PROVE  /\ RoutingInv'
         /\ UNCHANGED << nft, rules, procVars, installed >>
         /\ t100' \subseteq t100 /\ (Blackhole \in t100 => Blackhole \in t100')
<1>1. UNCHANGED << nft, rules, procVars, installed >>
  BY DEF LinkLost, LinkForcedDown, Roam, Interfere
<1>2. t100' \subseteq t100 /\ (Blackhole \in t100 => Blackhole \in t100')
  BY DEF LinkLost, LinkForcedDown, Roam, LinkDel, LinkDown, DropRoutes, Blackhole, Ifaces,
         TunnelIface, ClientsIface
<1>3. \A s \in Procs : /\ BeforeRule(s)' <=> BeforeRule(s)
                       /\ AtTable(s)' <=> AtTable(s)
                       /\ Done(s)' <=> Done(s)
  BY <1>1 DEF procVars, BeforeRule, AtTable, Done, Failed
<1> QED BY <1>1, <1>2, <1>3 DEF RoutingInv

-----------------------------------------------------------------------------
(* What FailClosed needs of the past.                                      *)
ClosedInv == FirewallInv /\ RoutingInv

(* The invariant holds before the first command.                           *)
LEMMA ClosedInit == ASSUME Init PROVE ClosedInv
<1>1. \A q \in Policies : Spares(nft, q)
  BY NoTableSpares DEF Init
<1>2. \A s \in Procs : /\ pc[s] = "idle" /\ phase[s] = "idle"
  BY DEF Init
<1>3. installed = {} /\ nft = NoTable /\ rules = ForeignRules
  BY DEF Init
<1>4. FirewallInv
  BY <1>1, <1>2, <1>3 DEF FirewallInv, ProcFirewall, PastNft, TableShape, Ifaces,
                          TunnelIface, ClientsIface
<1>5. RoutingInv
  BY <1>2, <1>3 DEF RoutingInv, AtTable, Done
<1> QED BY <1>4, <1>5 DEF ClosedInv

(* It is inductive.                                                        *)
LEMMA ClosedStep ==
  ASSUME ClearAlone, NoLookalike, SameFirewall \/ KnownFirewall, TypeInv, ClosedInv,
         [Next]_vars
  PROVE  ClosedInv'
<1>1. FirewallInv'
  BY FirewallStep DEF ClosedInv
<1>2. CASE UNCHANGED vars
  <2>1. RoutingInv'
    BY <1>2 DEF vars, kernel, procVars, history, ClosedInv, RoutingInv, BeforeRule, AtTable,
                Done, Failed
  <2> QED BY <1>1, <2>1 DEF ClosedInv
<1> QED BY <1>1, <1>2, ProcessRouting, EventRouting DEF ClosedInv, Next

(* Where everybody is idle after a success, the parts of the data path are *)
(* in place.                                                               *)
LEMMA QuietPath ==
  ASSUME TypeInv, ClosedInv, Quiescent, NEW p \in installed
  PROVE  /\ p \in Policies /\ Serves(nft, p)
         /\ OwnedRule \in rules /\ Blackhole \in t100
<1>1. \A s \in Procs : pc[s] = "idle" /\ res[s] = "ok"
  BY DEF Quiescent, At
<1>2. \A s \in Procs : ~BeforeRule(s) /\ ~AtTable(s) /\ ~Failed(s)
  BY <1>1 DEF BeforeRule, AtTable, Failed
<1>3. Serves(nft, p)
  BY <1>1, <1>2 DEF ClosedInv, FirewallInv
<1>4. OwnedRule \in rules /\ Blackhole \in t100
  BY <1>2 DEF ClosedInv, RoutingInv
<1> QED BY <1>3, <1>4 DEF TypeInv, TypeOK

(* And a tunnelled destination then leaves by table 100.                   *)
LEMMA QuietEgress ==
  ASSUME TypeInv, ClosedInv, Quiescent, NEW p \in installed, NEW d \in Tunnelled(p)
  PROVE  Egress(d) = Table100Egress /\ Table100Egress \in {TunnelIface, "blackhole"}
<1>1. p \in Policies /\ Serves(nft, p) /\ OwnedRule \in rules /\ Blackhole \in t100
  BY QuietPath
<1>2. Marked(d)
  BY <1>1, ServesMarks DEF TypeInv, TypeOK
<1>3. t100 # {}
  BY <1>1
<1> QED BY <1>1, <1>2, <1>3 DEF Egress, Table100Egress

(* Once an apply has succeeded and until the next command, no packet to a  *)
(* destination the policy tunnels leaves by the uplink: whatever happens   *)
(* to wg-exit, however many commands fail or are killed before, and in     *)
(* whatever order concurrent applies run.  It takes a clear that is not    *)
(* run next to an apply, no look-alike rule, and policies whose firewall   *)
(* parts agree, or else applies that follow each other, can list the table *)
(* and name no single address as direct.                                   *)
THEOREM FailClosedHolds ==
  ASSUME ClearAlone, NoLookalike, SameFirewall \/ KnownFirewall
  PROVE  Spec => []FailClosed
<1>1. Init => ClosedInv
  BY ClosedInit
<1>2. TypeInv /\ ClosedInv /\ [Next]_vars => ClosedInv'
  BY ClosedStep
<1>3. TypeInv /\ ClosedInv => FailClosed
  BY QuietEgress DEF FailClosed, Quiescent
<1> QED BY <1>1, <1>2, <1>3, InitTyped, NextTyped, PTL DEF Spec

-----------------------------------------------------------------------------
(* Apply implements Gateway.                                               *)

(* The routes of main are those of prefixes, and finitely many, so that of *)
(* the ones that cover a destination one is the longest prefix.            *)
RoutedPrefixes ==
  UNION { p.WireGuard.Peer.AllowedIPs \cup p.InboundWireGuard.Peer.AllowedIPs : p \in Policies }

MainInv ==
  /\ IsFiniteSet(main)
  /\ \A r \in main : r.Dst \in RoutedPrefixes \cup {Addr4}
  /\ \A s \in Procs : todo[s] \subseteq RoutedPrefixes

(* The resolver of the direct names is none of the AllowedIPs, so none is  *)
(* 0.0.0.0/0 either, and the default route stays as it is.                 *)
ResolverOutside == \A p \in RoutedPrefixes : DirectResolver \notin p

DefaultInv ==
  /\ [Dst |-> Addr4, Dev |-> Uplink] \in main
  /\ \A r \in main : r.Dst = Addr4 => r.Dev = Uplink

(* Longest-prefix match finds one of the routes that cover a destination.  *)
LEMMA LongestCovers ==
  ASSUME KernelTypeOK, MainInv, NEW d \in Addr4
  PROVE  \/ MainEgress(d) = "unreachable" /\ \A r \in main : d \notin r.Dst
         \/ \E r \in main : d \in r.Dst /\ MainEgress(d) = r.Dev
<1> DEFINE C == { r \in main : d \in r.Dst }
           Below(r) == { s \in C : s.Dst \subseteq r.Dst /\ s.Dst # r.Dst }
           T == { Below(r) : r \in C }
<1>1. C \subseteq main /\ IsFiniteSet(C)
  BY FS_Subset DEF MainInv
<1>2. \A r, s \in C : r.Dst \subseteq s.Dst \/ s.Dst \subseteq r.Dst
  <2> SUFFICES ASSUME NEW r \in C, NEW s \in C
               PROVE  r.Dst \subseteq s.Dst \/ s.Dst \subseteq r.Dst
    OBVIOUS
  <2>1. r.Dst \subseteq Addr4 /\ s.Dst \subseteq Addr4 /\ r.Dst \cap s.Dst # {}
    BY DEF KernelTypeOK, MainRoute, CIDR
  <2>2. r.Dst \in AllPrefixes \cup {Addr4} /\ s.Dst \in AllPrefixes \cup {Addr4}
    BY DEF MainInv, AllPrefixes, RoutedPrefixes
  <2> QED BY <2>1, <2>2, PrefixAssumption
<1>3. \A r \in C : r \in main /\ d \in r.Dst
  OBVIOUS
<1>4. ASSUME C # {} PROVE \E r \in C : \A s \in C : r.Dst \subseteq s.Dst
  <2> HIDE DEF C
  <2>1. \A r \in C : Below(r) \in SUBSET C
    OBVIOUS
  <2>2. T \subseteq FiniteSubsetsOf(C)
    <3>1. ASSUME NEW r \in C PROVE Below(r) \in FiniteSubsetsOf(C)
      <4> HIDE DEF Below
      <4> QED BY <1>1, <2>1, FS_Subset DEF FiniteSubsetsOf
    <3> HIDE DEF Below
    <3> QED BY <3>1
  <2>3. T # {}
    <3>1. PICK r \in C : TRUE
      BY <1>4
    <3>2. Below(r) \in T
      BY <3>1
    <3> HIDE DEF T, Below
    <3> QED BY <3>2
  <2>4. PICK x \in T : \A y \in T : ~(<< y, x >> \in StrictSubsetOrdering(C))
    <3>1. IsWellFoundedOn(StrictSubsetOrdering(C), FiniteSubsetsOf(C))
      BY FS_StrictSubsetOrderingWellFounded
    <3> HIDE DEF T
    <3> QED BY <2>2, <2>3, <3>1, WFMin
  <2>5. PICK r \in C : x = Below(r)
    BY <2>4
  <2>6. ASSUME NEW s \in C, ~(r.Dst \subseteq s.Dst) PROVE FALSE
    <3>1. s.Dst \subseteq r.Dst /\ s.Dst # r.Dst
      BY <1>2, <2>6
    <3>2. Below(s) \subseteq Below(r) /\ s \in Below(r) /\ s \notin Below(s)
      BY <3>1
    <3>3. << Below(s), Below(r) >> \in StrictSubsetOrdering(C)
      <4>1. Below(s) \in SUBSET C /\ Below(r) \in SUBSET C /\ Below(s) # Below(r)
        BY <2>1, <3>2
      <4> HIDE DEF Below
      <4> QED BY <3>2, <4>1 DEF StrictSubsetOrdering
    <3>4. Below(s) \in T
      OBVIOUS
    <3> QED BY <2>4, <2>5, <3>3, <3>4
  <2> QED BY <2>6
<1>5. MainEgress(d) = IF C = {} THEN "unreachable"
                      ELSE (CHOOSE r \in C : \A s \in C : r.Dst \subseteq s.Dst).Dev
  BY DEF MainEgress
<1>6. C = {} => \A r \in main : d \notin r.Dst
  OBVIOUS
<1> HIDE DEF C
<1> QED BY <1>3, <1>4, <1>5, <1>6

(* So it is well defined.                                                  *)
LEMMA LongestPrefix ==
  ASSUME KernelTypeOK, MainInv, NEW d \in Addr4
  PROVE  MainEgress(d) \in Ifaces \cup {Uplink, "unreachable"}
BY LongestCovers DEF KernelTypeOK, MainRoute

(* It starts with the default route.                                       *)
LEMMA MainInit == ASSUME Init PROVE MainInv
<1>1. main = { [Dst |-> Addr4, Dev |-> Uplink] } /\ \A s \in Procs : todo[s] = {}
  BY DEF Init
<1>2. IsFiniteSet(main)
  BY <1>1, FS_Singleton
<1> QED BY <1>1, <1>2 DEF MainInv

(* What a step may do to the routes of main: one through an interface is   *)
(* dropped, or a prefix is given to an interface.                          *)
LEMMA MainShape ==
  ASSUME TypeInv, [Next]_vars
  PROVE  \/ main' \subseteq main /\ \A r \in main \ main' : r.Dev \in Ifaces
         \/ \E s \in Procs : \E p \in todo[s], i \in Ifaces : main' = MainReplace(p, i)
<1> DEFINE Less == main' \subseteq main /\ \A r \in main \ main' : r.Dev \in Ifaces
<1>1. ASSUME NEW s \in Procs, WGNext(s)
      PROVE  Less \/ \E p \in todo[s], i \in Ifaces : main' = MainReplace(p, i)
  <2>1. phase[s] \in Ifaces
    BY <1>1, WGShape DEF Shape
  <2>2. CASE RouteDel(s)
    <3>1. main' = main \/ \E p \in todo[s] : main' = main \ { [Dst |-> p, Dev |-> phase[s]] }
      BY <2>2 DEF RouteDel
    <3> QED BY <2>1, <3>1
  <2>3. CASE SetLinkDown(s)
    BY <2>1, <2>3 DEF SetLinkDown, LinkDown, DropRoutes
  <2>4. CASE RouteReplace(s)
    BY <2>1, <2>4 DEF RouteReplace
  <2>5. ASSUME \/ LinkShow(s) \/ LinkAdd(s) \/ Dump(s) \/ AddrShow(s) \/ SetKey(s)
               \/ SetPeer(s) \/ AddrReplace(s) \/ SetLinkUp(s)
        PROVE  main' = main
    BY <2>5 DEF LinkShow, LinkAdd, Dump, AddrShow, SetKey, SetPeer, AddrReplace, SetCommand, SetLinkUp
  <2> QED BY <1>1, <2>2, <2>3, <2>4, <2>5 DEF WGNext
<1>2. ASSUME NEW s \in Procs, SysctlNext(s) \/ NftNext(s) \/ RoutingNext(s)
      PROVE  main' = main
  BY <1>2 DEF SysctlNext, SysctlRead, SysctlEcho, SysctlWrite, SysctlReread, sysctlFrame,
     NftNext, NftList, NftApply, nftFrame, RoutingNext, RuleShow, RuleDel, RuleAdd,
     TableShow, TableFlush, TableAdd, routingFrame
<1>3. ASSUME NEW s \in Procs, ClearStep(s) PROVE Less
  BY <1>3 DEF ClearStep, ClearLink, ClearRule, ClearTable, ClearNft, LinkDel, DropRoutes, Ifaces
<1>4. ASSUME NEW s \in Procs,
             \/ NextSubsystem(s) \/ ReturnError(s) \/ ReturnOk(s) \/ StartClear(s)
             \/ Kill(s) \/ \E p \in Policies : StartApply(s, p)
      PROVE  main' = main
  BY <1>4 DEF NextSubsystem, ReturnError, ReturnOk, StartClear, Kill, StartApply, kernel
<1>5. ASSUME NEW i \in Ifaces, LinkLost(i) \/ LinkForcedDown(i) \/ Roam(i)
      PROVE  Less
  BY <1>5 DEF LinkLost, LinkForcedDown, Roam, LinkDel, LinkDown, DropRoutes
<1>6. ASSUME UNCHANGED vars PROVE main' = main
  BY <1>6 DEF vars, kernel
<1>7. main' = main => Less
  OBVIOUS
<1> HIDE DEF Less
<1>8. Less \/ \E s \in Procs : \E p \in todo[s], i \in Ifaces : main' = MainReplace(p, i)
  BY <1>1, <1>2, <1>3, <1>4, <1>5, <1>6, <1>7 DEF Next, Process, Command
<1> QED BY <1>8 DEF Less

(* What a step may do to the loops over prefixes, and so to main.          *)
LEMMA MainStep ==
  ASSUME TypeInv, MainInv, [Next]_vars
  PROVE  MainInv'
<1> DEFINE ips(s) == WGWant(s).cfg.Peer.AllowedIPs
<1>0. Control /\ RunnerTypeOK
  BY DEF TypeInv, TypeOK
<1>1. \/ main' \subseteq main
      \/ \E s \in Procs : \E p \in todo[s], i \in Ifaces : main' = MainReplace(p, i)
  BY MainShape
<1>2. \/ todo' = todo
      \/ \E s \in Procs : \E ps : /\ ps \subseteq todo[s] \/ (phase[s] \in Ifaces /\ ps = ips(s))
                                  /\ todo' = [todo EXCEPT ![s] = ps]
  <2>1. ASSUME NEW s \in Procs, WGNext(s)
        PROVE  \/ todo' = todo
               \/ todo' = [todo EXCEPT ![s] = ips(s)]
               \/ \E p \in todo[s] : todo' = [todo EXCEPT ![s] = todo[s] \ {p}]
    BY <2>1 DEF WGNext, LinkShow, LinkAdd, RouteDel, SetLinkDown, Dump, AddrShow,
       SetKey, SetPeer, AddrReplace, SetCommand, SetLinkUp, RouteReplace, StartDown, NextPrefix
  <2>2. ASSUME NEW s \in Procs, SysctlNext(s) \/ NftNext(s) \/ RoutingNext(s)
        PROVE  todo' = todo
    BY <2>2 DEF SysctlNext, SysctlRead, SysctlEcho, SysctlWrite, SysctlReread, sysctlFrame,
       NftNext, NftList, NftApply, nftFrame, RoutingNext, RuleShow, RuleDel, RuleAdd,
       TableShow, TableFlush, TableAdd, routingFrame
  <2>3. ASSUME NEW s \in Procs, ClearStep(s) PROVE todo' = todo
    BY <2>3 DEF ClearStep, ClearLink, ClearRule, ClearTable, ClearNft
  <2>4. ASSUME NEW s \in Procs,
               \/ NextSubsystem(s) \/ ReturnError(s) \/ ReturnOk(s) \/ StartClear(s)
               \/ Kill(s) \/ \E p \in Policies : StartApply(s, p)
        PROVE  todo' = todo
    BY <2>4 DEF NextSubsystem, ReturnError, ReturnOk, StartClear, Kill, StartApply
  <2>5. ASSUME NEW i \in Ifaces, LinkLost(i) \/ LinkForcedDown(i) \/ Roam(i)
        PROVE  todo' = todo
    BY <2>5 DEF LinkLost, LinkForcedDown, Roam, procVars
  <2>6. CASE UNCHANGED vars
    BY <2>6 DEF vars, procVars
  <2>7. ASSUME NEW s \in Procs, WGNext(s) PROVE phase[s] \in Ifaces
    BY <2>7, WGShape DEF Shape
  <2>8. \A s \in Procs : \A p \in todo[s] : todo[s] \ {p} \subseteq todo[s]
    OBVIOUS
  <2> HIDE DEF ips
  <2>9. ASSUME NEW s \in Procs, WGNext(s)
        PROVE  \/ todo' = todo
               \/ \E ps : /\ ps \subseteq todo[s] \/ (phase[s] \in Ifaces /\ ps = ips(s))
                          /\ todo' = [todo EXCEPT ![s] = ps]
    BY <2>1, <2>7, <2>8, <2>9
  <2> QED BY <2>2, <2>3, <2>4, <2>5, <2>6, <2>9 DEF Next, Process, Command
<1>3. \A s \in Procs : phase[s] \in Ifaces => ips(s) \subseteq RoutedPrefixes
  <2>1. \A s \in Procs : pol[s] \in Policies
    BY <1>0 DEF RunnerTypeOK
  <2> QED BY <2>1 DEF WGWant, WGSpec, RoutedPrefixes
<1> HIDE DEF ips
<1>4. \A s \in Procs : todo'[s] \subseteq RoutedPrefixes
  BY <1>0, <1>2, <1>3 DEF MainInv, RunnerTypeOK
<1>5. IsFiniteSet(main') /\ \A r \in main' : r.Dst \in RoutedPrefixes \cup {Addr4}
  <2>1. CASE main' \subseteq main
    BY <2>1, FS_Subset DEF MainInv
  <2>2. ASSUME NEW s \in Procs, NEW p \in todo[s], NEW i \in Ifaces, main' = MainReplace(p, i)
        PROVE  IsFiniteSet(main') /\ \A r \in main' : r.Dst \in RoutedPrefixes \cup {Addr4}
    <3> DEFINE rest == { r \in main : r.Dst # p }
               new == [Dst |-> p, Dev |-> i]
    <3>1. main' = rest \cup {new} /\ rest \in SUBSET main /\ new.Dst = p
      BY <2>2 DEF MainReplace
    <3> HIDE DEF rest, new
    <3>2. IsFiniteSet(rest)
      BY <3>1, FS_Subset DEF MainInv
    <3>3. IsFiniteSet(rest \cup {new})
      BY <3>2, FS_AddElement
    <3>4. p \in RoutedPrefixes
      BY DEF MainInv
    <3> QED BY <3>1, <3>3, <3>4 DEF MainInv
  <2> QED BY <1>1, <2>1, <2>2
<1>6. RoutedPrefixes' = RoutedPrefixes
  BY DEF RoutedPrefixes
<1> QED BY <1>4, <1>5, <1>6 DEF MainInv

(* Nothing takes the default route away or gives it to an interface.       *)
LEMMA DefaultStep ==
  ASSUME ResolverOutside, TypeInv, MainInv, DefaultInv, [Next]_vars
  PROVE  DefaultInv'
<1>1. Uplink \notin Ifaces
  BY DEF Uplink, Ifaces, TunnelIface, ClientsIface
<1>2. CASE main' \subseteq main /\ \A r \in main \ main' : r.Dev \in Ifaces
  BY <1>1, <1>2 DEF DefaultInv, Uplink
<1>3. ASSUME NEW s \in Procs, NEW p \in todo[s], NEW i \in Ifaces, main' = MainReplace(p, i)
      PROVE  DefaultInv'
  <2>1. p # Addr4
    BY ResolverAssumption DEF MainInv, ResolverOutside
  <2> QED BY <1>3, <2>1 DEF MainReplace, DefaultInv, Uplink
<1> QED BY <1>2, <1>3, MainShape

(* Packets without a mark to the resolver outside use it.                  *)
LEMMA OutsideByUplink ==
  ASSUME ResolverOutside, KernelTypeOK, MainInv, DefaultInv
  PROVE  UnmarkedLocalEgress(DirectResolver) = "isp"
<1>1. DirectResolver \in Addr4
  BY ResolverAssumption
<1>2. \A r \in main : DirectResolver \in r.Dst => r.Dev = "isp"
  BY DEF MainInv, ResolverOutside, DefaultInv, Uplink
<1>3. \E r \in main : DirectResolver \in r.Dst
  BY <1>1 DEF DefaultInv
<1>4. MainEgress(DirectResolver) = "isp"
  BY <1>1, <1>2, <1>3, LongestCovers
<1> QED BY <1>4 DEF UnmarkedLocalEgress

(* The refinement mapping of GatewayRefinement, by name.                   *)
Dests == Addr4 \cup {MarkedLocal, PlainLocal}
Paths == {"wg-exit", "wg-clients", "blackhole", "isp", "unreachable"}

PathOf(d) ==
  IF d \in Addr4 THEN Egress(d)
  ELSE IF d = MarkedLocal THEN MarkedLocalEgress(Resolver)
                          ELSE UnmarkedLocalEgress(DirectResolver)
PathFcn   == [d \in Dests |-> PathOf(d)]
Promised  == IF Quiescent THEN UNION { Tunnelled(p) \cup {MarkedLocal} : p \in installed } ELSE {}

(* Every packet has one of the ways of the gateway.                        *)
LEMMA PathsTyped ==
  ASSUME KernelTypeOK, MainInv
  PROVE  PathFcn \in [Dests -> Paths]
<1>0. Resolver \in Addr4 /\ DirectResolver \in Addr4
  BY ResolverAssumption
<1>1. \A d \in Addr4 : MainEgress(d) \in Paths
  BY LongestPrefix DEF Paths, Ifaces, TunnelIface, ClientsIface, Uplink
<1>2. Table100Egress \in Paths
  BY DEF Table100Egress, Paths, TunnelIface
<1>3. \A d \in Dests : PathOf(d) \in Paths
  BY <1>0, <1>1, <1>2 DEF PathOf, Egress, MarkedLocalEgress, UnmarkedLocalEgress
<1> QED BY <1>3 DEF PathFcn

(* A promised destination leaves by table 100.                             *)
LEMMA PromiseKept ==
  ASSUME TypeInv, ClosedInv, NEW d \in Promised
  PROVE  /\ Quiescent /\ d \in Dests /\ PathFcn[d] = Table100Egress
         /\ Table100Egress \in {"wg-exit", "blackhole"} /\ Blackhole \in t100
<1>1. Quiescent
  BY DEF Promised
<1>2. PICK p \in installed : d \in Tunnelled(p) \cup {MarkedLocal}
  BY <1>1 DEF Promised
<1>3. OwnedRule \in rules /\ Blackhole \in t100
  BY <1>1, QuietPath
<1>4. Table100Egress \in {"wg-exit", "blackhole"}
  BY DEF Table100Egress, TunnelIface
<1>5. CASE d \in Tunnelled(p)
  <2>1. d \in Addr4
    BY <1>5 DEF Tunnelled
  <2>2. Egress(d) = Table100Egress
    BY <1>1, <1>5, QuietEgress
  <2> QED BY <1>1, <1>3, <1>4, <2>1, <2>2 DEF PathFcn, PathOf, Dests
<1>6. CASE d = MarkedLocal
  <2>1. d \notin Addr4 /\ d \in Dests
    BY <1>6, ResolverAssumption DEF Dests
  <2>2. MarkedLocalEgress(Resolver) = Table100Egress
    BY <1>3 DEF MarkedLocalEgress
  <2> QED BY <1>1, <1>3, <1>4, <1>6, <2>1, <2>2 DEF PathFcn, PathOf
<1> QED BY <1>2, <1>5, <1>6

(* From one quiet state to another leads no step of a process: only a link *)
(* that is lost or set down, or a peer that moves.                         *)
LEMMA QuietStep ==
  ASSUME TypeInv, Quiescent, Quiescent', Next
  PROVE  \E i \in Ifaces : LinkLost(i) \/ LinkForcedDown(i) \/ Roam(i)
<1>0. RunnerTypeOK
  BY DEF TypeInv, TypeOK
<1>1. \A s \in Procs : pc[s] = "idle" /\ pc'[s] = "idle" /\ res'[s] = "ok"
  BY DEF Quiescent, At
<1>2. ASSUME NEW s \in Procs, StartClear(s) PROVE FALSE
  BY <1>0, <1>1, <1>2 DEF StartClear, Goto, RunnerTypeOK
<1>3. ASSUME NEW s \in Procs, NEW p \in Policies, StartApply(s, p) PROVE FALSE
  BY <1>1, <1>3, StartShape
<1>4. ASSUME NEW s \in Procs, Kill(s) PROVE FALSE
  BY <1>1, <1>4 DEF Kill, At
<1>5. ASSUME NEW s \in Procs, NextSubsystem(s) \/ ReturnError(s) \/ ReturnOk(s) PROVE FALSE
  BY <1>1, <1>5 DEF NextSubsystem, ReturnError, ReturnOk, At
<1>6. ASSUME NEW s \in Procs, Command(s) PROVE FALSE
  <2>1. pc[s] = "idle" /\ phase[s] = "idle"
    BY <1>1 DEF TypeInv, Control, ControlAt
  <2>2. ~SysctlNext(s) /\ ~NftNext(s) /\ ~WGNext(s) /\ ~RoutingNext(s) /\ ~ClearStep(s)
    BY <2>1, SysctlShape, NftShape, WGShape, RoutingShape, ClearShape
       DEF Shape, Ifaces, TunnelIface, ClientsIface
  <2> QED BY <1>6, <2>2 DEF Command
<1> QED BY <1>2, <1>3, <1>4, <1>5, <1>6 DEF Next, Process

(* What the gateway sees of a state.                                       *)
GatewayInv ==
  /\ PathFcn \in [Dests -> Paths]
  /\ PathFcn[PlainLocal] = "isp"
  /\ \A d \in Promised :
       /\ Quiescent /\ d \in Dests /\ PathFcn[d] = Table100Egress
       /\ Table100Egress \in {"wg-exit", "blackhole"}

(* It follows from the invariants.                                         *)
LEMMA GatewayInvHolds ==
  ASSUME ResolverOutside, TypeInv, ClosedInv, MainInv, DefaultInv
  PROVE  GatewayInv
<1>1. KernelTypeOK
  BY DEF TypeInv, TypeOK
<1>2. PlainLocal \in Dests /\ PlainLocal \notin Addr4 /\ PlainLocal # MarkedLocal
  BY ResolverAssumption DEF Dests, PlainLocal, MarkedLocal
<1>3. PathFcn[PlainLocal] = "isp"
  BY <1>1, <1>2, OutsideByUplink DEF PathFcn, PathOf
<1> QED BY <1>1, <1>3, PathsTyped, PromiseKept DEF GatewayInv

(* Every step of Apply is a step of the gateway: it leaves no promise, it  *)
(* makes one, or the tunnel is lost and what it carried is dropped.        *)
LEMMA GatewayStep ==
  ASSUME TypeInv, RoutingInv, GatewayInv, GatewayInv', Next
  PROVE  G!GatewayNext
<1>1. /\ PathFcn' = [d \in Dests |-> PathOf(d)']
      /\ PathFcn' \in [Dests -> Paths] /\ PathFcn'[PlainLocal] = "isp"
  BY DEF GatewayInv, PathFcn
<1>2. CASE Promised' = {}
  <2>1. G!Operate
    BY <1>1, <1>2 DEF G!Operate, G!Routings, PathFcn, Dests, Paths, PathOf, Promised
  <2> QED BY <2>1 DEF G!GatewayNext
<1>3. CASE Promised' # {} /\ Promised = {}
  <2>1. Promised' \in (SUBSET { d \in Dests : PathFcn'[d] \in {"wg-exit", "blackhole"} }) \ {{}}
    BY <1>3 DEF GatewayInv
  <2>2. G!Install
    BY <1>1, <1>3, <2>1 DEF G!Install, G!Routings, G!Closed, PathFcn, Dests, Paths, PathOf, Promised
  <2> QED BY <2>2 DEF G!GatewayNext
<1>4. CASE Promised' # {} /\ Promised # {}
  <2>1. Quiescent /\ Quiescent'
    BY <1>4 DEF Promised
  <2>2. PICK i \in Ifaces : LinkLost(i) \/ LinkForcedDown(i) \/ Roam(i)
    BY <2>1, QuietStep
  <2>3. t100' \subseteq t100 /\ installed' = installed
    BY <2>2, EventRouting
  <2>4. Promised' = Promised
    BY <2>1, <2>3 DEF Promised, Tunnelled, LANAddrs
  <2>5. \/ Table100Egress' = Table100Egress
        \/ Table100Egress = "wg-exit" /\ Table100Egress' = "blackhole"
    BY <2>3 DEF Table100Egress, TunnelIface
  <2>6. \A d \in Promised : \/ PathFcn'[d] = PathFcn[d]
                            \/ PathFcn[d] = "wg-exit" /\ PathFcn'[d] = "blackhole"
    BY <2>4, <2>5 DEF GatewayInv
  <2>7. G!TunnelLost
    BY <1>1, <1>4, <2>4, <2>6 DEF G!TunnelLost, G!Routings, PathFcn, Dests, Paths, PathOf, Promised
  <2> QED BY <2>7 DEF G!GatewayNext
<1> QED BY <1>2, <1>3, <1>4

(* To whoever watches the packets, whatever commands, failures, kills and  *)
(* lost links do to the kernel objects is a gateway that makes its promise *)
(* when an apply has succeeded and keeps it, closing but never opening the *)
(* way to the uplink, until the next command.  Packets without a mark to   *)
(* the direct resolver use the uplink at every moment, if no policy has it *)
(* among the AllowedIPs.  This is the interface the DNS forwarder is       *)
(* proved on (DnsProofs).                                                  *)
THEOREM GatewayImplemented ==
  ASSUME ClearAlone, NoLookalike, SameFirewall \/ KnownFirewall, ResolverOutside
  PROVE  Spec => ImplementsGateway
<1>1. Init => ClosedInv /\ MainInv /\ DefaultInv
  BY ClosedInit, MainInit DEF Init, DefaultInv
<1>2. TypeInv /\ ClosedInv /\ [Next]_vars => ClosedInv'
  BY ClosedStep
<1>3. TypeInv /\ MainInv /\ DefaultInv /\ [Next]_vars => MainInv' /\ DefaultInv'
  BY MainStep, DefaultStep
<1>4. TypeInv /\ ClosedInv /\ MainInv /\ DefaultInv => GatewayInv
  BY GatewayInvHolds
<1>5. Init /\ GatewayInv => G!GatewayInit
  <2> SUFFICES ASSUME Init, GatewayInv PROVE G!GatewayInit
    OBVIOUS
  <2>1. Promised = {}
    BY DEF Init, Promised
  <2> QED BY <2>1 DEF GatewayInv, G!GatewayInit, G!Routings, PathFcn, Dests, Paths, PathOf, Promised
<1>6. TypeInv /\ ClosedInv /\ GatewayInv /\ GatewayInv' /\ [Next]_vars
        => [G!GatewayNext]_(G!gatewayVars)
  <2> SUFFICES ASSUME TypeInv, ClosedInv, GatewayInv, GatewayInv', [Next]_vars
               PROVE  [G!GatewayNext]_(G!gatewayVars)
    OBVIOUS
  <2>1. CASE Next
    BY <2>1, GatewayStep DEF ClosedInv
  <2>2. CASE UNCHANGED vars
    BY <2>2 DEF vars, kernel, procVars, history, G!gatewayVars, Egress, MainEgress, Marked,
                MarkedLocalEgress, UnmarkedLocalEgress, Table100Egress, Quiescent, At
  <2> QED BY <2>1, <2>2
<1> QED BY <1>1, <1>2, <1>3, <1>4, <1>5, <1>6, InitTyped, NextTyped, PTL
        DEF Spec, ImplementsGateway, G!GatewaySpec
=============================================================================
