------------------------------ MODULE Routing ------------------------------
(***************************************************************************)
(* routing.Reconcile: the owned ip rule, then the routes of table 100.     *)
(***************************************************************************)
EXTENDS Runner

routingFrame == << sysctl, nft, link, wg, main, phase, pol, seen, todo >>

RoutingEnter(self) == Goto(self, "rule show") /\ UNCHANGED n

(* strings.Contains on the listing of the rules: "100:" is the end of a    *)
(* priority, "fwmark 0x1" the start of a mark, "lookup 100" the start of a *)
(* table, and the three need not come from one rule.                       *)
StartsWith(x, y, base) == \E k \in 0 .. 7 : x \div base^k = y

(* The mark in decimal is not what the listing has.                        *)
RuleListedNever(rs) == FALSE

RuleListed(rs) ==
  /\ \E r \in rs : r.Priority % 1000 = OwnedRule.Priority
  /\ \E r \in rs : StartsWith(r.Mark, OwnedRule.Mark, 16)
  /\ \E r \in rs : StartsWith(r.Table, OwnedRule.Table, 10)

RuleShow(self) ==
  /\ At(self, "rule show")
  /\ \/ Ok /\ RuleListed(rules) /\ Goto(self, "table show")
     \/ Ok /\ ~RuleListed(rules) /\ Goto(self, "rule del")
     \/ Fault("rule show") /\ Goto(self, "rule del")
  /\ UNCHANGED << routingFrame, rules, t100, res, changes, n >>

(* ip rule del priority 100 deletes the first rule of that priority.       *)
DeleteRule ==
  LET at == { r \in rules : r.Priority = OwnedRule.Priority }
  IN IF at = {} THEN UNCHANGED rules
                ELSE \E r \in at : rules' = rules \ {r}

RuleDel(self) ==
  /\ At(self, "rule del")
  /\ \/ Ok /\ DeleteRule
     \/ Fault("rule del") /\ UNCHANGED rules
  /\ Goto(self, "rule add")
  /\ UNCHANGED << routingFrame, t100, res, changes, n >>

(* ip rule add refuses a rule that is there already.                       *)
RuleAdd(self) ==
  /\ At(self, "rule add")
  /\ \/ /\ Ok /\ OwnedRule \notin rules
        /\ rules' = rules \cup {OwnedRule}
        /\ Count(self) /\ Goto(self, "table show") /\ UNCHANGED res
     \/ /\ Ok /\ OwnedRule \in rules
        /\ Return(self, "error") /\ UNCHANGED << rules, changes >>
     \/ /\ Fault("rule add")
        /\ Return(self, "error") /\ UNCHANGED << rules, changes >>
  /\ UNCHANGED << routingFrame, t100, n >>

(* tableRoutesMatch: the same routes, by device and metric.  A table that  *)
(* cannot be shown has none.                                               *)
RangeOf(s) == { s[i] : i \in DOMAIN s }

TableShow(self) ==
  LET same == t100 = RangeOf(RoutesForTunnel(pol[self]))
  IN /\ At(self, "table show")
     /\ \/ Ok /\ same /\ Return(self, "ok")
        \/ Ok /\ ~same /\ Goto(self, "table flush") /\ UNCHANGED res
        \/ Fault("table show") /\ Goto(self, "table flush") /\ UNCHANGED res
     /\ UNCHANGED << routingFrame, rules, t100, changes, n >>

TableFlush(self) ==
  /\ At(self, "table flush")
  /\ \/ Ok /\ t100' = {}
     \/ Fault("table flush") /\ UNCHANGED t100
  /\ Goto(self, "table add")
  /\ n' = [n EXCEPT ![self] = 1]
  /\ UNCHANGED << routingFrame, rules, res, changes >>

(* A device route needs the device to be up.                               *)
RouteValid(rt) == rt.Device \in Ifaces => link[rt.Device] = "up"

(* addRoute: ip route replace, keyed by the metric as all are defaults.    *)
AddRoute(rt) == t100' = { r \in t100 : r.Metric # rt.Metric } \cup {rt}

TableAdd(self) ==
  LET want == RoutesForTunnel(pol[self])
      rt   == want[n[self]]
  IN /\ At(self, "table add")
     /\ \/ /\ Ok /\ RouteValid(rt)
           /\ AddRoute(rt)
           /\ IF n[self] = Len(want)
              THEN Count(self) /\ Return(self, "ok") /\ UNCHANGED n
              ELSE n' = [n EXCEPT ![self] = @ + 1] /\ UNCHANGED << pc, res, changes >>
        \/ /\ Ok /\ ~RouteValid(rt)
           /\ Return(self, "error") /\ UNCHANGED << t100, changes, n >>
        \/ /\ Fault("table add")
           /\ Return(self, "error") /\ UNCHANGED << t100, changes, n >>
     /\ UNCHANGED << routingFrame, rules >>

RoutingNext(self) ==
  \/ RuleShow(self) \/ RuleDel(self) \/ RuleAdd(self)
  \/ TableShow(self) \/ TableFlush(self) \/ TableAdd(self)

(* routing.Clear: two commands.                                            *)
ClearRule(self) ==
  /\ At(self, "clear rule")
  /\ \/ Ok /\ DeleteRule
     \/ Fault("clear rule") /\ UNCHANGED rules
  /\ UNCHANGED << sysctl, nft, link, wg, t100, main, changes, seen, n, todo >>

ClearTable(self) ==
  /\ At(self, "clear table")
  /\ \/ Ok /\ t100' = {}
     \/ Fault("clear table") /\ UNCHANGED t100
  /\ UNCHANGED << sysctl, nft, link, wg, rules, main, changes, seen, n, todo >>
=============================================================================
