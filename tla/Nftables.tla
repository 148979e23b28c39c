------------------------------ MODULE Nftables ------------------------------
(***************************************************************************)
(* nftables.Reconcile: list the owned table, leave it alone if it already  *)
(* says what the policy wants, else replace it in one nft -f transaction.  *)
(***************************************************************************)
EXTENDS Runner

CONSTANT SetReference   \* how nft -j prints a reference to a named set

ASSUME SetReferenceAssumption == SetReference \in {"object", "string"}

nftFrame == << sysctl, link, wg, rules, t100, main, phase, pol, n, todo >>

NftEnter(self) == Goto(self, "nft list") /\ UNCHANGED n

-----------------------------------------------------------------------------
(* What is read back from the listing.  nft lists a prefix of one address  *)
(* as the bare address, which elemToCIDR does not take for an element of a *)
(* set, and which matchRightToString takes for an address.  The name of a  *)
(* set is read only from a reference that is a JSON object.                *)
IsHost(c) == \E a \in Hosts : c = {a}

SetElements(s) == { c \in s : ~IsHost(c) }

DAddr(c) == << IF IsHost(c) THEN "addr" ELSE "prefix", c >>

SetNames == IF SetReference = "object" THEN {"home_nets"} ELSE {}

(* countComments and daddrsForComment: the rules a chain has under a       *)
(* comment, and the destinations they match on.                            *)
HasComment(chain, c) == \E i \in DOMAIN chain : chain[i].Comment = c

DAddrsFor(chain, c) ==
  { DAddr(d) : d \in UNION { chain[i].DAddrs :
                              i \in { j \in DOMAIN chain : chain[j].Comment = c } } }

(* liveHasRule, for the rules of each chain: the LANs are compared as      *)
(* prefixes, the endpoint as an address.                                   *)
LivePrerouting(live, want) ==
  /\ HasComment(live, "drop-ipv6")
  /\ DAddrsFor(live, "exclude-lan") = {"prefix"} \X want[2].DAddrs
  /\ DAddrsFor(live, "exclude-endpoint") = {"addr"} \X want[3].DAddrs
  /\ HasComment(live, "mark-non-direct")

LiveForward(live) ==
  HasComment(live, "isolate-inbound-from-home") /\ "home_nets" \in SetNames

(* A comparison that forgets the elements of ru_nets.                      *)
SemanticMatchAnyDirect(t, spec) ==
  /\ spec.home_nets # {} => SetElements(t.home_nets) = spec.home_nets
  /\ LivePrerouting(t.prerouting, spec.prerouting)
  /\ spec.forward # << >> => LiveForward(t.forward)

(* semanticMatchJSON: every set, chain and rule of the spec is live.  What *)
(* is live besides, and the order of the rules, does not matter.           *)
SemanticMatch(t, spec) ==
  /\ SetElements({ {a} : a \in t.ru_nets }) = { {a} : a \in spec.ru_nets }
  /\ spec.home_nets # {} => SetElements(t.home_nets) = spec.home_nets
  /\ LivePrerouting(t.prerouting, spec.prerouting)
  /\ spec.forward # << >> => LiveForward(t.forward)

-----------------------------------------------------------------------------
(* A listing that always leads to "delete table", and one whose failure    *)
(* is taken to mean that there is nothing to do.                           *)
NftListAlwaysDelete(self) ==
  /\ At(self, "nft list")
  /\ \/ /\ Ok /\ nft.exists /\ SemanticMatch(nft, NftSpec(pol[self]))
        /\ Return(self, "ok")
        /\ UNCHANGED seen
     \/ /\ Ok /\ ~(nft.exists /\ SemanticMatch(nft, NftSpec(pol[self])))
        /\ seen' = [seen EXCEPT ![self] = TRUE]
        /\ Goto(self, "nft apply")
        /\ UNCHANGED res
  /\ UNCHANGED << nftFrame, nft, changes >>

NftListFailureIsMatch(self) ==
  /\ At(self, "nft list")
  /\ \/ /\ Fault("nft list") \/ (Ok /\ nft.exists /\ SemanticMatch(nft, NftSpec(pol[self])))
        /\ Return(self, "ok")
        /\ UNCHANGED seen
     \/ /\ Ok /\ ~(nft.exists /\ SemanticMatch(nft, NftSpec(pol[self])))
        /\ seen' = [seen EXCEPT ![self] = nft.exists]
        /\ Goto(self, "nft apply")
        /\ UNCHANGED res
  /\ UNCHANGED << nftFrame, nft, changes >>

NftList(self) ==
  /\ At(self, "nft list")
  /\ \/ /\ Ok /\ nft.exists /\ SemanticMatch(nft, NftSpec(pol[self]))
        /\ Return(self, "ok")
        /\ UNCHANGED seen
     \/ /\ Ok /\ ~(nft.exists /\ SemanticMatch(nft, NftSpec(pol[self])))
        /\ seen' = [seen EXCEPT ![self] = nft.exists]
        /\ Goto(self, "nft apply")
        /\ UNCHANGED res
     \/ /\ Fault("nft list")
        /\ seen' = [seen EXCEPT ![self] = FALSE]
        /\ Goto(self, "nft apply")
        /\ UNCHANGED res
  /\ UNCHANGED << nftFrame, nft, changes >>

(* The transaction starts with "delete table" only if the listing showed   *)
(* the table, and fails as a whole if that table is gone by now, if an "ip *)
(* daddr" statement names an IPv6 endpoint, or if two elements of the      *)
(* interval set home_nets overlap.                                         *)
TransactionValid(self) ==
  LET elements == NftSpec(pol[self]).home_nets
                    \cup (IF seen[self] THEN {} ELSE nft.home_nets)
  IN /\ seen[self] => nft.exists
     /\ pol[self].TunnelEndpoint \in Addr4
     /\ \A a, b \in elements : a = b \/ a \cap b = {}

NftApply(self) ==
  /\ At(self, "nft apply")
  /\ \/ /\ Ok /\ TransactionValid(self)
        /\ nft' = NftBatch(IF seen[self] THEN NoTable ELSE nft, NftSpec(pol[self]))
        /\ Count(self)
        /\ Return(self, "ok")
     \/ Ok /\ ~TransactionValid(self) /\ Return(self, "error") /\ UNCHANGED << nft, changes >>
     \/ Fault("nft apply") /\ Return(self, "error") /\ UNCHANGED << nft, changes >>
  /\ UNCHANGED << nftFrame, seen >>

NftNext(self) == NftList(self) \/ NftApply(self)

(* nftables.Clear *)
ClearNft(self) ==
  /\ At(self, "clear nft")
  /\ \/ Ok /\ nft' = NoTable
     \/ Fault("clear nft") /\ UNCHANGED nft
  /\ UNCHANGED << sysctl, link, wg, rules, t100, main, changes, seen, n, todo >>
=============================================================================
