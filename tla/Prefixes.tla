------------------------------ MODULE Prefixes ------------------------------
(***************************************************************************)
(* IPv4 prefixes, what they cover, and the least set of them that covers   *)
(* the same.                                                               *)
(*                                                                         *)
(* An address is the function of its bits, the first one first: 32 in the  *)
(* code, W here.                                                           *)
(***************************************************************************)
EXTENDS Naturals, Sequences

CONSTANT W          \* the width of an address

ASSUME WidthAssumption == W \in Nat

Addr == [1 .. W -> {0, 1}]
Prefix == [addr: Addr, bits: 0 .. W]

(* Operations of netip on prefixes.                                        *)
PrefixFrom(addr, bits) ==
  [addr |-> [k \in 1 .. W |-> IF k <= bits THEN addr[k] ELSE 0], bits |-> bits]

Masked(p) == PrefixFrom(p.addr, p.bits)

AddrLess(a, b) == \E k \in 1 .. W : a[k] < b[k] /\ \A j \in 1 .. k - 1 : a[j] = b[j]

(* The order of the list.                                                  *)
Less(p, q) == AddrLess(p.addr, q.addr) \/ (p.addr = q.addr /\ p.bits < q.bits)

ipv4PrefixContains(outer, inner) ==
  outer.bits <= inner.bits /\ PrefixFrom(inner.addr, outer.bits) = outer

-----------------------------------------------------------------------------
(* What a set of prefixes covers.                                          *)
Covers(p, a) == \A k \in 1 .. p.bits : a[k] = p.addr[k]
Coverage(S) == { a \in Addr : \E p \in S : Covers(p, a) }

Elements(s, from, to) == { s[k] : k \in from .. to }

(* The best that can be done: the blocks that are covered and are not part *)
(* of a larger one that is.                                                *)
Blocks == { Masked(p) : p \in Prefix }
CoveredBlocks(S) == { p \in Blocks : Coverage({p}) \subseteq Coverage(S) }
Best(S) ==
  LET C == CoveredBlocks(S)
  IN { p \in C : \A q \in C : ipv4PrefixContains(q, p) => q = p }
=============================================================================
