----------------------------- MODULE MCCollapse -----------------------------
(***************************************************************************)
(* Addresses of three bits: every list of at most two prefixes, masked or  *)
(* not, in both orders, and every set of three to MaxBlocks blocks, listed *)
(* from the smallest block to the largest.                                 *)
(***************************************************************************)
EXTENDS Collapse, FiniteSetsExt

MaxBlocks == 5

(* The blocks numbered as the nodes of a heap, 1 for the whole space.      *)
Node == [x \in 1 .. 2^(W + 1) - 1 |->
           LET b == CHOOSE b \in 0 .. W : 2^b <= x /\ x < 2^(b + 1)
           IN [addr |-> [k \in 1 .. W |-> IF k <= b THEN ((x - 2^b) \div 2^(b - k)) % 2 ELSE 0],
               bits |-> b]]

Listed(X) == [k \in 1 .. Cardinality(X) |->
                Node[CHOOSE x \in X : Cardinality({ y \in X : y > x }) = k - 1]]

MCInputs ==
  UNION { [1 .. l -> Prefix] : l \in 0 .. 2 }
    \cup { Listed(X) : X \in UNION { kSubset(k, DOMAIN Node) : k \in 3 .. MaxBlocks } }
=============================================================================
