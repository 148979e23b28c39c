---------------------------- MODULE PrefixProofs ----------------------------
(***************************************************************************)
(* Lemmas about prefixes, for addresses of every width: masking, order,    *)
(* containment, halves of a block, and what makes a set of blocks the best *)
(* one.                                                                    *)
(***************************************************************************)
EXTENDS Prefixes, TLAPS, WellFoundedInduction

(* A set of naturals has a least element.  This takes the place of an      *)
(* induction in all the proofs below.                                      *)
LEMMA LeastNatural ==
  ASSUME NEW T, T \subseteq Nat, T # {}
  PROVE  \E x \in T : \A y \in T : x <= y
<1> DEFINE R == OpToRel(<, Nat)
<1>1. R = { ss \in Nat \X Nat : ss[1] < ss[2] }
  BY DEF OpToRel
<1>2. IsWellFoundedOn(R, Nat)
  BY NatLessThanWellFounded
<1> HIDE DEF R
<1>3. PICK x \in T : \A y \in T : ~(<< y, x >> \in R)
  BY <1>2, WFMin
<1>4. ASSUME NEW y \in T
      PROVE  x <= y
  <2>1. << y, x >> \in Nat \X Nat
    OBVIOUS
  <2>2. ~(<< y, x >> \in { ss \in Nat \X Nat : ss[1] < ss[2] })
    BY <1>1, <1>3
  <2>3. << y, x >>[1] = y /\ << y, x >>[2] = x
    OBVIOUS
  <2>4. ~(<< y, x >>[1] < << y, x >>[2])
    BY <2>1, <2>2
  <2>5. x \in Nat /\ y \in Nat /\ ~(y < x)
    BY <2>3, <2>4
  <2> QED BY <2>5
<1> QED BY <1>4

(* And a greatest one, when there is a bound.                              *)
LEMMA GreatestNatural ==
  ASSUME NEW m \in Nat, NEW T, T \subseteq 0 .. m, T # {}
  PROVE  \E x \in T : \A y \in T : y <= x
<1> DEFINE D == { d \in Nat : m - d \in T }
<1>1. D \subseteq Nat
  OBVIOUS
<1>2. D # {}
  <2>1. PICK t \in T : TRUE
    OBVIOUS
  <2>2. m - t \in Nat /\ m - (m - t) = t
    BY <2>1
  <2> QED BY <2>1, <2>2
<1>3. PICK d \in D : \A e \in D : d <= e
  BY <1>1, <1>2, LeastNatural
<1>4. ASSUME NEW y \in T
      PROVE  y <= m - d
  <2>1. m - y \in Nat /\ m - (m - y) = y /\ y \in 0 .. m
    OBVIOUS
  <2>2. d <= m - y
    BY <1>3, <2>1
  <2> QED BY <2>1, <2>2, <1>3
<1> QED BY <1>3, <1>4

(* Addresses are equal when their bits are.                                *)
LEMMA AddrEqual ==
  ASSUME NEW a \in Addr, NEW b \in Addr, \A k \in 1 .. W : a[k] = b[k]
  PROVE  a = b
<1>1. a = [k \in 1 .. W |-> a[k]] /\ b = [k \in 1 .. W |-> b[k]]
  BY DEF Addr
<1> QED BY <1>1

-----------------------------------------------------------------------------
(* Masking.                                                                *)

(* A masked prefix is a prefix.                                            *)
LEMMA PrefixFromType ==
  ASSUME NEW a \in Addr, NEW b \in 0 .. W
  PROVE  /\ PrefixFrom(a, b) \in Prefix
         /\ PrefixFrom(a, b).bits = b
         /\ PrefixFrom(a, b).addr \in Addr
         /\ \A k \in 1 .. W : PrefixFrom(a, b).addr[k] = IF k <= b THEN a[k] ELSE 0
BY WidthAssumption DEF PrefixFrom, Prefix, Addr

(* Masking twice is masking once.                                          *)
LEMMA MaskedIdempotent ==
  ASSUME NEW a \in Addr, NEW b \in 0 .. W
  PROVE  Masked(PrefixFrom(a, b)) = PrefixFrom(a, b)
<1>1. \A k \in 1 .. W : (IF k <= b THEN PrefixFrom(a, b).addr[k] ELSE 0)
                        = (IF k <= b THEN a[k] ELSE 0)
  BY PrefixFromType
<1>2. PrefixFrom(a, b).bits = b
  BY PrefixFromType
<1> QED BY <1>1, <1>2 DEF Masked, PrefixFrom

(* Masking does not change what a prefix covers.                           *)
LEMMA MaskedCovers ==
  ASSUME NEW a \in Addr, NEW b \in 0 .. W, NEW x \in Addr
  PROVE  Covers(PrefixFrom(a, b), x) <=> \A k \in 1 .. b : x[k] = a[k]
<1>1. \A k \in 1 .. b : k \in 1 .. W /\ k <= b
  BY WidthAssumption
<1> QED BY <1>1, PrefixFromType DEF Covers

(* What blocks are: the prefixes that are masked.                          *)
LEMMA BlockFacts ==
  ASSUME NEW p \in Blocks
  PROVE  /\ p \in Prefix /\ p.addr \in Addr /\ p.bits \in 0 .. W
         /\ Masked(p) = p
         /\ \A k \in 1 .. W : k > p.bits => p.addr[k] = 0
<1>1. PICK q \in Prefix : p = Masked(q)
  BY DEF Blocks
<1>2. q.addr \in Addr /\ q.bits \in 0 .. W
  BY DEF Prefix
<1>3. p = PrefixFrom(q.addr, q.bits)
  BY <1>1 DEF Masked
<1>4. p \in Prefix /\ p.addr \in Addr /\ p.bits \in 0 .. W /\ p.bits = q.bits
  BY <1>2, <1>3, PrefixFromType
<1>5. Masked(p) = p
  BY <1>2, <1>3, MaskedIdempotent
<1>6. \A k \in 1 .. W : k > p.bits => p.addr[k] = 0
  BY <1>2, <1>3, <1>4, PrefixFromType, WidthAssumption
<1> QED BY <1>4, <1>5, <1>6

(* Two ways to say that a prefix is masked.                                *)
LEMMA MaskedAreBlocks == Blocks = { p \in Prefix : Masked(p) = p }
BY BlockFacts DEF Blocks

(* A block covers its own address, so it covers something.                 *)
LEMMA CoversItself ==
  ASSUME NEW p \in Prefix
  PROVE  p.addr \in Addr /\ Covers(p, p.addr)
BY DEF Covers, Prefix

(* Blocks that have an address in common: the shorter contains the longer. *)
LEMMA Comparable ==
  ASSUME NEW p \in Blocks, NEW q \in Prefix, NEW a \in Addr,
         Covers(p, a), Covers(q, a), p.bits <= q.bits
  PROVE  ipv4PrefixContains(p, q)
<1>1. q.addr \in Addr /\ q.bits \in 0 .. W
  BY DEF Prefix
<1>2. p.addr \in Addr /\ p.bits \in 0 .. W /\ p \in Prefix
  BY BlockFacts
<1>3. \A k \in 1 .. p.bits : q.addr[k] = p.addr[k]
  BY <1>1, <1>2 DEF Covers
<1>4. \A k \in 1 .. W : p.addr[k] = IF k <= p.bits THEN q.addr[k] ELSE 0
  BY <1>1, <1>2, <1>3, BlockFacts
<1>5. p.addr = [k \in 1 .. W |-> IF k <= p.bits THEN q.addr[k] ELSE 0]
  BY <1>2, <1>4 DEF Addr
<1>6. p = [addr |-> p.addr, bits |-> p.bits]
  BY <1>2 DEF Prefix
<1>7. PrefixFrom(q.addr, p.bits) = p
  BY <1>5, <1>6 DEF PrefixFrom
<1> QED BY <1>7 DEF ipv4PrefixContains

(* Containment is inclusion of what is covered.                            *)
LEMMA ContainsCovers ==
  ASSUME NEW p \in Prefix, NEW q \in Prefix, ipv4PrefixContains(p, q),
         NEW a \in Addr, Covers(q, a)
  PROVE  Covers(p, a)
<1>1. q.addr \in Addr /\ q.bits \in 0 .. W /\ p.bits \in 0 .. W
  BY DEF Prefix
<1>2. p = PrefixFrom(q.addr, p.bits) /\ p.bits <= q.bits
  BY DEF ipv4PrefixContains
<1>3. \A k \in 1 .. p.bits : a[k] = q.addr[k]
  BY <1>1, <1>2 DEF Covers
<1> QED BY <1>1, <1>2, <1>3, MaskedCovers

(* A block of the same length that contains a block is that block.         *)
LEMMA ContainsSameLength ==
  ASSUME NEW p \in Prefix, NEW q \in Blocks, ipv4PrefixContains(p, q), p.bits = q.bits
  PROVE  p = q
BY BlockFacts DEF ipv4PrefixContains, Masked

(* Containment of blocks is a partial order: transitive, ...               *)
LEMMA ContainsTransitive ==
  ASSUME NEW p \in Blocks, NEW q \in Blocks, NEW r \in Blocks,
         ipv4PrefixContains(p, q), ipv4PrefixContains(q, r)
  PROVE  ipv4PrefixContains(p, r)
<1>1. /\ p \in Prefix /\ q \in Prefix /\ r \in Prefix
      /\ p.bits \in Nat /\ q.bits \in Nat /\ r.bits \in Nat
  BY BlockFacts
<1>2. r.addr \in Addr /\ Covers(r, r.addr)
  BY <1>1, CoversItself
<1>3. Covers(q, r.addr)
  BY <1>1, <1>2, ContainsCovers
<1>4. Covers(p, r.addr)
  BY <1>1, <1>2, <1>3, ContainsCovers
<1>5. p.bits <= r.bits
  BY <1>1 DEF ipv4PrefixContains
<1> QED BY <1>1, <1>2, <1>4, <1>5, Comparable

(* ... reflexive, ...                                                      *)
LEMMA ContainsReflexive ==
  ASSUME NEW p \in Blocks
  PROVE  ipv4PrefixContains(p, p)
BY BlockFacts DEF ipv4PrefixContains, Masked

(* ... and antisymmetric.                                                  *)
LEMMA ContainsAntisymmetric ==
  ASSUME NEW p \in Blocks, NEW q \in Blocks,
         ipv4PrefixContains(p, q), ipv4PrefixContains(q, p)
  PROVE  p = q
<1>1. p \in Prefix /\ p.bits = q.bits
  BY BlockFacts DEF ipv4PrefixContains
<1> QED BY <1>1, ContainsSameLength

-----------------------------------------------------------------------------
(* The order of addresses and of prefixes.                                 *)

(* The order of addresses is strict: irreflexive, ...                      *)
LEMMA AddrLessIrreflexive ==
  ASSUME NEW a \in Addr
  PROVE  ~AddrLess(a, a)
BY WidthAssumption DEF AddrLess, Addr

(* ... transitive, ...                                                     *)
LEMMA AddrLessTransitive ==
  ASSUME NEW a \in Addr, NEW b \in Addr, NEW c \in Addr, AddrLess(a, b), AddrLess(b, c)
  PROVE  AddrLess(a, c)
<1>1. PICK k \in 1 .. W : a[k] < b[k] /\ \A j \in 1 .. k - 1 : a[j] = b[j]
  BY DEF AddrLess
<1>2. PICK m \in 1 .. W : b[m] < c[m] /\ \A j \in 1 .. m - 1 : b[j] = c[j]
  BY DEF AddrLess
<1>3. \A j \in 1 .. W : a[j] \in {0, 1} /\ b[j] \in {0, 1} /\ c[j] \in {0, 1}
  BY DEF Addr
<1>4. CASE k <= m
  <2>1. a[k] < c[k]
    BY <1>1, <1>2, <1>3, <1>4, WidthAssumption
  <2>2. \A j \in 1 .. k - 1 : a[j] = c[j]
    BY <1>1, <1>2, <1>4, WidthAssumption
  <2> QED BY <2>1, <2>2 DEF AddrLess
<1>5. CASE m < k
  <2>1. a[m] < c[m]
    BY <1>1, <1>2, <1>3, <1>5, WidthAssumption
  <2>2. \A j \in 1 .. m - 1 : a[j] = c[j]
    BY <1>1, <1>2, <1>5, WidthAssumption
  <2> QED BY <2>1, <2>2 DEF AddrLess
<1> QED BY <1>4, <1>5, WidthAssumption

(* The first bit in which two addresses differ decides.                    *)
LEMMA FirstDifference ==
  ASSUME NEW a \in Addr, NEW b \in Addr, a # b
  PROVE  \E k \in 1 .. W : a[k] # b[k] /\ \A j \in 1 .. k - 1 : a[j] = b[j]
<1> DEFINE D == { k \in 1 .. W : a[k] # b[k] }
<1>1. D # {}
  <2>1. ~(\A k \in 1 .. W : a[k] = b[k])
    BY AddrEqual
  <2> QED BY <2>1
<1>2. D \subseteq Nat
  BY WidthAssumption
<1>3. PICK k \in D : \A j \in D : k <= j
  BY <1>1, <1>2, LeastNatural
<1>4. \A j \in 1 .. k - 1 : j \in 1 .. W /\ ~(k <= j)
  BY WidthAssumption
<1>5. \A j \in 1 .. k - 1 : a[j] = b[j]
  BY <1>3, <1>4
<1> QED BY <1>5

(* ... and total.                                                          *)
LEMMA AddrLessTotal ==
  ASSUME NEW a \in Addr, NEW b \in Addr, a # b
  PROVE  AddrLess(a, b) \/ AddrLess(b, a)
<1>1. PICK k \in 1 .. W : a[k] # b[k] /\ \A j \in 1 .. k - 1 : a[j] = b[j]
  BY FirstDifference
<1>2. a[k] < b[k] \/ b[k] < a[k]
  BY <1>1 DEF Addr
<1> QED BY <1>1, <1>2 DEF AddrLess

(* So is the order CollapseIPv4 sorts by: irreflexive, ...                 *)
LEMMA LessIrreflexive ==
  ASSUME NEW p \in Prefix
  PROVE  ~Less(p, p)
<1>1. p.addr \in Addr /\ p.bits \in Nat
  BY WidthAssumption DEF Prefix
<1> QED BY <1>1, AddrLessIrreflexive DEF Less

(* ... transitive, ...                                                     *)
LEMMA LessTransitive ==
  ASSUME NEW p \in Prefix, NEW q \in Prefix, NEW r \in Prefix, Less(p, q), Less(q, r)
  PROVE  Less(p, r)
<1>1. /\ p.addr \in Addr /\ q.addr \in Addr /\ r.addr \in Addr
      /\ p.bits \in Nat /\ q.bits \in Nat /\ r.bits \in Nat
  BY WidthAssumption DEF Prefix
<1>2. CASE AddrLess(p.addr, q.addr) /\ AddrLess(q.addr, r.addr)
  BY <1>1, <1>2, AddrLessTransitive DEF Less
<1>3. CASE p.addr = q.addr \/ q.addr = r.addr
  BY <1>1, <1>3 DEF Less
<1> QED BY <1>2, <1>3 DEF Less

(* ... and total.                                                          *)
LEMMA LessTotal ==
  ASSUME NEW p \in Prefix, NEW q \in Prefix, p # q
  PROVE  Less(p, q) \/ Less(q, p)
<1>1. /\ p.addr \in Addr /\ q.addr \in Addr /\ p.bits \in Nat /\ q.bits \in Nat
      /\ p = [addr |-> p.addr, bits |-> p.bits] /\ q = [addr |-> q.addr, bits |-> q.bits]
  BY WidthAssumption DEF Prefix
<1>2. CASE p.addr = q.addr
  <2>1. p.bits # q.bits
    BY <1>1, <1>2
  <2> QED BY <1>1, <1>2, <2>1 DEF Less
<1>3. CASE p.addr # q.addr
  BY <1>1, <1>3, AddrLessTotal DEF Less
<1> QED BY <1>2, <1>3

(* A block comes before those it contains.                                 *)
LEMMA ContainsLess ==
  ASSUME NEW p \in Blocks, NEW q \in Blocks, ipv4PrefixContains(p, q), p # q
  PROVE  Less(p, q)
<1>1. /\ p \in Prefix /\ q \in Prefix /\ p.addr \in Addr /\ q.addr \in Addr
      /\ p.bits \in 0 .. W /\ q.bits \in 0 .. W
  BY BlockFacts
<1>2. p.bits < q.bits
  BY <1>1, ContainsSameLength DEF ipv4PrefixContains
<1>3. CASE p.addr = q.addr
  BY <1>2, <1>3 DEF Less
<1>4. CASE p.addr # q.addr
  <2>1. PICK k \in 1 .. W : p.addr[k] # q.addr[k] /\ \A j \in 1 .. k - 1 : p.addr[j] = q.addr[j]
    BY <1>1, <1>4, FirstDifference
  <2>2. p.addr[k] = IF k <= p.bits THEN q.addr[k] ELSE 0
    BY <1>1, PrefixFromType DEF ipv4PrefixContains
  <2>3. p.addr[k] \in {0, 1} /\ q.addr[k] \in {0, 1}
    BY <1>1 DEF Addr
  <2>4. p.addr[k] < q.addr[k]
    BY <2>1, <2>2, <2>3
  <2> QED BY <2>1, <2>4 DEF Less, AddrLess
<1> QED BY <1>3, <1>4

-----------------------------------------------------------------------------
(* Coverage, and the best set of blocks.                                   *)

(* Two sets of prefixes together cover what each of them covers.           *)
LEMMA CoverageUnion == ASSUME NEW S, NEW T
                       PROVE  Coverage(S \cup T) = Coverage(S) \cup Coverage(T)
BY DEF Coverage

(* One prefix covers its addresses.                                        *)
LEMMA CoverageOne ==
  ASSUME NEW p, NEW a
  PROVE  a \in Coverage({p}) <=> a \in Addr /\ Covers(p, a)
BY DEF Coverage

(* A block is within another if all it covers is covered by the other.     *)
LEMMA InclusionContains ==
  ASSUME NEW p \in Blocks, NEW q \in Blocks, p.bits <= q.bits,
         Coverage({q}) \subseteq Coverage({p})
  PROVE  ipv4PrefixContains(p, q)
<1>1. q \in Prefix
  BY BlockFacts
<1>2. q.addr \in Coverage({q})
  BY <1>1, CoversItself, CoverageOne
<1>3. q.addr \in Coverage({p})
  BY <1>2
<1>4. q.addr \in Addr /\ Covers(p, q.addr) /\ Covers(q, q.addr)
  BY <1>1, <1>3, CoversItself, CoverageOne
<1> QED BY <1>1, <1>4, Comparable

(* The best set of blocks covers what it is the best set for.              *)
LEMMA BestCovers ==
  ASSUME NEW S \in SUBSET Prefix
  PROVE  Coverage(Best(S)) = Coverage(S)
<1> DEFINE C == CoveredBlocks(S)
<1>1. ASSUME NEW a \in Coverage(Best(S))
      PROVE  a \in Coverage(S)
  <2>1. PICK p \in Best(S) : a \in Addr /\ Covers(p, a)
    BY <1>1 DEF Coverage
  <2>2. p \in C
    BY <2>1 DEF Best
  <2>3. Coverage({p}) \subseteq Coverage(S)
    BY <2>2 DEF CoveredBlocks
  <2> QED BY <2>1, <2>3, CoverageOne
<1>2. ASSUME NEW a \in Coverage(S)
      PROVE  a \in Coverage(Best(S))
  <2>1. PICK s \in S : a \in Addr /\ Covers(s, a)
    BY <1>2 DEF Coverage
  <2>2. s.addr \in Addr /\ s.bits \in 0 .. W /\ s \in Prefix
    BY DEF Prefix
  <2>3. Masked(s) \in Blocks
    BY <2>2 DEF Blocks
  <2>4. \A x \in Addr : Covers(Masked(s), x) <=> Covers(s, x)
    BY <2>2, MaskedCovers DEF Covers, Masked
  <2>5. Coverage({Masked(s)}) \subseteq Coverage(S)
    BY <2>4 DEF Coverage
  <2>6. Masked(s) \in C /\ Covers(Masked(s), a)
    BY <2>1, <2>3, <2>4, <2>5 DEF CoveredBlocks
  <2> DEFINE L == { p.bits : p \in { c \in C : Covers(c, a) } }
  <2>7. L # {} /\ L \subseteq Nat
    <3>1. Masked(s).bits \in L
      BY <2>6
    <3>2. \A p \in C : p.bits \in Nat
      BY BlockFacts DEF CoveredBlocks
    <3> QED BY <3>1, <3>2
  <2>8. PICK l \in L : \A m \in L : l <= m
    BY <2>7, LeastNatural
  <2>9. PICK p \in C : Covers(p, a) /\ p.bits = l
    BY <2>8
  <2>10. ASSUME NEW q \in C, ipv4PrefixContains(q, p)
         PROVE  q = p
    <3>1. q \in Blocks /\ p \in Blocks
      BY <2>9 DEF CoveredBlocks
    <3>2. /\ q \in Prefix /\ p \in Prefix
          /\ q.bits \in Nat /\ p.bits \in Nat
      BY <3>1, BlockFacts
    <3>3. Covers(q, a)
      BY <2>1, <2>9, <2>10, <3>2, ContainsCovers
    <3>4. p.bits <= q.bits
      BY <2>8, <2>9, <2>10, <3>3
    <3>5. q.bits = p.bits
      BY <2>10, <3>2, <3>4 DEF ipv4PrefixContains
    <3> QED BY <2>10, <3>1, <3>2, <3>5, ContainsSameLength
  <2>11. p \in Best(S)
    BY <2>9, <2>10 DEF Best
  <2> QED BY <2>1, <2>9, <2>11 DEF Coverage
<1> QED BY <1>1, <1>2

(* It depends on nothing but what is covered.                              *)
LEMMA BestOfCoverage ==
  ASSUME NEW S, NEW T, Coverage(S) = Coverage(T)
  PROVE  Best(S) = Best(T)
BY DEF Best, CoveredBlocks
=============================================================================
