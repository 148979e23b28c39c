--------------------------- MODULE CollapseProofs ---------------------------
(***************************************************************************)
(* Theorems about CollapseIPv4, for addresses of every width and every     *)
(* list of prefixes: its values keep their types, no address is gained or  *)
(* lost at any point, and the result is the minimal list.                  *)
(***************************************************************************)
EXTENDS Collapse, PrefixProofs, SequenceTheorems

(* Blocks with no address in common, the first one before the second.      *)
Disjoint(p, q) == \A a \in Addr : ~(Covers(p, a) /\ Covers(q, a))
Before(p, q) == Less(p, q) /\ Disjoint(p, q)

(* The variables of the loops that do not run are at rest.                 *)
AtRest ==
  /\ pc \in {"normalize", "sort"} => i = 1
  /\ pc \in {"normalize", "sort", "dedupe"} => out = << >>
  /\ pc # "dedupe" => n = 0
  /\ pc = "reduce" => Len(out) > 0
  /\ pc = "done" => i = Len(list) + 1

(* In the loop that drops repetitions: what is kept is in strict order, and *)
(* comes before what is still to be read, which is in order.               *)
DedupeOrder ==
  pc = "dedupe" =>
    /\ \A j, k \in 1 .. n : j < k => Less(list[j], list[k])
    /\ \A j \in 1 .. n, k \in i .. Len(list) : ~Less(list[k], list[j])
    /\ \A j, k \in i .. Len(list) : j < k => ~Less(list[k], list[j])

(* In the loop that drops covered prefixes.                                *)
UncoverOrder ==
  pc = "uncover" =>
    /\ \A j, k \in 1 .. Len(list) : j < k => Less(list[j], list[k])
    /\ \A j \in 1 .. Len(out), k \in i .. Len(list) : Less(out[j], list[k])
    /\ \A j, k \in 1 .. Len(out) : j < k => Before(out[j], out[k])

(* While the stack is built: what is on it and what is still to be pushed  *)
(* is in order and disjoint.                                               *)
StackOrder ==
  pc \in {"push", "reduce", "done"} =>
    /\ \A j, k \in 1 .. Len(out) : j < k => Before(out[j], out[k])
    /\ \A j \in 1 .. Len(out), k \in i .. Len(list) : Before(out[j], list[k])
    /\ \A j, k \in i .. Len(list) : j < k => Before(list[j], list[k])

(* No two neighbours on the stack are halves of a block, but for the two   *)
(* on top while these are being looked at.                                 *)
StackReduced ==
  /\ pc \in {"push", "done"} =>
       \A k \in 1 .. Len(out) - 1 : ~mergeIPv4Siblings(out[k], out[k + 1])
  /\ pc = "reduce" =>
       \A k \in 1 .. Len(out) - 2 : ~mergeIPv4Siblings(out[k], out[k + 1])

OrderInv == DedupeOrder /\ UncoverOrder /\ StackOrder /\ StackReduced

TypeInv == CollapseTypeOK /\ AtRest

-----------------------------------------------------------------------------
(* The types, with the set of blocks for the prefixes that are masked.     *)
Types ==
  /\ pc \in {"normalize", "sort", "dedupe", "uncover", "push", "reduce", "done"}
  /\ input \in Seq(Prefix)
  /\ pc = "normalize" => list \in Seq(Prefix)
  /\ pc # "normalize" => list \in Seq(Blocks)
  /\ out \in Seq(Blocks)
  /\ i \in 1 .. Len(list) + 1
  /\ n \in 0 .. i - 1

(* Types says the same as CollapseTypeOK, with the blocks by their name.   *)
LEMMA TypesForm == CollapseTypeOK <=> Types
BY MaskedAreBlocks DEF CollapseTypeOK, Types

(* The slices of CollapseIPv4 are sequences, and have a length.            *)
LEMMA ListIsASequence == Types => list \in Seq(Prefix) /\ Len(list) \in Nat /\ Len(out) \in Nat
<1>1. Blocks \subseteq Prefix
  BY BlockFacts
<1>2. ASSUME list \in Seq(Blocks) PROVE list \in Seq(Prefix)
  BY <1>1, <1>2, SeqMonotonic
<1> QED BY <1>2, LenProperties DEF Types

(* Two neighbours of the list are exchanged.                               *)
Exchange(k) == list' = [list EXCEPT ![k] = list[k + 1], ![k + 1] = list[k]]

(* While there is an inversion, a step of sort.Slice exchanges two         *)
(* neighbours.                                                             *)
LEMMA SortExchanges ==
  ASSUME Sort, Inversions # {}, Types
  PROVE  pc' = pc /\ \E k \in Inversions : Exchange(k)
<1>1. Inversions \subseteq Nat
  BY ListIsASequence DEF Inversions
<1>2. \E k \in Inversions : \A j \in Inversions : k <= j
  BY <1>1, LeastNatural
<1> DEFINE c == CHOOSE k \in Inversions : \A j \in Inversions : k <= j
<1>3. c \in Inversions
  BY <1>2
<1>4. pc' = pc /\ Exchange(c)
  BY DEF Sort, Exchange
<1> HIDE DEF c
<1> QED BY <1>3, <1>4

(* What the exchange of two neighbours does to a list, element by element. *)
LEMMA ExchangeFacts ==
  ASSUME NEW S, list \in Seq(S), NEW k \in 1 .. Len(list) - 1, Exchange(k)
  PROVE  /\ list' \in Seq(S) /\ Len(list') = Len(list)
         /\ list'[k] = list[k + 1] /\ list'[k + 1] = list[k]
         /\ \A j \in 1 .. Len(list) : j # k /\ j # k + 1 => list'[j] = list[j]
<1>1. /\ Len(list) \in Nat /\ k \in 1 .. Len(list) /\ k + 1 \in 1 .. Len(list)
      /\ list[k] \in S /\ list[k + 1] \in S
  BY LenProperties, ElementOfSeq
<1> DEFINE l1 == [list EXCEPT ![k] = list[k + 1]]
<1>2. /\ l1 \in Seq(S) /\ Len(l1) = Len(list)
      /\ \A j \in 1 .. Len(list) : l1[j] = IF j = k THEN list[k + 1] ELSE list[j]
  BY <1>1, ExceptSeq
<1>3. list' = [l1 EXCEPT ![k + 1] = list[k]]
  BY DEF Exchange
<1> HIDE DEF l1
<1>4. /\ list' \in Seq(S) /\ Len(list') = Len(l1)
      /\ \A j \in 1 .. Len(l1) : list'[j] = IF j = k + 1 THEN list[k] ELSE l1[j]
  BY <1>1, <1>2, <1>3, ExceptSeq
<1> QED BY <1>1, <1>2, <1>4

(* A sequence cut after some of its elements.                              *)
LEMMA FirstElements ==
  ASSUME NEW S, NEW s, NEW m \in Nat, \A k \in 1 .. m : s[k] \in S
  PROVE  /\ SubSeq(s, 1, m) \in Seq(S)
         /\ Len(SubSeq(s, 1, m)) = m
         /\ \A k \in 1 .. m : SubSeq(s, 1, m)[k] = s[k]
<1>1. /\ SubSeq(s, 1, m) \in Seq(S)
      /\ Len(SubSeq(s, 1, m)) = IF 1 <= m THEN m - 1 + 1 ELSE 0
      /\ \A k \in 1 .. m - 1 + 1 : SubSeq(s, 1, m)[k] = s[1 + k - 1]
  BY SubSeqProperties
<1>2. m - 1 + 1 = m /\ \A k \in 1 .. m : 1 + k - 1 = k
  OBVIOUS
<1> QED BY <1>1, <1>2

(* The parent of a block is a block.                                       *)
LEMMA ParentType ==
  ASSUME NEW p \in Blocks, p.bits # 0
  PROVE  /\ Parent(p) \in Blocks
         /\ Parent(p).bits = p.bits - 1
         /\ \A k \in 1 .. W : Parent(p).addr[k] = IF k < p.bits THEN p.addr[k] ELSE 0
<1>0. p.addr \in Addr /\ p.bits \in 0 .. W
  BY BlockFacts
<1>1. p.addr \in Addr /\ p.bits - 1 \in 0 .. W /\ p.bits \in Nat
  BY <1>0, WidthAssumption
<1>2. Parent(p) \in Prefix /\ Masked(Parent(p)) = Parent(p) /\ Parent(p).bits = p.bits - 1
  BY <1>1, PrefixFromType, MaskedIdempotent DEF Parent
<1>3. \A k \in 1 .. W : Parent(p).addr[k] = IF k <= p.bits - 1 THEN p.addr[k] ELSE 0
  BY <1>1, PrefixFromType DEF Parent
<1> QED BY <1>1, <1>2, <1>3, MaskedAreBlocks, WidthAssumption

(* What is on the stack after a merge.                                     *)
LEMMA MergedTopFacts ==
  ASSUME Types, Mergeable
  PROVE  /\ Below \in Blocks /\ Top \in Blocks /\ Top.bits # 0
         /\ Parent(Top) \in Blocks
         /\ Len(out) - 1 \in 1 .. Len(out)
         /\ MergedTop \in Seq(Blocks) /\ Len(MergedTop) = Len(out) - 1
         /\ MergedTop[Len(out) - 1] = Parent(Top)
         /\ \A k \in 1 .. Len(out) - 2 : MergedTop[k] = out[k]
<1>1. out \in Seq(Blocks) /\ Len(out) \in Nat /\ Len(out) >= 2
  BY LenProperties DEF Types, Mergeable
<1>2. Below \in Blocks /\ Top \in Blocks
  BY <1>1, ElementOfSeq DEF Below, Top
<1>3. Top.bits # 0
  BY DEF Mergeable, mergeIPv4Siblings
<1>4. Parent(Top) \in Blocks
  BY <1>2, <1>3, ParentType
<1> DEFINE m == Len(out) - 2
           s == SubSeq(out, 1, m)
<1>5. m \in Nat /\ \A k \in 1 .. m : out[k] \in Blocks
  BY <1>1, ElementOfSeq
<1>6. /\ s \in Seq(Blocks)
      /\ Len(s) = m
      /\ \A k \in 1 .. m : s[k] = out[k]
  <2> HIDE DEF m
  <2> QED BY <1>5, FirstElements
<1>7. MergedTop = Append(s, Parent(Top))
  BY DEF MergedTop
<1> HIDE DEF s
<1> QED BY <1>1, <1>2, <1>3, <1>4, <1>6, <1>7, AppendProperties

(* Every step keeps the types.                                             *)
LEMMA TypeStep == TypeInv /\ [Next]_vars => TypeInv'
<1> SUFFICES ASSUME Types, AtRest, [Next]_vars
             PROVE  Types' /\ AtRest'
  BY MaskedAreBlocks DEF TypeInv, CollapseTypeOK, Types
<1>0. /\ Len(list) \in Nat /\ Len(out) \in Nat /\ list \in Seq(Prefix)
      /\ i \in Nat /\ n \in Nat
  BY ListIsASequence DEF Types
<1>1. CASE Normalize
  <2>1. \A k \in 1 .. Len(list) : Masked(list[k]) \in Blocks
    BY <1>0, ElementOfSeq DEF Blocks
  <2>2. list' \in Seq(Blocks) /\ Len(list') = Len(list)
    BY <1>0, <1>1, <2>1 DEF Normalize
  <2> QED BY <1>0, <1>1, <2>2 DEF Normalize, Types, AtRest
<1>2. CASE Sort
  <2>1. CASE Inversions # {}
    <3>1. PICK k \in Inversions : Exchange(k)
      BY <1>2, <2>1, SortExchanges
    <3>2. k \in 1 .. Len(list) - 1
      BY DEF Inversions
    <3>3. pc = "sort" /\ pc' = "sort" /\ list \in Seq(Blocks)
      BY <1>2, <2>1, SortExchanges DEF Sort, Types
    <3>4. list' \in Seq(Blocks) /\ Len(list') = Len(list)
      BY <3>1, <3>2, <3>3, ExchangeFacts
    <3> QED BY <1>2, <3>3, <3>4 DEF Sort, Types, AtRest
  <2>2. CASE Inversions = {}
    BY <1>2, <2>2 DEF Sort, Types, AtRest
  <2> QED BY <2>1, <2>2
<1>3. CASE Dedupe
  <2>1. list \in Seq(Blocks) /\ out = << >> /\ pc = "dedupe"
    BY <1>3 DEF Dedupe, Types, AtRest
  <2>2. CASE i <= Len(list)
    <3>1. n + 1 \in 1 .. Len(list) /\ i \in 1 .. Len(list) /\ n + 1 \in 0 .. i
      BY <1>0, <2>2 DEF Types
    <3>2. list[i] \in Blocks
      BY <2>1, <3>1, ElementOfSeq
    <3>3. /\ [list EXCEPT ![n + 1] = list[i]] \in Seq(Blocks)
          /\ Len([list EXCEPT ![n + 1] = list[i]]) = Len(list)
      BY <2>1, <3>1, <3>2, ExceptSeq
    <3>4. /\ \/ UNCHANGED << list, n >>
             \/ list' = [list EXCEPT ![n + 1] = list[i]] /\ n' = n + 1
          /\ i' = i + 1 /\ UNCHANGED << pc, input, out >>
      BY <1>0, <1>3, <2>2 DEF Dedupe
    <3>5. n \in 0 .. i
      BY <1>0 DEF Types
    <3>6. list' \in Seq(Blocks) /\ Len(list') = Len(list) /\ n' \in 0 .. i
      BY <2>1, <3>1, <3>3, <3>4, <3>5
    <3> QED BY <1>0, <2>1, <2>2, <3>4, <3>6 DEF Types, AtRest
  <2>3. CASE i > Len(list)
    <3>1. \A k \in 1 .. n : list[k] \in Blocks
      BY <1>0, <2>1, ElementOfSeq DEF Types
    <3>2. SubSeq(list, 1, n) \in Seq(Blocks) /\ Len(SubSeq(list, 1, n)) = n
      BY <1>0, <3>1, FirstElements
    <3>3. /\ list' = SubSeq(list, 1, n) /\ i' = 1 /\ n' = 0 /\ pc' = "uncover"
          /\ UNCHANGED << input, out >>
      BY <1>0, <1>3, <2>3 DEF Dedupe
    <3> QED BY <1>0, <2>1, <3>2, <3>3 DEF Types, AtRest
  <2> QED BY <1>0, <2>2, <2>3 DEF Types
<1>4. CASE RemoveCovered
  <2>1. list \in Seq(Blocks) /\ pc = "uncover" /\ out \in Seq(Blocks)
    BY <1>4 DEF RemoveCovered, Types
  <2>2. CASE i <= Len(list)
    <3>1. list[i] \in Blocks
      BY <1>0, <2>1, <2>2, ElementOfSeq DEF Types
    <3>2. Append(out, list[i]) \in Seq(Blocks)
      BY <2>1, <3>1, AppendProperties
    <3>3. /\ out' \in {out, Append(out, list[i])} /\ i' = i + 1
          /\ UNCHANGED << pc, input, list, n >>
      BY <1>0, <1>4, <2>2 DEF RemoveCovered
    <3>4. n = 0
      BY <2>1 DEF AtRest
    <3> QED BY <1>0, <2>1, <2>2, <3>2, <3>3, <3>4 DEF Types, AtRest
  <2>3. CASE i > Len(list)
    <3>1. /\ list' = out /\ out' = << >> /\ i' = 1 /\ pc' = "push"
          /\ UNCHANGED << input, n >>
      BY <1>0, <1>4, <2>3 DEF RemoveCovered
    <3>2. n = 0
      BY <2>1 DEF AtRest
    <3> QED BY <1>0, <2>1, <3>1, <3>2 DEF Types, AtRest
  <2> QED BY <1>0, <2>2, <2>3 DEF Types
<1>5. CASE Push
  <2>1. list \in Seq(Blocks) /\ pc = "push" /\ out \in Seq(Blocks)
    BY <1>5 DEF Push, Types
  <2>2. CASE i <= Len(list)
    <3>1. list[i] \in Blocks
      BY <1>0, <2>1, <2>2, ElementOfSeq DEF Types
    <3>2. /\ Append(out, list[i]) \in Seq(Blocks)
          /\ Len(Append(out, list[i])) = Len(out) + 1
      BY <2>1, <3>1, AppendProperties
    <3>3. /\ out' = Append(out, list[i]) /\ i' = i + 1 /\ pc' = "reduce"
          /\ UNCHANGED << input, list, n >>
      BY <1>0, <1>5, <2>2 DEF Push
    <3>4. n = 0
      BY <2>1 DEF AtRest
    <3> QED BY <1>0, <2>1, <2>2, <3>2, <3>3, <3>4 DEF Types, AtRest
  <2>3. CASE i > Len(list)
    BY <1>0, <1>5, <2>1, <2>3 DEF Push, Types, AtRest
  <2> QED BY <1>0, <2>2, <2>3 DEF Types
<1>6. CASE Reduce
  <2>1. CASE Mergeable
    <3>1. out' \in Seq(Blocks) /\ Len(out') > 0
      BY <1>0, <1>6, <2>1, MergedTopFacts DEF Reduce
    <3> QED BY <1>0, <1>6, <2>1, <3>1 DEF Reduce, Types, AtRest
  <2>2. CASE ~Mergeable
    BY <1>6, <2>2 DEF Reduce, Types, AtRest
  <2> QED BY <2>1, <2>2
<1>7. CASE UNCHANGED vars
  BY <1>7 DEF vars, Types, AtRest
<1> QED
  BY <1>1, <1>2, <1>3, <1>4, <1>5, <1>6, <1>7 DEF Next, Step, Done

(* The type invariant holds of every list CollapseIPv4 is called with.     *)
LEMMA TypeInitially == Init => TypeInv
<1> SUFFICES ASSUME Init PROVE Types /\ AtRest
  BY TypesForm DEF TypeInv
<1>1. input \in Seq(Prefix) /\ Len(input) \in Nat
  BY InputsAssumption, LenProperties DEF Init
<1>2. out \in Seq(Blocks)
  BY EmptySeq DEF Init
<1> QED BY <1>1, <1>2 DEF Init, Types, AtRest

(* All values CollapseIPv4 works on are in their range: after the first    *)
(* loop every prefix is masked, and deduped, which is written to the array *)
(* that is being read, never overtakes the element that is read.           *)
THEOREM CollapseTypeCorrect == Spec => []CollapseTypeOK
<1>1. TypeInv => CollapseTypeOK
  BY DEF TypeInv
<1> QED BY TypeInitially, TypeStep, <1>1, PTL DEF Spec

-----------------------------------------------------------------------------
(* The halves of a block.                                                  *)

(* The two halves of the parent of a block are blocks of its length, and   *)
(* differ in their last bit only.                                          *)
LEMMA Halves ==
  ASSUME NEW p \in Blocks, p.bits # 0
  PROVE  /\ Left(p) \in Blocks /\ Left(p).bits = p.bits
         /\ Left(p).addr = Parent(p).addr
         /\ Right(p) \in Blocks /\ Right(p).bits = p.bits
         /\ \A k \in 1 .. W : Right(p).addr[k] = IF k = p.bits THEN 1 ELSE Parent(p).addr[k]
<1>1. p.bits \in 0 .. W /\ p.bits \in Nat /\ p.bits \in 1 .. W
  BY BlockFacts, WidthAssumption
<1>2. /\ Parent(p) \in Blocks
      /\ Parent(p).addr \in Addr
      /\ \A k \in 1 .. W : Parent(p).addr[k] = IF k < p.bits THEN p.addr[k] ELSE 0
  BY ParentType, BlockFacts
<1>3. Left(p) \in Blocks /\ Left(p).bits = p.bits /\ Left(p).addr \in Addr
  BY <1>1, <1>2, PrefixFromType, MaskedIdempotent, MaskedAreBlocks DEF Left
<1>4. \A k \in 1 .. W : Left(p).addr[k] = Parent(p).addr[k]
  BY <1>1, <1>2, PrefixFromType, WidthAssumption DEF Left
<1>5. Left(p).addr = Parent(p).addr
  BY <1>2, <1>3, <1>4, AddrEqual
<1> DEFINE r == [Parent(p).addr EXCEPT ![p.bits] = 1]
<1>6. r \in Addr /\ \A k \in 1 .. W : r[k] = IF k = p.bits THEN 1 ELSE Parent(p).addr[k]
  BY <1>1, <1>2 DEF Addr
<1>7. Right(p) = PrefixFrom(r, p.bits)
  BY DEF Right
<1> HIDE DEF r
<1>8. Right(p) \in Blocks /\ Right(p).bits = p.bits
  BY <1>1, <1>6, <1>7, PrefixFromType, MaskedIdempotent, MaskedAreBlocks
<1>9. \A k \in 1 .. W : Right(p).addr[k] = IF k <= p.bits THEN r[k] ELSE 0
  BY <1>1, <1>6, <1>7, PrefixFromType
<1>10. \A k \in 1 .. W : Right(p).addr[k] = IF k = p.bits THEN 1 ELSE Parent(p).addr[k]
  BY <1>1, <1>2, <1>6, <1>9, WidthAssumption
<1> QED BY <1>3, <1>5, <1>8, <1>10

(* A block is one half or the other of its parent.                         *)
LEMMA OneOfTheHalves ==
  ASSUME NEW p \in Blocks, p.bits # 0
  PROVE  p = Left(p) \/ p = Right(p)
<1>1. /\ p.addr \in Addr /\ p.bits \in 1 .. W
      /\ \A k \in 1 .. W : k > p.bits => p.addr[k] = 0
  BY BlockFacts, WidthAssumption
<1>2. \A k \in 1 .. W : Parent(p).addr[k] = IF k < p.bits THEN p.addr[k] ELSE 0
  BY ParentType
<1>3. /\ Left(p).addr \in Addr /\ Right(p).addr \in Addr
      /\ Left(p) \in Prefix /\ Right(p) \in Prefix /\ p \in Prefix
      /\ Left(p).bits = p.bits /\ Right(p).bits = p.bits
  BY Halves, BlockFacts
<1>4. p.addr[p.bits] \in {0, 1}
  BY <1>1 DEF Addr
<1>5. CASE p.addr[p.bits] = 0
  <2>1. \A k \in 1 .. W : p.addr[k] = Left(p).addr[k]
    BY <1>1, <1>2, <1>5, Halves, WidthAssumption
  <2>2. p.addr = Left(p).addr
    BY <1>1, <1>3, <2>1, AddrEqual
  <2> QED BY <1>3, <2>2 DEF Prefix
<1>6. CASE p.addr[p.bits] = 1
  <2>1. \A k \in 1 .. W : p.addr[k] = Right(p).addr[k]
    BY <1>1, <1>2, <1>6, Halves, WidthAssumption
  <2>2. p.addr = Right(p).addr
    BY <1>1, <1>3, <2>1, AddrEqual
  <2> QED BY <1>3, <2>2 DEF Prefix
<1> QED BY <1>4, <1>5, <1>6

(* The halves cover what the parent covers, and no more.                   *)
LEMMA HalvesCover ==
  ASSUME NEW p \in Blocks, p.bits # 0, NEW x \in Addr
  PROVE  Covers(Parent(p), x) <=> Covers(Left(p), x) \/ Covers(Right(p), x)
<1>1. p.bits \in 1 .. W /\ p.bits \in Nat
  BY BlockFacts, WidthAssumption
<1>2. Parent(p).bits = p.bits - 1
  BY ParentType
<1>3. \A k \in 1 .. W : Parent(p).addr[k] = IF k < p.bits THEN p.addr[k] ELSE 0
  BY ParentType
<1>4. x[p.bits] \in {0, 1}
  BY <1>1 DEF Addr
<1>5. \A k \in 1 .. p.bits : k \in 1 .. W
  BY <1>1, WidthAssumption
<1>6. Covers(Parent(p), x) <=> \A k \in 1 .. p.bits - 1 : x[k] = Parent(p).addr[k]
  BY <1>2 DEF Covers
<1>7. Covers(Left(p), x) <=> \A k \in 1 .. p.bits : x[k] = Parent(p).addr[k]
  BY Halves DEF Covers
<1>8. Covers(Right(p), x) <=>
        \A k \in 1 .. p.bits : x[k] = IF k = p.bits THEN 1 ELSE Parent(p).addr[k]
  BY <1>5, Halves DEF Covers
<1>9. Parent(p).addr[p.bits] = 0
  BY <1>1, <1>3
<1> QED BY <1>1, <1>4, <1>6, <1>7, <1>8, <1>9

(* Two blocks that are merged are the halves of one, in either order.      *)
LEMMA MergeFacts ==
  ASSUME NEW a \in Blocks, NEW b \in Blocks, mergeIPv4Siblings(a, b)
  PROVE  /\ a.bits # 0 /\ b.bits # 0 /\ a.bits = b.bits /\ Parent(a) = Parent(b)
         /\ \/ a = Left(a) /\ b = Right(a)
            \/ b = Left(b) /\ a = Right(b)
BY DEF mergeIPv4Siblings

(* A merge of two siblings covers what the two covered: no address is      *)
(* gained or lost.                                                         *)
LEMMA MergeCovers ==
  ASSUME NEW a \in Blocks, NEW b \in Blocks, mergeIPv4Siblings(a, b), NEW x \in Addr
  PROVE  Covers(Parent(b), x) <=> Covers(a, x) \/ Covers(b, x)
BY MergeFacts, HalvesCover

-----------------------------------------------------------------------------
(* No address is gained or lost.                                           *)

(* What the elements of a sequence cover.                                  *)
LEMMA ElementsCover ==
  ASSUME NEW s, NEW from, NEW to, NEW a
  PROVE  a \in Coverage(Elements(s, from, to)) <=>
           a \in Addr /\ \E k \in from .. to : Covers(s[k], a)
BY DEF Coverage, Elements

(* Where an address that is covered may be found.                          *)
Found(a) ==
  \/ pc = "dedupe" /\ \E k \in 1 .. n : Covers(list[k], a)
  \/ pc # "dedupe" /\ \E k \in 1 .. Len(out) : Covers(out[k], a)
  \/ \E k \in i .. Len(list) : Covers(list[k], a)

(* An address is covered by what the loops still hold if and only if one   *)
(* of their slices has a prefix for it.                                    *)
LEMMA LiveCovers ==
  ASSUME NEW a \in Addr
  PROVE  a \in Coverage(Live) <=> Found(a)
<1>1. CASE pc = "dedupe"
  <2>1. Live = Elements(list, 1, n) \cup Elements(list, i, Len(list))
    BY <1>1 DEF Live
  <2>2. a \in Coverage(Live) <=> \/ a \in Coverage(Elements(list, 1, n))
                                 \/ a \in Coverage(Elements(list, i, Len(list)))
    BY <2>1, CoverageUnion
  <2> QED BY <1>1, <2>2, ElementsCover DEF Found
<1>2. CASE pc # "dedupe"
  <2>1. Live = Elements(out, 1, Len(out)) \cup Elements(list, i, Len(list))
    BY <1>2 DEF Live
  <2>2. a \in Coverage(Live) <=> \/ a \in Coverage(Elements(out, 1, Len(out)))
                                 \/ a \in Coverage(Elements(list, i, Len(list)))
    BY <2>1, CoverageUnion
  <2> QED BY <1>2, <2>2, ElementsCover DEF Found
<1> QED BY <1>1, <1>2

(* The same, as an equation of sets.                                       *)
LEMMA LiveCoverage == Coverage(Live) = { a \in Addr : Found(a) }
BY LiveCovers DEF Coverage

(* A step finds the same addresses.                                        *)
LEMMA FoundStep ==
  ASSUME TypeInv, [Next]_vars, NEW a \in Addr
  PROVE  Found(a)' <=> Found(a)
<1>0. /\ Types /\ AtRest
      /\ Len(list) \in Nat /\ Len(out) \in Nat /\ list \in Seq(Prefix)
      /\ i \in Nat /\ i >= 1 /\ n \in Nat
  BY TypesForm, ListIsASequence DEF TypeInv, Types
<1>1. CASE Normalize
  <2>1. /\ pc = "normalize" /\ pc' = "sort" /\ out = << >> /\ out' = << >>
        /\ list' = [k \in 1 .. Len(list) |-> Masked(list[k])]
        /\ i = 1 /\ i' = 1
    BY <1>0, <1>1 DEF Normalize, AtRest
  <2>2. Len(list') = Len(list)
    BY <1>0, <2>1
  <2>3. ASSUME NEW k \in 1 .. Len(list)
        PROVE  Covers(list'[k], a) <=> Covers(list[k], a)
    <3>1. list[k] \in Prefix
      BY <1>0, ElementOfSeq
    <3>2. list[k].addr \in Addr /\ list[k].bits \in 0 .. W
      BY <3>1 DEF Prefix
    <3>3. list'[k] = PrefixFrom(list[k].addr, list[k].bits)
      BY <2>1 DEF Masked
    <3>4. Covers(list'[k], a)
            <=> \A j \in 1 .. list[k].bits : a[j] = list[k].addr[j]
      BY <3>2, <3>3, MaskedCovers
    <3>5. Covers(list[k], a)
            <=> \A j \in 1 .. list[k].bits : a[j] = list[k].addr[j]
      BY DEF Covers
    <3> QED BY <3>4, <3>5
  <2> QED BY <2>1, <2>2, <2>3 DEF Found
<1>2. CASE Sort
  <2>1. CASE Inversions # {}
    <3>1. PICK k \in Inversions : Exchange(k)
      BY <1>0, <1>2, <2>1, SortExchanges
    <3>2. k \in 1 .. Len(list) - 1 /\ k \in 1 .. Len(list) /\ k + 1 \in 1 .. Len(list)
      BY <1>0 DEF Inversions
    <3>3. /\ pc = "sort" /\ pc' = "sort" /\ i = 1 /\ i' = 1 /\ out = << >> /\ out' = << >>
      BY <1>0, <1>2, <2>1, SortExchanges DEF Sort, AtRest
    <3>4. /\ Len(list') = Len(list)
          /\ list'[k] = list[k + 1] /\ list'[k + 1] = list[k]
          /\ \A j \in 1 .. Len(list) : j # k /\ j # k + 1 => list'[j] = list[j]
      BY <1>0, <3>1, <3>2, ExchangeFacts
    <3>5. (\E j \in 1 .. Len(list) : Covers(list'[j], a))
             <=> \E j \in 1 .. Len(list) : Covers(list[j], a)
      BY <3>2, <3>4
    <3> QED BY <3>3, <3>4, <3>5 DEF Found
  <2>2. CASE Inversions = {}
    <3>1. /\ pc = "sort" /\ pc' = "dedupe" /\ out = << >> /\ list' = list
          /\ i' = i /\ n = 0 /\ n' = 0
      BY <1>0, <1>2, <2>2 DEF Sort, AtRest
    <3> QED BY <3>1 DEF Found
  <2> QED BY <2>1, <2>2
<1>3. CASE Dedupe
  <2>1. list \in Seq(Blocks) /\ out = << >> /\ pc = "dedupe" /\ n < i /\ i <= Len(list) + 1
    BY <1>0, <1>3 DEF Dedupe, Types, AtRest
  <2>2. CASE i <= Len(list)
    <3>1. n + 1 \in 1 .. Len(list) /\ i \in 1 .. Len(list) /\ n + 1 <= i
      BY <1>0, <2>1, <2>2
    <3>2. pc' = "dedupe" /\ i' = i + 1
      BY <1>0, <1>3, <2>2 DEF Dedupe
    <3>3. \A k \in i .. Len(list) : k = i \/ k \in i + 1 .. Len(list)
      BY <1>0
    <3>4. CASE n > 0 /\ list[n] = list[i]
      <4>1. list' = list /\ n' = n
        BY <1>0, <1>3, <2>2, <3>4 DEF Dedupe
      <4>2. n \in 1 .. n /\ i \in i .. Len(list)
        BY <1>0, <2>2, <3>4
      <4>3. (\E k \in i .. Len(list) : Covers(list[k], a))
              <=> Covers(list[n], a) \/ \E k \in i + 1 .. Len(list) : Covers(list[k], a)
        BY <1>0, <3>3, <3>4, <4>2
      <4> QED BY <2>1, <3>2, <4>1, <4>2, <4>3 DEF Found
    <3>5. CASE ~(n > 0 /\ list[n] = list[i])
      <4>1. list' = [list EXCEPT ![n + 1] = list[i]] /\ n' = n + 1
        BY <1>0, <1>3, <2>2, <3>5 DEF Dedupe
      <4>2. list[i] \in Blocks
        BY <2>1, <3>1, ElementOfSeq
      <4>3. /\ Len(list') = Len(list)
            /\ \A j \in 1 .. Len(list) : list'[j] = IF j = n + 1 THEN list[i] ELSE list[j]
        BY <2>1, <3>1, <4>1, <4>2, ExceptSeq
      <4>4. \A j \in 1 .. n : list'[j] = list[j]
        BY <1>0, <3>1, <4>3
      <4>5. \A j \in i + 1 .. Len(list) : list'[j] = list[j]
        BY <1>0, <3>1, <4>3
      <4>6. (\E k \in 1 .. n + 1 : Covers(list'[k], a))
              <=> Covers(list[i], a) \/ \E k \in 1 .. n : Covers(list[k], a)
        BY <1>0, <3>1, <4>3, <4>4
      <4>7. (\E k \in i .. Len(list) : Covers(list[k], a))
              <=> Covers(list[i], a) \/ \E k \in i + 1 .. Len(list) : Covers(list[k], a)
        BY <1>0, <2>2, <3>3
      <4> QED BY <2>1, <3>2, <4>1, <4>3, <4>5, <4>6, <4>7 DEF Found
    <3> QED BY <3>4, <3>5
  <2>3. CASE i > Len(list)
    <3>1. /\ list' = SubSeq(list, 1, n) /\ i' = 1 /\ pc' = "uncover" /\ out' = << >>
      BY <1>0, <1>3, <2>1, <2>3 DEF Dedupe
    <3>2. \A k \in 1 .. n : list[k] \in Blocks
      BY <1>0, <2>1, ElementOfSeq
    <3>3. Len(list') = n /\ \A k \in 1 .. n : list'[k] = list[k]
      BY <1>0, <3>1, <3>2, FirstElements
    <3>4. i .. Len(list) = {} /\ 1 .. Len(out') = {}
      BY <1>0, <2>3, <3>1
    <3> QED BY <2>1, <3>1, <3>3, <3>4 DEF Found
  <2> QED BY <1>0, <2>2, <2>3
<1>4. CASE RemoveCovered
  <2>1. list \in Seq(Blocks) /\ pc = "uncover" /\ out \in Seq(Blocks)
    BY <1>0, <1>4 DEF RemoveCovered, Types
  <2>2. CASE i <= Len(list)
    <3>1. list[i] \in Blocks /\ list[i] \in Prefix
      BY <1>0, <2>1, <2>2, ElementOfSeq, BlockFacts
    <3>2. i' = i + 1 /\ pc' = pc /\ list' = list
      BY <1>0, <1>4, <2>2 DEF RemoveCovered
    <3>3. (\E k \in i .. Len(list) : Covers(list[k], a))
             <=> Covers(list[i], a) \/ \E k \in i + 1 .. Len(list) : Covers(list[k], a)
      BY <1>0, <2>2
    <3>4. CASE \E k \in 1 .. Len(out) : ipv4PrefixContains(out[k], list[i])
      <4>1. out' = out
        BY <1>0, <1>4, <2>2, <3>4 DEF RemoveCovered
      <4>2. PICK k \in 1 .. Len(out) : ipv4PrefixContains(out[k], list[i])
        BY <3>4
      <4>3. out[k] \in Prefix
        BY <2>1, ElementOfSeq, BlockFacts
      <4>4. Covers(list[i], a) => Covers(out[k], a)
        BY <3>1, <4>2, <4>3, ContainsCovers
      <4> QED BY <2>1, <3>2, <3>3, <4>1, <4>4 DEF Found
    <3>5. CASE ~\E k \in 1 .. Len(out) : ipv4PrefixContains(out[k], list[i])
      <4>1. out' = Append(out, list[i])
        BY <1>0, <1>4, <2>2, <3>5 DEF RemoveCovered
      <4>2. /\ Len(out') = Len(out) + 1 /\ out'[Len(out) + 1] = list[i]
            /\ \A k \in 1 .. Len(out) : out'[k] = out[k]
        BY <2>1, <3>1, <4>1, AppendProperties
      <4>3. (\E k \in 1 .. Len(out) + 1 : Covers(out'[k], a))
              <=> Covers(list[i], a) \/ \E k \in 1 .. Len(out) : Covers(out[k], a)
        BY <1>0, <4>2
      <4> QED BY <2>1, <3>2, <3>3, <4>2, <4>3 DEF Found
    <3> QED BY <3>4, <3>5
  <2>3. CASE i > Len(list)
    <3>1. list' = out /\ out' = << >> /\ i' = 1 /\ pc' = "push"
      BY <1>0, <1>4, <2>3 DEF RemoveCovered
    <3>2. i .. Len(list) = {} /\ 1 .. Len(out') = {}
      BY <1>0, <2>3, <3>1
    <3> QED BY <2>1, <3>1, <3>2 DEF Found
  <2> QED BY <1>0, <2>2, <2>3
<1>5. CASE Push
  <2>1. list \in Seq(Blocks) /\ pc = "push" /\ out \in Seq(Blocks)
    BY <1>0, <1>5 DEF Push, Types
  <2>2. CASE i <= Len(list)
    <3>1. list[i] \in Blocks
      BY <1>0, <2>1, <2>2, ElementOfSeq
    <3>2. /\ i' = i + 1 /\ pc' = "reduce" /\ list' = list
          /\ out' = Append(out, list[i])
      BY <1>0, <1>5, <2>2 DEF Push
    <3>3. /\ Len(out') = Len(out) + 1 /\ out'[Len(out) + 1] = list[i]
          /\ \A k \in 1 .. Len(out) : out'[k] = out[k]
      BY <2>1, <3>1, <3>2, AppendProperties
    <3>4. (\E k \in 1 .. Len(out) + 1 : Covers(out'[k], a))
            <=> Covers(list[i], a) \/ \E k \in 1 .. Len(out) : Covers(out[k], a)
      BY <1>0, <3>3
    <3>5. (\E k \in i .. Len(list) : Covers(list[k], a))
             <=> Covers(list[i], a) \/ \E k \in i + 1 .. Len(list) : Covers(list[k], a)
      BY <1>0, <2>2
    <3> QED BY <2>1, <3>2, <3>3, <3>4, <3>5 DEF Found
  <2>3. CASE i > Len(list)
    <3>1. i' = i /\ out' = out /\ list' = list /\ pc' = "done"
      BY <1>0, <1>5, <2>3 DEF Push
    <3> QED BY <2>1, <3>1 DEF Found
  <2> QED BY <1>0, <2>2, <2>3
<1>6. CASE Reduce
  <2>1. pc = "reduce" /\ pc' \in {"push", "reduce"} /\ list' = list /\ i' = i
    BY <1>6 DEF Reduce
  <2>2. CASE Mergeable
    <3>1. out' = MergedTop
      BY <1>6, <2>2 DEF Reduce
    <3>2. /\ Below \in Blocks /\ Top \in Blocks
          /\ Len(out) - 1 \in 1 .. Len(out)
          /\ Len(out') = Len(out) - 1
          /\ out'[Len(out) - 1] = Parent(Top)
          /\ \A k \in 1 .. Len(out) - 2 : out'[k] = out[k]
      BY <1>0, <2>2, <3>1, MergedTopFacts
    <3>3. mergeIPv4Siblings(Below, Top) /\ Len(out) >= 2
      BY <2>2 DEF Mergeable
    <3>4. Covers(Parent(Top), a) <=> Covers(out[Len(out) - 1], a) \/ Covers(out[Len(out)], a)
      BY <3>2, <3>3, MergeCovers DEF Below, Top
    <3>5. (\E k \in 1 .. Len(out) - 1 : Covers(out'[k], a))
             <=> \/ Covers(Parent(Top), a)
                 \/ \E k \in 1 .. Len(out) - 2 : Covers(out[k], a)
      BY <1>0, <3>2, <3>3
    <3>6. (\E k \in 1 .. Len(out) : Covers(out[k], a))
             <=> \/ Covers(out[Len(out) - 1], a) \/ Covers(out[Len(out)], a)
                 \/ \E k \in 1 .. Len(out) - 2 : Covers(out[k], a)
      BY <1>0, <3>3
    <3> QED BY <2>1, <3>2, <3>4, <3>5, <3>6 DEF Found
  <2>3. CASE ~Mergeable
    <3>1. out' = out
      BY <1>6, <2>3 DEF Reduce
    <3> QED BY <2>1, <3>1 DEF Found
  <2> QED BY <2>2, <2>3
<1>7. CASE UNCHANGED vars
  BY <1>7 DEF vars, Found
<1> QED
  BY <1>1, <1>2, <1>3, <1>4, <1>5, <1>6, <1>7 DEF Next, Step, Done

FoundCoverage == { a \in Addr : Found(a) } = Coverage(Elements(input, 1, Len(input)))

(* At no point of any of the loops of CollapseIPv4 is an address gained or *)
(* lost, for every width and every list of prefixes.                       *)
THEOREM CoverageKept == Spec => []SameCoverage
<1>1. Init => FoundCoverage
  <2> SUFFICES ASSUME Init PROVE FoundCoverage
    OBVIOUS
  <2>1. /\ pc = "normalize" /\ list = input /\ i = 1 /\ out = << >>
        /\ 1 .. Len(out) = {}
    BY DEF Init
  <2>2. \A a \in Addr : Found(a) <=> \E k \in 1 .. Len(input) : Covers(input[k], a)
    BY <2>1 DEF Found
  <2> QED BY <2>2, ElementsCover DEF FoundCoverage
<1>2. TypeInv /\ FoundCoverage /\ [Next]_vars => FoundCoverage'
  <2> SUFFICES ASSUME TypeInv, FoundCoverage, [Next]_vars PROVE FoundCoverage'
    OBVIOUS
  <2>1. \A a \in Addr : Found(a)' <=> Found(a)
    BY FoundStep
  <2>2. input' = input
    BY DEF Next, Step, vars, Normalize, Sort, Dedupe, RemoveCovered, Push, Reduce, Done
  <2> QED BY <2>1, <2>2 DEF FoundCoverage
<1>3. FoundCoverage => SameCoverage
  BY LiveCoverage DEF FoundCoverage, SameCoverage
<1> QED BY TypeInitially, TypeStep, <1>1, <1>2, <1>3, PTL DEF Spec

-----------------------------------------------------------------------------
(* Order: what comes before what, and the halves of a block.               *)

(* Addresses that agree on b bits have the same block of length b.         *)
LEMMA PrefixFromAgree ==
  ASSUME NEW a \in Addr, NEW c \in Addr, NEW b \in 0 .. W, \A k \in 1 .. b : a[k] = c[k]
  PROVE  PrefixFrom(a, b) = PrefixFrom(c, b)
<1>1. \A k \in 1 .. W : (IF k <= b THEN a[k] ELSE 0) = (IF k <= b THEN c[k] ELSE 0)
  BY WidthAssumption
<1> QED BY <1>1 DEF PrefixFrom

(* In the order of the sort the left half comes before the right half.     *)
LEMMA LeftBeforeRight ==
  ASSUME NEW p \in Blocks, p.bits # 0
  PROVE  AddrLess(Left(p).addr, Right(p).addr)
<1>1. p.bits \in 1 .. W
  BY BlockFacts, WidthAssumption
<1>2. Left(p).addr[p.bits] = 0 /\ Right(p).addr[p.bits] = 1
  BY <1>1, Halves, ParentType
<1>3. \A j \in 1 .. p.bits - 1 : Left(p).addr[j] = Right(p).addr[j]
  BY <1>1, Halves, WidthAssumption
<1> QED BY <1>1, <1>2, <1>3 DEF AddrLess

(* The two halves of a block pass the test of mergeIPv4Siblings.           *)
LEMMA HalvesMerge ==
  ASSUME NEW p \in Blocks, p.bits # 0
  PROVE  mergeIPv4Siblings(Left(p), Right(p))
<1>1. p.bits \in 1 .. W /\ p.bits - 1 \in 0 .. W /\ p.addr \in Addr
  BY BlockFacts, WidthAssumption
<1> DEFINE l == Left(p)
           r == Right(p)
<1>2. /\ l \in Blocks /\ r \in Blocks /\ l.bits = p.bits /\ r.bits = p.bits
      /\ l.addr \in Addr /\ r.addr \in Addr
  BY Halves, BlockFacts
<1>3. \A k \in 1 .. p.bits - 1 : l.addr[k] = p.addr[k] /\ r.addr[k] = p.addr[k]
  BY <1>1, Halves, ParentType, WidthAssumption
<1> HIDE DEF l, r
<1>4. Parent(l) = Parent(p) /\ Parent(r) = Parent(p)
  BY <1>1, <1>2, <1>3, PrefixFromAgree DEF Parent
<1>5. Left(l) = Left(p) /\ Right(l) = Right(p)
  BY <1>2, <1>4 DEF Left, Right
<1>6. ~AddrLess(r.addr, l.addr)
  <2>1. AddrLess(l.addr, r.addr)
    BY LeftBeforeRight DEF l, r
  <2> QED BY <1>2, <2>1, AddrLessTransitive, AddrLessIrreflexive
<1>7. l = Left(l) /\ r = Right(l)
  BY <1>5 DEF l, r
<1>8. mergeIPv4Siblings(l, r)
  BY <1>1, <1>2, <1>4, <1>6, <1>7 DEF mergeIPv4Siblings
<1> QED BY <1>8 DEF l, r

(* An address between those of the halves is covered by the first.         *)
LEMMA BetweenHalves ==
  ASSUME NEW p \in Blocks, p.bits # 0, NEW x \in Addr,
         AddrLess(Left(p).addr, x), AddrLess(x, Right(p).addr)
  PROVE  Covers(Left(p), x)
<1> DEFINE b == p.bits
           l == Left(p).addr
           r == Right(p).addr
<1>1. b \in 1 .. W
  BY BlockFacts, WidthAssumption
<1>2. l \in Addr /\ r \in Addr /\ Left(p).bits = b
  BY Halves, BlockFacts
<1>3. /\ \A k \in 1 .. W : r[k] = IF k = b THEN 1 ELSE l[k]
      /\ \A k \in 1 .. W : k >= b => l[k] = 0
  BY <1>1, Halves, ParentType, WidthAssumption
<1>4. PICK k \in 1 .. W : l[k] < x[k] /\ \A j \in 1 .. k - 1 : l[j] = x[j]
  BY DEF AddrLess
<1>5. PICK m \in 1 .. W : x[m] < r[m] /\ \A j \in 1 .. m - 1 : x[j] = r[j]
  BY DEF AddrLess
<1>6. \A j \in 1 .. W : l[j] \in {0, 1} /\ x[j] \in {0, 1} /\ r[j] \in {0, 1}
  BY <1>2 DEF Addr
<1> HIDE DEF b, l, r
<1>7. x[m] = 0 /\ r[m] = 1 /\ l[k] = 0 /\ x[k] = 1
  BY <1>4, <1>5, <1>6
<1>8. m <= b
  BY <1>1, <1>3, <1>7, WidthAssumption
<1>9. m = b
  <2> SUFFICES ASSUME m < b PROVE FALSE
    BY <1>1, <1>8, WidthAssumption
  <2>1. l[m] = 1
    BY <1>3, <1>7
  <2>2. \A j \in 1 .. m - 1 : x[j] = l[j]
    BY <1>1, <1>3, <1>5, WidthAssumption
  <2>3. ~(k < m)
    BY <1>7, <2>2, WidthAssumption
  <2>4. ~(m < k)
    BY <1>4, <1>7, <2>1, WidthAssumption
  <2> QED BY <1>7, <2>1, <2>3, <2>4, WidthAssumption
<1>10. \A j \in 1 .. b : x[j] = l[j]
  BY <1>1, <1>3, <1>5, <1>7, <1>9, WidthAssumption
<1> QED BY <1>2, <1>10 DEF Covers, l, b

(* Disjoint blocks differ in their addresses.                              *)
LEMMA BeforeAddrLess ==
  ASSUME NEW p \in Blocks, NEW q \in Blocks, Before(p, q)
  PROVE  AddrLess(p.addr, q.addr)
<1>1. p \in Prefix /\ q \in Prefix
  BY BlockFacts
<1>2. p.addr # q.addr
  BY <1>1, CoversItself DEF Before, Disjoint
<1> QED BY <1>2 DEF Before, Less

(* In order, blocks are disjoint unless the first contains the second.     *)
LEMMA NotContainedBefore ==
  ASSUME NEW p \in Blocks, NEW q \in Blocks, Less(p, q), ~ipv4PrefixContains(p, q)
  PROVE  Before(p, q)
<1> SUFFICES ASSUME NEW a \in Addr, Covers(p, a), Covers(q, a) PROVE FALSE
  BY DEF Before, Disjoint
<1>1. p \in Prefix /\ q \in Prefix /\ p.bits \in Nat /\ q.bits \in Nat
  BY BlockFacts
<1>2. q.bits < p.bits
  BY <1>1, Comparable
<1>3. ipv4PrefixContains(q, p) /\ p # q
  BY <1>1, <1>2, Comparable
<1>4. Less(q, p)
  BY <1>3, ContainsLess
<1> QED BY <1>1, <1>4, LessTransitive, LessIrreflexive

(* A parent takes the place of its halves.                                 *)
LEMMA ParentBefore ==
  ASSUME NEW a \in Blocks, NEW b \in Blocks, mergeIPv4Siblings(a, b), Before(a, b),
         NEW c \in Blocks
  PROVE  /\ Before(c, a) /\ Before(c, b) => Before(c, Parent(b))
         /\ Before(a, c) /\ Before(b, c) => Before(Parent(b), c)
<1>1. a.addr \in Addr /\ b.addr \in Addr /\ AddrLess(a.addr, b.addr)
  BY BlockFacts, BeforeAddrLess
<1>2. ~(b = Left(b) /\ a = Right(b))
  <2>1. ~AddrLess(b.addr, a.addr)
    BY <1>1, AddrLessTransitive, AddrLessIrreflexive
  <2> QED BY <2>1, MergeFacts, LeftBeforeRight
<1>3. Parent(b).addr = a.addr
  BY <1>2, MergeFacts, Halves
<1>4. \A x \in Addr : Covers(Parent(b), x) <=> Covers(a, x) \/ Covers(b, x)
  BY MergeCovers
<1>5. ASSUME Before(c, a), Before(c, b) PROVE Before(c, Parent(b))
  <2>1. Less(c, Parent(b))
    BY <1>3, <1>5, BeforeAddrLess DEF Less
  <2> QED BY <1>4, <1>5, <2>1 DEF Before, Disjoint
<1>6. ASSUME Before(a, c), Before(b, c) PROVE Before(Parent(b), c)
  <2>1. Less(Parent(b), c)
    BY <1>3, <1>6, BeforeAddrLess DEF Less
  <2> QED BY <1>4, <1>6, <2>1 DEF Before, Disjoint
<1> QED BY <1>5, <1>6

(* A list without neighbours in the wrong order is in order.               *)
LEMMA NoInversionSorted ==
  ASSUME NEW s \in Seq(Prefix), \A k \in 1 .. Len(s) - 1 : ~Less(s[k + 1], s[k]),
         NEW j \in 1 .. Len(s), NEW k \in 1 .. Len(s), j < k
  PROVE  ~Less(s[k], s[j])
<1> SUFFICES ASSUME Less(s[k], s[j]) PROVE FALSE
  OBVIOUS
<1>1. Len(s) \in Nat /\ \A m \in 1 .. Len(s) : s[m] \in Prefix
  BY LenProperties, ElementOfSeq
<1> DEFINE D == { m \in 1 .. Len(s) : j < m /\ Less(s[m], s[j]) }
<1>2. D # {} /\ D \subseteq Nat
  BY <1>1
<1>3. PICK m \in D : \A o \in D : m <= o
  BY <1>2, LeastNatural
<1>4. /\ m \in 1 .. Len(s) /\ j < m /\ Less(s[m], s[j])
      /\ m - 1 \in 1 .. Len(s) - 1 /\ m - 1 \in 1 .. Len(s) /\ (m - 1) + 1 = m
  BY <1>1, <1>3
<1>5. ~Less(s[m], s[m - 1])
  BY <1>4
<1>6. j # m - 1
  BY <1>4, <1>5
<1>7. m - 1 \notin D
  BY <1>1, <1>3, <1>4
<1>8. ~Less(s[m - 1], s[j])
  BY <1>1, <1>4, <1>6, <1>7
<1>9. s[m] \in Prefix /\ s[m - 1] \in Prefix /\ s[j] \in Prefix
  BY <1>1, <1>4
<1>10. s[m - 1] = s[j] \/ Less(s[j], s[m - 1])
  BY <1>8, <1>9, LessTotal
<1>11. Less(s[m], s[m - 1])
  BY <1>4, <1>9, <1>10, LessTransitive
<1> QED BY <1>5, <1>11

-----------------------------------------------------------------------------
(* The order of the list and of the stack is kept.                         *)
LEMMA OrderStep == TypeInv /\ OrderInv /\ [Next]_vars => OrderInv'
<1> SUFFICES ASSUME TypeInv, OrderInv, [Next]_vars PROVE OrderInv'
  OBVIOUS
<1>0. /\ Types /\ AtRest
      /\ Len(list) \in Nat /\ Len(out) \in Nat /\ list \in Seq(Prefix)
      /\ i \in Nat /\ i >= 1 /\ n \in Nat
  BY TypesForm, ListIsASequence DEF TypeInv, Types
<1> USE DEF OrderInv
<1>1. CASE Normalize
  BY <1>1 DEF Normalize, DedupeOrder, UncoverOrder, StackOrder, StackReduced
<1>2. CASE Sort
  <2>1. CASE Inversions # {}
    <3>1. pc' = "sort"
      BY <1>0, <1>2, <2>1, SortExchanges DEF Sort
    <3> QED BY <3>1 DEF DedupeOrder, UncoverOrder, StackOrder, StackReduced
  <2>2. CASE Inversions = {}
    <3>1. pc' = "dedupe" /\ list' = list /\ i' = 1 /\ n' = 0
      BY <1>0, <1>2, <2>2 DEF Sort, AtRest
    <3>2. \A k \in 1 .. Len(list) - 1 : ~Less(list[k + 1], list[k])
      BY <2>2 DEF Inversions
    <3>3. \A j, k \in 1 .. Len(list) : j < k => ~Less(list[k], list[j])
      BY <1>0, <3>2, NoInversionSorted
    <3>4. 1 .. n' = {}
      BY <3>1
    <3> QED BY <3>1, <3>3, <3>4 DEF DedupeOrder, UncoverOrder, StackOrder, StackReduced
  <2> QED BY <2>1, <2>2
<1>3. CASE Dedupe
  <2>1. list \in Seq(Blocks) /\ pc = "dedupe" /\ out = << >> /\ n < i /\ i <= Len(list) + 1
    BY <1>0, <1>3 DEF Dedupe, Types, AtRest
  <2>2. /\ \A j, k \in 1 .. n : j < k => Less(list[j], list[k])
        /\ \A j \in 1 .. n, k \in i .. Len(list) : ~Less(list[k], list[j])
        /\ \A j, k \in i .. Len(list) : j < k => ~Less(list[k], list[j])
    BY <2>1 DEF DedupeOrder
  <2>3. CASE i <= Len(list)
    <3>1. pc' = "dedupe" /\ i' = i + 1
      BY <1>0, <1>3, <2>3 DEF Dedupe
    <3>2. \A k \in i + 1 .. Len(list) : k \in i .. Len(list)
      BY <1>0
    <3>3. CASE n > 0 /\ list[n] = list[i]
      <4>1. list' = list /\ n' = n
        BY <1>0, <1>3, <2>3, <3>3 DEF Dedupe
      <4>2. /\ \A j \in 1 .. n, k \in i + 1 .. Len(list) : ~Less(list[k], list[j])
            /\ \A j, k \in i + 1 .. Len(list) : j < k => ~Less(list[k], list[j])
        BY <2>2, <3>2
      <4> QED BY <2>2, <3>1, <4>1, <4>2 DEF DedupeOrder, UncoverOrder, StackOrder, StackReduced
    <3>4. CASE ~(n > 0 /\ list[n] = list[i])
      <4>1. list' = [list EXCEPT ![n + 1] = list[i]] /\ n' = n + 1
        BY <1>0, <1>3, <2>3, <3>4 DEF Dedupe
      <4>2. n + 1 \in 1 .. Len(list) /\ i \in 1 .. Len(list) /\ i \in i .. Len(list)
        BY <1>0, <2>1, <2>3
      <4>3. \A k \in 1 .. Len(list) : list[k] \in Blocks /\ list[k] \in Prefix
        BY <2>1, ElementOfSeq, BlockFacts
      <4>4. /\ Len(list') = Len(list)
            /\ \A j \in 1 .. Len(list) : list'[j] = IF j = n + 1 THEN list[i] ELSE list[j]
        BY <2>1, <4>1, <4>2, <4>3, ExceptSeq
      <4>5. /\ list'[n + 1] = list[i]
            /\ \A j \in 1 .. n : list'[j] = list[j] /\ j \in 1 .. Len(list)
            /\ \A j \in i + 1 .. Len(list) : list'[j] = list[j] /\ j \in 1 .. Len(list)
        BY <1>0, <2>1, <4>2, <4>4
      <4>6. ASSUME NEW j \in 1 .. n
            PROVE  Less(list[j], list[i])
        <5>1. n \in 1 .. n /\ n \in 1 .. Len(list) /\ j \in 1 .. Len(list)
          BY <1>0, <4>2
        <5>2. list[n] # list[i] /\ ~Less(list[i], list[n])
          BY <1>0, <2>2, <3>4, <4>2, <5>1
        <5>3. Less(list[n], list[i])
          BY <4>2, <4>3, <5>1, <5>2, LessTotal
        <5>4. j = n \/ Less(list[j], list[n])
          BY <1>0, <2>2, <5>1
        <5> QED BY <4>2, <4>3, <5>1, <5>3, <5>4, LessTransitive
      <4>7. \A j, k \in 1 .. n + 1 : j < k => Less(list'[j], list'[k])
        BY <1>0, <2>2, <4>5, <4>6
      <4>8. ASSUME NEW j \in 1 .. n + 1, NEW k \in i + 1 .. Len(list)
            PROVE  ~Less(list'[k], list'[j])
        <5>1. list'[k] = list[k] /\ k \in i .. Len(list) /\ i < k
          BY <1>0, <3>2, <4>5
        <5>2. CASE j \in 1 .. n
          BY <2>2, <4>5, <5>1, <5>2
        <5>3. CASE j = n + 1
          BY <2>2, <4>2, <4>5, <5>1, <5>3
        <5> QED BY <1>0, <5>2, <5>3
      <4>9. \A j, k \in i + 1 .. Len(list) : j < k => ~Less(list'[k], list'[j])
        BY <2>2, <3>2, <4>5
      <4> QED BY <3>1, <4>1, <4>4, <4>7, <4>8, <4>9
              DEF DedupeOrder, UncoverOrder, StackOrder, StackReduced
    <3> QED BY <3>3, <3>4
  <2>4. CASE i > Len(list)
    <3>1. /\ list' = SubSeq(list, 1, n) /\ i' = 1 /\ pc' = "uncover" /\ out' = << >>
      BY <1>0, <1>3, <2>1, <2>4 DEF Dedupe
    <3>2. \A k \in 1 .. n : list[k] \in Blocks
      BY <1>0, <2>1, ElementOfSeq
    <3>3. Len(list') = n /\ \A k \in 1 .. n : list'[k] = list[k]
      BY <1>0, <3>1, <3>2, FirstElements
    <3>4. 1 .. Len(out') = {}
      BY <3>1
    <3> QED BY <2>2, <3>1, <3>3, <3>4 DEF DedupeOrder, UncoverOrder, StackOrder, StackReduced
  <2> QED BY <1>0, <2>3, <2>4
<1>4. CASE RemoveCovered
  <2>1. list \in Seq(Blocks) /\ pc = "uncover" /\ out \in Seq(Blocks)
    BY <1>0, <1>4 DEF RemoveCovered, Types
  <2>2. /\ \A j, k \in 1 .. Len(list) : j < k => Less(list[j], list[k])
        /\ \A j \in 1 .. Len(out), k \in i .. Len(list) : Less(out[j], list[k])
        /\ \A j, k \in 1 .. Len(out) : j < k => Before(out[j], out[k])
    BY <2>1 DEF UncoverOrder
  <2>3. CASE i <= Len(list)
    <3>1. i' = i + 1 /\ pc' = "uncover" /\ list' = list
      BY <1>0, <1>4, <2>1, <2>3 DEF RemoveCovered
    <3>2. \A k \in i + 1 .. Len(list) : k \in i .. Len(list) /\ k \in 1 .. Len(list) /\ i < k
      BY <1>0
    <3>3. i \in 1 .. Len(list) /\ i \in i .. Len(list) /\ list[i] \in Blocks
      BY <1>0, <2>1, <2>3, ElementOfSeq
    <3>4. CASE \E k \in 1 .. Len(out) : ipv4PrefixContains(out[k], list[i])
      <4>1. out' = out
        BY <1>0, <1>4, <2>3, <3>4 DEF RemoveCovered
      <4> QED BY <2>2, <3>1, <3>2, <4>1 DEF DedupeOrder, UncoverOrder, StackOrder, StackReduced
    <3>5. CASE ~\E k \in 1 .. Len(out) : ipv4PrefixContains(out[k], list[i])
      <4>1. out' = Append(out, list[i])
        BY <1>0, <1>4, <2>3, <3>5 DEF RemoveCovered
      <4>2. /\ Len(out') = Len(out) + 1 /\ out'[Len(out) + 1] = list[i]
            /\ \A k \in 1 .. Len(out) : out'[k] = out[k]
        BY <2>1, <3>3, <4>1, AppendProperties
      <4>3. \A k \in 1 .. Len(out) : out[k] \in Blocks
        BY <2>1, ElementOfSeq
      <4>4. \A j \in 1 .. Len(out) : Before(out[j], list[i])
        BY <2>2, <3>3, <3>5, <4>3, NotContainedBefore
      <4>5. \A j, k \in 1 .. Len(out) + 1 : j < k => Before(out'[j], out'[k])
        BY <1>0, <2>2, <4>2, <4>4
      <4>6. \A j \in 1 .. Len(out) + 1, k \in i + 1 .. Len(list) : Less(out'[j], list[k])
        BY <1>0, <2>2, <3>2, <3>3, <4>2
      <4> QED BY <2>2, <3>1, <4>2, <4>5, <4>6
              DEF DedupeOrder, UncoverOrder, StackOrder, StackReduced
    <3> QED BY <3>4, <3>5
  <2>4. CASE i > Len(list)
    <3>1. list' = out /\ out' = << >> /\ i' = 1 /\ pc' = "push"
      BY <1>0, <1>4, <2>4 DEF RemoveCovered
    <3>2. 1 .. Len(out') = {} /\ 1 .. Len(out') - 1 = {}
      BY <3>1
    <3> QED BY <2>2, <3>1, <3>2 DEF DedupeOrder, UncoverOrder, StackOrder, StackReduced
  <2> QED BY <1>0, <2>3, <2>4
<1>5. CASE Push
  <2>1. list \in Seq(Blocks) /\ pc = "push" /\ out \in Seq(Blocks)
    BY <1>0, <1>5 DEF Push, Types
  <2>2. /\ \A j, k \in 1 .. Len(out) : j < k => Before(out[j], out[k])
        /\ \A j \in 1 .. Len(out), k \in i .. Len(list) : Before(out[j], list[k])
        /\ \A j, k \in i .. Len(list) : j < k => Before(list[j], list[k])
        /\ \A k \in 1 .. Len(out) - 1 : ~mergeIPv4Siblings(out[k], out[k + 1])
    BY <2>1 DEF StackOrder, StackReduced
  <2>3. CASE i <= Len(list)
    <3>1. /\ i' = i + 1 /\ pc' = "reduce" /\ list' = list
          /\ out' = Append(out, list[i])
      BY <1>0, <1>5, <2>3 DEF Push
    <3>2. \A k \in i + 1 .. Len(list) : k \in i .. Len(list) /\ i < k
      BY <1>0
    <3>3. i \in 1 .. Len(list) /\ i \in i .. Len(list) /\ list[i] \in Blocks
      BY <1>0, <2>1, <2>3, ElementOfSeq
    <3>4. /\ Len(out') = Len(out) + 1 /\ out'[Len(out) + 1] = list[i]
          /\ \A k \in 1 .. Len(out) : out'[k] = out[k]
      BY <2>1, <3>1, <3>3, AppendProperties
    <3>5. ASSUME NEW j \in 1 .. Len(out) + 1, NEW k \in 1 .. Len(out) + 1, j < k
          PROVE  Before(out'[j], out'[k])
      <4>1. j \in 1 .. Len(out) /\ out'[j] = out[j]
        BY <1>0, <3>4, <3>5
      <4>2. CASE k \in 1 .. Len(out)
        BY <2>2, <3>4, <3>5, <4>1, <4>2
      <4>3. CASE k = Len(out) + 1
        BY <2>2, <3>3, <3>4, <4>1, <4>3
      <4> QED BY <1>0, <4>2, <4>3
    <3>6. ASSUME NEW j \in 1 .. Len(out) + 1, NEW k \in i + 1 .. Len(list)
          PROVE  Before(out'[j], list[k])
      <4>1. k \in i .. Len(list) /\ i < k
        BY <3>2
      <4>2. CASE j \in 1 .. Len(out)
        BY <2>2, <3>4, <4>1, <4>2
      <4>3. CASE j = Len(out) + 1
        BY <2>2, <3>3, <3>4, <4>1, <4>3
      <4> QED BY <1>0, <4>2, <4>3
    <3>7. \A k \in 1 .. Len(out') - 2 : /\ k \in 1 .. Len(out) - 1
                                       /\ out'[k] = out[k] /\ out'[k + 1] = out[k + 1]
      BY <1>0, <3>4
    <3>8. \A k \in 1 .. Len(out') - 2 : ~mergeIPv4Siblings(out'[k], out'[k + 1])
      BY <2>2, <3>7
    <3> QED BY <2>2, <3>1, <3>2, <3>4, <3>5, <3>6, <3>8
            DEF DedupeOrder, UncoverOrder, StackOrder, StackReduced
  <2>4. CASE i > Len(list)
    <3>1. i' = i /\ out' = out /\ list' = list /\ pc' = "done"
      BY <1>0, <1>5, <2>4 DEF Push
    <3> QED BY <2>2, <3>1 DEF DedupeOrder, UncoverOrder, StackOrder, StackReduced
  <2> QED BY <1>0, <2>3, <2>4
<1>6. CASE Reduce
  <2>1. /\ pc = "reduce" /\ list' = list /\ i' = i
        /\ list \in Seq(Blocks) /\ out \in Seq(Blocks)
    BY <1>0, <1>6 DEF Reduce, Types
  <2>2. /\ \A j, k \in 1 .. Len(out) : j < k => Before(out[j], out[k])
        /\ \A j \in 1 .. Len(out), k \in i .. Len(list) : Before(out[j], list[k])
        /\ \A j, k \in i .. Len(list) : j < k => Before(list[j], list[k])
        /\ \A k \in 1 .. Len(out) - 2 : ~mergeIPv4Siblings(out[k], out[k + 1])
    BY <2>1 DEF StackOrder, StackReduced
  <2>3. CASE Mergeable
    <3> DEFINE m == Len(out) - 1
    <3>1. out' = MergedTop /\ pc' = "reduce"
      BY <1>6, <2>1, <2>3 DEF Reduce
    <3>2. /\ Below \in Blocks /\ Top \in Blocks
          /\ m \in 1 .. Len(out) /\ Len(out) \in 1 .. Len(out) /\ m < Len(out)
          /\ Len(out') = m
          /\ out'[m] = Parent(Top)
          /\ \A k \in 1 .. Len(out) - 2 : out'[k] = out[k]
      BY <1>0, <2>3, <3>1, MergedTopFacts
    <3>3. mergeIPv4Siblings(Below, Top) /\ Below = out[m] /\ Top = out[Len(out)]
      BY <2>3 DEF Mergeable, Below, Top
    <3>4. Before(Below, Top)
      BY <2>2, <3>2, <3>3
    <3>5. /\ \A k \in 1 .. Len(out) : out[k] \in Blocks
          /\ \A k \in i .. Len(list) : list[k] \in Blocks
      BY <1>0, <2>1, ElementOfSeq
    <3>6. ASSUME NEW j \in 1 .. Len(out) - 2 PROVE Before(out[j], Parent(Top))
      <4>1. j \in 1 .. Len(out) /\ j < m /\ j < Len(out)
        BY <1>0
      <4>2. Before(out[j], Below) /\ Before(out[j], Top)
        BY <2>2, <3>2, <3>3, <4>1
      <4> QED BY <3>2, <3>3, <3>4, <3>5, <4>1, <4>2, ParentBefore
    <3>7. ASSUME NEW k \in i .. Len(list) PROVE Before(Parent(Top), list[k])
      <4>1. Before(Below, list[k]) /\ Before(Top, list[k])
        BY <2>2, <3>2, <3>3
      <4> QED BY <3>2, <3>3, <3>4, <3>5, <4>1, ParentBefore
    <3>8. \A j \in 1 .. m : j = m \/ (j \in 1 .. Len(out) - 2 /\ j \in 1 .. Len(out))
      BY <1>0
    <3>9. \A j, k \in 1 .. m : j < k => Before(out'[j], out'[k])
      BY <1>0, <2>2, <3>2, <3>6, <3>8
    <3>10. \A j \in 1 .. m, k \in i .. Len(list) : Before(out'[j], list[k])
      BY <2>2, <3>2, <3>7, <3>8
    <3>11. \A k \in 1 .. m - 2 : /\ k \in 1 .. Len(out) - 2
                                 /\ out'[k] = out[k] /\ out'[k + 1] = out[k + 1]
      BY <1>0, <3>2
    <3>12. \A k \in 1 .. m - 2 : ~mergeIPv4Siblings(out'[k], out'[k + 1])
      BY <2>2, <3>11
    <3> HIDE DEF m
    <3> QED BY <2>1, <2>2, <3>1, <3>2, <3>9, <3>10, <3>12
            DEF DedupeOrder, UncoverOrder, StackOrder, StackReduced
  <2>4. CASE ~Mergeable
    <3>1. out' = out /\ pc' = "push"
      BY <1>6, <2>4 DEF Reduce
    <3>2. \A k \in 1 .. Len(out) - 1 : ~mergeIPv4Siblings(out[k], out[k + 1])
      <4> SUFFICES ASSUME NEW k \in 1 .. Len(out) - 1
                   PROVE  ~mergeIPv4Siblings(out[k], out[k + 1])
        OBVIOUS
      <4>1. CASE k \in 1 .. Len(out) - 2
        BY <2>2, <4>1
      <4>2. CASE k = Len(out) - 1
        <5>1. Len(out) >= 2 /\ k + 1 = Len(out)
          BY <1>0, <4>2
        <5> QED BY <2>4, <4>2, <5>1 DEF Mergeable, Below, Top
      <4> QED BY <1>0, <4>1, <4>2
    <3> QED BY <2>1, <2>2, <3>1, <3>2 DEF DedupeOrder, UncoverOrder, StackOrder, StackReduced
  <2> QED BY <2>3, <2>4
<1>7. CASE UNCHANGED vars
  BY <1>7 DEF vars, DedupeOrder, UncoverOrder, StackOrder, StackReduced
<1> QED
  BY <1>1, <1>2, <1>3, <1>4, <1>5, <1>6, <1>7 DEF Next, Step, Done

-----------------------------------------------------------------------------
(* The result is the best set of blocks.                                   *)

(* Disjoint blocks, no two of which are halves of one: whatever block they *)
(* cover together, one of them contains.  Take the longest of them within  *)
(* the block; its other half must be covered too, by nothing shorter and   *)
(* by nothing longer.                                                      *)
LEMMA NoHalvesContain ==
  ASSUME NEW T \in SUBSET Blocks,
         \A p, q \in T : p # q => Disjoint(p, q),
         \A f \in Blocks : f.bits # 0 => ~(Left(f) \in T /\ Right(f) \in T),
         NEW q \in Blocks, Coverage({q}) \subseteq Coverage(T)
  PROVE  \E t \in T : ipv4PrefixContains(t, q)
<1> SUFFICES ASSUME \A t \in T : ~ipv4PrefixContains(t, q) PROVE FALSE
  OBVIOUS
<1>1. \A p \in Blocks : p \in Prefix /\ p.bits \in 0 .. W /\ p.bits \in Nat /\ p.addr \in Addr
  BY BlockFacts, WidthAssumption
<1>2. ASSUME NEW a \in Addr, Covers(q, a)
      PROVE  \E u \in T : Covers(u, a)
  BY <1>2, CoverageOne DEF Coverage
<1>3. ASSUME NEW u \in T, NEW a \in Addr, Covers(q, a), Covers(u, a)
      PROVE  ipv4PrefixContains(q, u) /\ q.bits < u.bits
  <2>1. u \in Blocks
    OBVIOUS
  <2>2. ~(u.bits <= q.bits)
    BY <1>1, <1>3, <2>1, Comparable
  <2> QED BY <1>1, <1>3, <2>1, <2>2, Comparable
<1> DEFINE D == { u.bits : u \in { v \in T : ipv4PrefixContains(q, v) } }
<1>4. D # {}
  <2>1. q.addr \in Addr /\ Covers(q, q.addr)
    BY <1>1, CoversItself
  <2>2. PICK u \in T : Covers(u, q.addr)
    BY <1>2, <2>1
  <2>3. ipv4PrefixContains(q, u)
    BY <1>3, <2>1, <2>2
  <2> QED BY <2>3
<1>5. D \subseteq 0 .. W
  BY <1>1
<1>6. PICK m \in D : \A d \in D : d <= m
  BY <1>4, <1>5, GreatestNatural, WidthAssumption
<1>7. PICK t \in T : ipv4PrefixContains(q, t) /\ t.bits = m
  BY <1>6
<1> HIDE DEF D
<1>8. t \in Blocks /\ t \in Prefix /\ t.addr \in Addr /\ Covers(t, t.addr)
  BY <1>1, CoversItself
<1>9. Covers(q, t.addr) /\ q.bits < t.bits /\ t.bits # 0 /\ t.bits \in 1 .. W
  <2>1. Covers(q, t.addr)
    BY <1>1, <1>7, <1>8, ContainsCovers
  <2>2. q.bits < t.bits
    BY <1>3, <1>8, <2>1
  <2> QED BY <1>1, <1>8, <2>1, <2>2, WidthAssumption
<1> DEFINE s == IF t = Left(t) THEN Right(t) ELSE Left(t)
<1>10. /\ s \in Blocks /\ s.bits = t.bits /\ s.addr \in Addr /\ Covers(s, s.addr)
  BY <1>1, <1>8, <1>9, Halves, CoversItself
<1>11. \A k \in 1 .. t.bits - 1 : s.addr[k] = t.addr[k]
  <2>1. \A k \in 1 .. t.bits - 1 : k \in 1 .. W /\ k # t.bits /\ k < t.bits
    BY <1>9, WidthAssumption
  <2>2. \A k \in 1 .. t.bits - 1 : /\ Left(t).addr[k] = t.addr[k]
                                   /\ Right(t).addr[k] = t.addr[k]
    BY <1>8, <1>9, <2>1, Halves, ParentType
  <2> QED BY <2>2
<1>12. s \notin T
  <2>1. t = Left(t) \/ t = Right(t)
    BY <1>8, <1>9, OneOfTheHalves
  <2> QED BY <1>8, <1>9, <2>1
<1> HIDE DEF s
<1>13. Covers(q, s.addr)
  BY <1>1, <1>8, <1>9, <1>11 DEF Covers
<1>14. PICK u \in T : Covers(u, s.addr)
  BY <1>2, <1>10, <1>13
<1>15. u \in Blocks /\ u.bits \in Nat /\ t.bits \in Nat /\ u \in Prefix
  BY <1>1, <1>8
<1>16. ~(u.bits < t.bits)
  <2> SUFFICES ASSUME u.bits < t.bits PROVE FALSE
    OBVIOUS
  <2>1. Covers(u, t.addr)
    BY <1>11, <1>14, <1>15 DEF Covers
  <2>2. u # t
    BY <1>15
  <2> QED BY <1>8, <2>1, <2>2 DEF Disjoint
<1>17. u.bits <= t.bits
  <2>1. ipv4PrefixContains(q, u)
    BY <1>3, <1>10, <1>13, <1>14
  <2>2. u.bits \in D
    BY <2>1 DEF D
  <2> QED BY <1>6, <1>7, <2>2
<1>18. u.bits = s.bits
  BY <1>10, <1>15, <1>16, <1>17
<1>19. ipv4PrefixContains(u, s) /\ s \in Prefix
  BY <1>1, <1>10, <1>14, <1>15, <1>18, Comparable
<1>20. u = s
  BY <1>10, <1>15, <1>18, <1>19, ContainsSameLength
<1> QED BY <1>12, <1>20

(* Such blocks are the best set for what they cover.                       *)
LEMMA NoHalvesBest ==
  ASSUME NEW T \in SUBSET Blocks,
         \A p, q \in T : p # q => Disjoint(p, q),
         \A f \in Blocks : f.bits # 0 => ~(Left(f) \in T /\ Right(f) \in T)
  PROVE  Best(T) = T
<1> DEFINE C == CoveredBlocks(T)
<1>1. \A p \in Blocks : p \in Prefix /\ p.addr \in Addr
  BY BlockFacts
<1>2. \A q \in C : q \in Blocks /\ \E t \in T : ipv4PrefixContains(t, q)
  BY NoHalvesContain DEF CoveredBlocks
<1>3. T \subseteq C
  BY DEF CoveredBlocks, Coverage
<1>4. Best(T) = { p \in C : \A q \in C : ipv4PrefixContains(q, p) => q = p }
  BY DEF Best
<1> HIDE DEF C
<1>5. ASSUME NEW p \in T PROVE p \in Best(T)
  <2>1. ASSUME NEW q \in C, ipv4PrefixContains(q, p) PROVE q = p
    <3>1. PICK t \in T : ipv4PrefixContains(t, q)
      BY <1>2, <2>1
    <3>2. q \in Blocks /\ p \in Blocks /\ t \in Blocks
      BY <1>2, <2>1
    <3>3. ipv4PrefixContains(t, p)
      BY <2>1, <3>1, <3>2, ContainsTransitive
    <3>4. Covers(t, p.addr) /\ Covers(p, p.addr) /\ p.addr \in Addr
      BY <1>1, <3>2, <3>3, ContainsCovers, CoversItself
    <3>5. t = p
      BY <3>4 DEF Disjoint
    <3> QED BY <2>1, <3>1, <3>2, <3>5, ContainsAntisymmetric
  <2> QED BY <1>3, <1>4, <2>1
<1>6. ASSUME NEW p \in Best(T) PROVE p \in T
  <2>1. p \in C /\ \A q \in C : ipv4PrefixContains(q, p) => q = p
    BY <1>4, <1>6
  <2>2. PICK t \in T : ipv4PrefixContains(t, p)
    BY <1>2, <2>1
  <2> QED BY <1>3, <2>1, <2>2
<1> QED BY <1>5, <1>6

(* On the finished stack no two blocks are halves of one: neighbours are   *)
(* not, and what is between halves would be part of the first.             *)
LEMMA FinishedStack ==
  ASSUME TypeInv, OrderInv, pc = "done", NEW f \in Blocks, f.bits # 0
  PROVE  ~(Left(f) \in Elements(out, 1, Len(out)) /\ Right(f) \in Elements(out, 1, Len(out)))
<1> SUFFICES ASSUME NEW j \in 1 .. Len(out), NEW k \in 1 .. Len(out),
                    Left(f) = out[j], Right(f) = out[k]
             PROVE  FALSE
  BY DEF Elements
<1>1. out \in Seq(Blocks) /\ Len(out) \in Nat
  BY TypesForm, ListIsASequence DEF TypeInv, Types
<1>2. \A m \in 1 .. Len(out) : out[m] \in Blocks /\ out[m].addr \in Addr /\ out[m] \in Prefix
  BY <1>1, ElementOfSeq, BlockFacts
<1>3. \A m, o \in 1 .. Len(out) : m < o => Before(out[m], out[o])
  BY DEF OrderInv, StackOrder
<1>4. \A m, o \in 1 .. Len(out) : m < o => AddrLess(out[m].addr, out[o].addr)
  BY <1>2, <1>3, BeforeAddrLess
<1>5. AddrLess(out[j].addr, out[k].addr)
  BY LeftBeforeRight
<1>6. j < k
  <2>1. ~(k < j)
    BY <1>2, <1>4, <1>5, AddrLessTransitive, AddrLessIrreflexive
  <2>2. j # k
    BY <1>2, <1>5, AddrLessIrreflexive
  <2> QED BY <1>1, <2>1, <2>2
<1>7. CASE k = j + 1
  <2>1. ~mergeIPv4Siblings(out[j], out[k])
    BY <1>1, <1>7 DEF OrderInv, StackReduced
  <2> QED BY <2>1, HalvesMerge
<1>8. CASE k # j + 1
  <2>1. j + 1 \in 1 .. Len(out) /\ j < j + 1 /\ j + 1 < k
    BY <1>1, <1>6, <1>8
  <2> DEFINE x == out[j + 1]
  <2>2. AddrLess(Left(f).addr, x.addr) /\ AddrLess(x.addr, Right(f).addr)
    BY <1>4, <2>1
  <2>3. x \in Prefix /\ x.addr \in Addr
    BY <1>2, <2>1
  <2>4. Covers(out[j], x.addr)
    BY <2>2, <2>3, BetweenHalves
  <2>5. Covers(x, x.addr)
    BY <2>3, CoversItself
  <2>6. Disjoint(out[j], x)
    BY <1>3, <2>1 DEF Before
  <2> QED BY <2>3, <2>4, <2>5, <2>6 DEF Disjoint
<1> QED BY <1>7, <1>8

(* A sorted result without nested blocks and without siblings, with the    *)
(* coverage of the input, is the minimal one.                              *)
LEMMA DoneMinimal == TypeInv /\ OrderInv /\ SameCoverage => Minimal
<1> SUFFICES ASSUME TypeInv, OrderInv, SameCoverage, pc = "done"
             PROVE  /\ Elements(out, 1, Len(out)) = Best(Elements(input, 1, Len(input)))
                    /\ \A k \in 1 .. Len(out) - 1 : Less(out[k], out[k + 1])
  BY DEF Minimal
<1> DEFINE T == Elements(out, 1, Len(out))
<1>1. /\ out \in Seq(Blocks) /\ Len(out) \in Nat /\ Len(list) \in Nat
      /\ i = Len(list) + 1
  BY TypesForm, ListIsASequence DEF TypeInv, Types, AtRest
<1>2. \A j, k \in 1 .. Len(out) : j < k => Before(out[j], out[k])
  BY DEF OrderInv, StackOrder
<1>3. T \in SUBSET Blocks
  BY <1>1, ElementOfSeq DEF Elements
<1>4. \A p, q \in T : p # q => Disjoint(p, q)
  <2> SUFFICES ASSUME NEW j \in 1 .. Len(out), NEW k \in 1 .. Len(out), out[j] # out[k]
               PROVE  Disjoint(out[j], out[k])
    BY DEF Elements
  <2>1. j < k \/ k < j
    BY <1>1
  <2> QED BY <1>2, <2>1 DEF Before, Disjoint
<1>5. \A f \in Blocks : f.bits # 0 => ~(Left(f) \in T /\ Right(f) \in T)
  BY FinishedStack
<1>6. Coverage(T) = Coverage(Elements(input, 1, Len(input)))
  <2>1. Elements(list, i, Len(list)) = {}
    BY <1>1 DEF Elements
  <2>2. Live = T
    BY <2>1 DEF Live
  <2> QED BY <2>2 DEF SameCoverage
<1> HIDE DEF T
<1>7. Best(T) = T
  BY <1>3, <1>4, <1>5, NoHalvesBest
<1>8. Best(T) = Best(Elements(input, 1, Len(input)))
  BY <1>6, BestOfCoverage
<1>9. \A k \in 1 .. Len(out) - 1 : Less(out[k], out[k + 1])
  BY <1>1, <1>2 DEF Before
<1> QED BY <1>7, <1>8, <1>9 DEF T

(* What CollapseIPv4 returns is the minimal set of blocks that cover what  *)
(* it was given, in order and without repetition, for every width and      *)
(* every list: the one pass with a stack misses no merge.                  *)
THEOREM ResultMinimal == Spec => []Minimal
<1>1. Init => OrderInv
  BY DEF Init, OrderInv, DedupeOrder, UncoverOrder, StackOrder, StackReduced
<1> QED BY TypeInitially, TypeStep, <1>1, OrderStep, CoverageKept, DoneMinimal, PTL DEF Spec
=============================================================================
