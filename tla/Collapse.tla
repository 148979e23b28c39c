------------------------------ MODULE Collapse ------------------------------
(***************************************************************************)
(* CollapseIPv4: the minimal list of prefixes that cover what a list of    *)
(* prefixes covers.  Each loop of the code is a phase, each of its         *)
(* iterations a step.                                                      *)
(***************************************************************************)
EXTENDS Prefixes

CONSTANT Inputs   \* the lists CollapseIPv4 is called with

ASSUME InputsAssumption == Inputs \subseteq Seq(Prefix)

VARIABLES pc,       \* the loop that runs
          input,    \* prefs
          list,     \* the slice the loop ranges over
          i,        \* the next element of list
          n,        \* the length of deduped, which shares the array of list
          out       \* uncovered, then the stack

vars == << pc, input, list, i, n, out >>

-----------------------------------------------------------------------------
(* The parent, and the halves a pair must equal to be merged.  The second  *)
(* half has one bit set that the parent has not: adding the size of the    *)
(* half sets it, and cannot overflow.  Blocks of one size that follow each *)
(* other need not have a parent.                                           *)
Parent(p) == PrefixFrom(p.addr, p.bits - 1)
Left(p) == PrefixFrom(Parent(p).addr, p.bits)
Right(p) == PrefixFrom([Parent(p).addr EXCEPT ![p.bits] = 1], p.bits)

SameSize(a, b) == a.bits = b.bits /\ a.bits # 0 /\ a # b

mergeIPv4Siblings(a, b) ==
  /\ a.bits = b.bits /\ a.bits # 0
  /\ LET first  == IF AddrLess(b.addr, a.addr) THEN b ELSE a
         second == IF AddrLess(b.addr, a.addr) THEN a ELSE b
     IN /\ Parent(second) = Parent(first)
        /\ first = Left(first) /\ second = Right(first)

-----------------------------------------------------------------------------
Init ==
  /\ input \in Inputs
  /\ pc = "normalize"
  /\ list = input
  /\ i = 1 /\ n = 0 /\ out = << >>

(* Every prefix is masked: unmasked, equal prefixes may look different.    *)
LeaveUnmasked ==
  /\ pc = "normalize" /\ pc' = "sort"
  /\ UNCHANGED << input, list, i, n, out >>

Normalize ==
  /\ pc = "normalize" /\ pc' = "sort"
  /\ list' = [k \in 1 .. Len(list) |-> Masked(list[k])]
  /\ UNCHANGED << input, i, n, out >>

(* sort.Slice, as exchanges of neighbours in the wrong order: how the      *)
(* library sorts is not modelled, only the list it ends with.  Prefixes    *)
(* that compare equal are equal, so every sort ends with the same list.    *)
Inversions == { k \in 1 .. Len(list) - 1 : Less(list[k + 1], list[k]) }

Sort ==
  /\ pc = "sort"
  /\ \/ /\ Inversions # {}
        /\ LET k == CHOOSE k \in Inversions : \A j \in Inversions : k <= j
           IN list' = [list EXCEPT ![k] = list[k + 1], ![k + 1] = list[k]]
        /\ UNCHANGED pc
     \/ /\ Inversions = {}
        /\ pc' = "dedupe"
        /\ UNCHANGED list
  /\ UNCHANGED << input, i, n, out >>

(* A prefix is kept unless it equals the last one kept.  What is kept is   *)
(* written to the array that is being read.                                *)
Dedupe ==
  /\ pc = "dedupe"
  /\ \/ /\ i <= Len(list)
        /\ IF n > 0 /\ list[n] = list[i]
           THEN UNCHANGED << list, n >>
           ELSE list' = [list EXCEPT ![n + 1] = list[i]] /\ n' = n + 1
        /\ i' = i + 1
        /\ UNCHANGED pc
     \/ /\ i > Len(list)
        /\ list' = SubSeq(list, 1, n)
        /\ i' = 1 /\ n' = 0
        /\ pc' = "uncover"
  /\ UNCHANGED << input, out >>

RemoveCovered ==
  /\ pc = "uncover"
  /\ \/ /\ i <= Len(list)
        /\ out' = IF \E k \in 1 .. Len(out) : ipv4PrefixContains(out[k], list[i])
                  THEN out ELSE Append(out, list[i])
        /\ i' = i + 1
        /\ UNCHANGED << pc, list >>
     \/ /\ i > Len(list)
        /\ list' = out /\ out' = << >>
        /\ i' = 1
        /\ pc' = "push"
  /\ UNCHANGED << input, n >>

(* mergeSiblingStack: a prefix is pushed, then the two on top are merged   *)
(* as long as they are halves of a block.                                  *)
Push ==
  /\ pc = "push"
  /\ \/ /\ i <= Len(list)
        /\ out' = Append(out, list[i])
        /\ i' = i + 1
        /\ pc' = "reduce"
     \/ /\ i > Len(list)
        /\ pc' = "done"
        /\ UNCHANGED << i, out >>
  /\ UNCHANGED << input, list, n >>

Below == out[Len(out) - 1]
Top == out[Len(out)]
Mergeable == Len(out) >= 2 /\ mergeIPv4Siblings(Below, Top)
MergedTop == Append(SubSeq(out, 1, Len(out) - 2), Parent(Top))

(* A merge may make the next one possible; looking once misses it.         *)
ReduceOnce ==
  /\ pc = "reduce"
  /\ out' = IF Mergeable THEN MergedTop ELSE out
  /\ pc' = "push"
  /\ UNCHANGED << input, list, i, n >>

Reduce ==
  /\ pc = "reduce"
  /\ \/ Mergeable /\ out' = MergedTop /\ UNCHANGED pc
     \/ ~Mergeable /\ pc' = "push" /\ UNCHANGED out
  /\ UNCHANGED << input, list, i, n >>

Done == pc = "done" /\ UNCHANGED vars

Step == Normalize \/ Sort \/ Dedupe \/ RemoveCovered \/ Push \/ Reduce

Next == Step \/ Done

Spec == Init /\ [][Next]_vars

-----------------------------------------------------------------------------
(* The prefixes of the result so far, and those still to be looked at.     *)
Live ==
  IF pc = "dedupe" THEN Elements(list, 1, n) \cup Elements(list, i, Len(list))
                   ELSE Elements(out, 1, Len(out)) \cup Elements(list, i, Len(list))

-----------------------------------------------------------------------------
(* All values are in their range; after the first loop every prefix is     *)
(* masked, and deduped never overtakes the element that is read.           *)
CollapseTypeOK ==
  /\ pc \in {"normalize", "sort", "dedupe", "uncover", "push", "reduce", "done"}
  /\ input \in Seq(Prefix)
  /\ list \in Seq(IF pc = "normalize" THEN Prefix ELSE { p \in Prefix : Masked(p) = p })
  /\ out \in Seq({ p \in Prefix : Masked(p) = p })
  /\ i \in 1 .. Len(list) + 1
  /\ n \in 0 .. i - 1

(* At no point, in none of the loops, is an address gained or lost: what   *)
(* CollapseIPv4 works on covers what it was given ("covering exactly the   *)
(* same IPv4 addresses").                                                  *)
SameCoverage == Coverage(Live) = Coverage(Elements(input, 1, Len(input)))

(* The result is the minimal set, in order and without repetition: one     *)
(* pass with a stack finds every merge there is.                           *)
Minimal ==
  pc = "done" =>
    /\ Elements(out, 1, Len(out)) = Best(Elements(input, 1, Len(input)))
    /\ \A k \in 1 .. Len(out) - 1 : Less(out[k], out[k + 1])
=============================================================================
