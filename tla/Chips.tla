------------------------------- MODULE Chips -------------------------------
(***************************************************************************)
(* The gates of pkg/zk-circuits/src/chips over a prime field of P elements *)
(* (the scalar field of BN254 in the code).  A chip is the set of rows     *)
(* that satisfy its gates: the prover chooses every advice cell, so an     *)
(* action below assigns any row the gates accept, and the properties say   *)
(* what the verifier may conclude from it.                                 *)
(***************************************************************************)
EXTENDS Integers, Sequences, FiniteSets, FiniteSetsExt, Functions

CONSTANTS P,          \* the modulus, a prime
          Bits        \* width of a decomposition; 256 in the code

ASSUME ChipsAssumption == P \in Nat \ {0, 1} /\ Bits \in Nat \ {0}

F == 0 .. P - 1
Power[i \in 0 .. Bits] == IF i = 0 THEN 1 ELSE 2 * Power[i - 1]

\* The field's modulus is a prime of fewer bits than a decomposition has (254 in the code).
ASSUME FieldAssumption == (\A d \in 2 .. P - 1 : P % d # 0) /\ P < Power[Bits]

Plus(a, b) == (a + b) % P
Minus(a, b) == (a + P - b) % P
Times(a, b) == (a * b) % P

VARIABLE row          \* the region assigned last: the chip, its inputs, its outputs
NoRow == [chip |-> "none"]

----------------------------------------------------------------------------
\* IsZeroChip: 1 - value * value_inv, and the gate that makes it Boolean.
IsZeroExpr(value, inv) == Minus(1, Times(value, inv))
IsZeroGate(value, inv) == Times(value, IsZeroExpr(value, inv)) = 0

\* Mutation: one is taken for every inverse.
ValueInvOne(value) == 1

\* The witness of IsZeroChip::assign: the inverse, or zero.
ValueInv(value) == IF \E i \in F : Times(value, i) = 1
                   THEN CHOOSE i \in F : Times(value, i) = 1
                   ELSE 0

IsConstantGate(c, value, inv) == IsZeroGate(Minus(value, c), inv)

AssignIsConstant ==
    \E c, value, inv \in F :
       /\ IsConstantGate(c, value, inv)
       /\ row' = [chip |-> "is_constant", c |-> c, value |-> value,
                  out |-> IsZeroExpr(Minus(value, c), inv)]

----------------------------------------------------------------------------
\* CondSwapChip: both outputs are ternaries over a Boolean cell.
Ternary(c, a, b) == Plus(Times(c, a), Times(Minus(1, c), b))
SwapGate(a, b, swap, l, r) == /\ l = Ternary(swap, b, a)
                              /\ r = Ternary(swap, a, b)
                              /\ Times(swap, Minus(1, swap)) = 0

AssignSwap ==
    \E a, b, swap, l, r \in F :
       /\ SwapGate(a, b, swap, l, r)
       /\ row' = [chip |-> "swap", in |-> <<a, b>>, out |-> <<l, r>>]

----------------------------------------------------------------------------
\* AddCulmChip: culm_prev + add = culm, row by row, from the first value.
Total(values) == FoldFunction(Plus, 0, values)

----------------------------------------------------------------------------
\* BinaryDecompositionConfig<1>: the running sum z_0 = value, each word
\* z_i - 2 z_(i+1) is range checked, and the last z is constrained to zero.
RangeCheck(word) == Times(word, Minus(1, word)) = 0
RunningSum(words) ==
    LET z[i \in 0 .. Bits] == IF i = Bits THEN 0
                              ELSE Plus(words[i + 1], Times(2, z[i + 1]))
    IN  z
Decomposed(value, words) == /\ \A i \in 1 .. Bits : RangeCheck(words[i])
                            /\ RunningSum(words)[0] = value
Words == [1 .. Bits -> F]

\* decompose_word: the witness, least significant bit first.
DecomposeWord(value) ==
    LET rest[i \in 0 .. Bits] == IF i = 0 THEN value ELSE rest[i - 1] \div 2
    IN  [i \in 1 .. Bits |-> rest[i - 1] % 2]

----------------------------------------------------------------------------
\* IsLessThanChip: is_less and can_set, most significant bit first; the last
\* is_less is constrained to zero.
LessThan(max, alpha) ==
    LET can[i \in 0 .. Bits] ==
          IF i = 0 THEN 1
          ELSE Times(can[i - 1],
                     Plus(Times(max[i], alpha[i]),
                          Times(Minus(1, max[i]), Minus(1, alpha[i]))))
        less[i \in 0 .. Bits] ==
          IF i = 0 THEN 1
          ELSE Minus(less[i - 1],
                     Times(Times(max[i], Minus(1, alpha[i])), can[i - 1]))
    IN  less[Bits] = 0

BigEndian(words) == [i \in 1 .. Bits |-> words[Bits + 1 - i]]

AssignLessThan ==
    \E max, alpha \in [1 .. Bits -> {0, 1}] :
       /\ LessThan(max, alpha)
       /\ row' = [chip |-> "is_less_than", max |-> max, alpha |-> alpha]

\* Mutation: without the comparison a small leaf has two decompositions.
LeafBitsUnchecked(leaf, words) == Decomposed(leaf, words)

\* The decomposition of a leaf in the insert circuit, which is also checked to
\* be below the modulus: its low bits are the leaf's position in the tree.
LeafBits(leaf, words) ==
    /\ Decomposed(leaf, words)
    /\ LessThan(BigEndian(DecomposeWord(P)), BigEndian(words))

AssignLeafBits ==
    \E leaf \in F, words \in Words :
       /\ LeafBits(leaf, words)
       /\ row' = [chip |-> "leaf_bits", leaf |-> leaf, words |-> words]

----------------------------------------------------------------------------
ChipsNext == /\ row = NoRow
             /\ \/ AssignIsConstant
                \/ AssignSwap
                \/ AssignLessThan
                \/ AssignLeafBits

\* The integer of a word, least significant bit first.
Numbers(bits) == LET n[i \in 0 .. Bits] == IF i = Bits THEN 0 ELSE bits[i + 1] + 2 * n[i + 1]
                 IN  n
Value(bits) == Numbers(bits)[0]

(* Every row that the gates accept has the outputs the callers rely on: a  *)
(* Boolean that says whether the value is the constant, a permutation of   *)
(* the two inputs, a strict comparison of the two integers, and the one    *)
(* decomposition of the leaf below the modulus (insert.rs relies on it: a  *)
(* second one would give a nullifier a second place in the tree). And the  *)
(* cells that the `assign` functions compute do satisfy the gates (stated  *)
(* of the empty layout), so an honest prover is never stuck.               *)
ChipsExact ==
    /\ row.chip = "is_constant" => row.out = (IF row.value = row.c THEN 1 ELSE 0)
    /\ row.chip = "swap" => row.out \in {row.in, <<row.in[2], row.in[1]>>}
    /\ row.chip = "is_less_than" => Value(BigEndian(row.alpha)) < Value(BigEndian(row.max))
    /\ row.chip = "leaf_bits" => row.words = DecomposeWord(row.leaf)
    /\ row.chip = "none" => \A value, c \in F :
          /\ IsConstantGate(c, value, ValueInv(Minus(value, c)))
          /\ SwapGate(value, c, 1, c, value) /\ SwapGate(value, c, 0, value, c)
          /\ LeafBits(value, DecomposeWord(value))
============================================================================
