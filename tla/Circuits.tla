------------------------------ MODULE Circuits ------------------------------
(***************************************************************************)
(* The circuits of pkg/zk-circuits, each as the relation between what the  *)
(* prover may choose (a witness) and the public inputs it proves.  A block *)
(* is what the rollup accepts: two aggregates, each of UTXO proofs whose   *)
(* leaves are inserted into the tree one after the other.                  *)
(*                                                                         *)
(* Poseidon is taken to be injective: a hash is the sequence of what is    *)
(* hashed, zero is the empty sequence.  A Merkle root is then the tree     *)
(* itself, and Root is a full binary tree of depth Depth.  Which bits a    *)
(* leaf has is given by Position; that a leaf has only one position is a   *)
(* property of the chips (ChipsExact).                                     *)
(***************************************************************************)
EXTENDS Chips, SequencesExt

CONSTANTS Depth,          \* siblings of a leaf; MERKLE_D - 1 = 160 in the code
          RangeBits,      \* bits of an output value; 240 in the code
          Secrets, Owners, \* secret keys, and those whose addresses get notes
          Psis,           \* blinding values of the notes
          MaxBlocks,      \* bound: blocks
          Position(_)     \* leaf -> sequence of Depth bits

ASSUME CircuitsAssumption ==
    /\ Depth \in Nat /\ RangeBits \in 0 .. Bits /\ 2 * (Power[RangeBits] - 1) < P
    /\ IsFiniteSet(Owners) /\ IsFiniteSet(Psis)

VARIABLES roots,          \* the roots so far; the last one is the current tree
          minted, burned  \* what the contract accounts for

circuitVars == <<row, roots, minted, burned>>

----------------------------------------------------------------------------
\* Notes
Zero == <<>>
Address(secret) == <<secret>>
NewNote(address, value, psi) ==
    [value |-> value, address |-> address, psi |-> psi, source |-> address]
PaddingNote == NewNote(Address(0), 0, 0)

\* Note::commitment, and the cells of Note::enforce_constraints.
Commitment(note) == IF note.value = 0 THEN Zero
                    ELSE <<note.value, note.address, note.psi, note.source>>

\* Note::nullifier; the circuit swaps it for zero when the note is padding.
Nullifier(note, secret) ==
    IF Commitment(note) = Zero THEN Zero ELSE <<Commitment(note), secret, note.psi>>

----------------------------------------------------------------------------
\* Merkle paths: the siblings of a leaf, from the leaf to the root.
BitSeqs == [1 .. Depth -> {0, 1}]
Hash(bit, node, sibling) == IF bit = 1 THEN <<sibling, node>> ELSE <<node, sibling>>
MerkleRoot(leaf, siblings, bits) ==
    LET up[i \in 0 .. Depth] ==
          IF i = 0 THEN leaf ELSE Hash(bits[i], up[i - 1], siblings[i])
    IN  up[Depth]
EmptyRoot == LET empty[i \in 0 .. Depth] ==
                   IF i = 0 THEN Zero ELSE <<empty[i - 1], empty[i - 1]>>
             IN  empty[Depth]

\* The node above which i levels of the tree lie, on the path of bits.
NodeAt(root, bits) ==
    LET at[i \in 0 .. Depth] ==
          IF i = Depth THEN root ELSE at[i + 1][bits[i + 1] + 1]
    IN  at
Siblings(root, bits) == [i \in 1 .. Depth |-> NodeAt(root, bits)[i][2 - bits[i]]]
LeafAt(root, bits) == NodeAt(root, bits)[0]
Leaves(root) == {LeafAt(root, bits) : bits \in BitSeqs} \ {Zero}

----------------------------------------------------------------------------
\* The UTXO circuit.  A witness: the kind, the root, two inputs (a note with
\* the secret that spends it) and two outputs.
Null == 0
Transfer == 1
MintKind == 2
BurnKind == 3

\* InputNote::enforce_constraints: the owner, and a path to the root; the swap
\* bits of the path are chosen by the prover.
InputRoot(in, siblings, bits) == MerkleRoot(Commitment(in.note), siblings, bits)
InputConstraints(in, root) ==
    /\ in.note.address = Address(in.secret)
    /\ \/ in.note.value = 0
       \/ \E bits \in BitSeqs : InputRoot(in, Siblings(root, bits), bits) = root

\* Mutation: values are any field element.
InRangeAlways(value) == TRUE

\* The bits above RangeBits of an output's value are constrained to zero.
InRange(value) == \E words \in [1 .. Bits -> {0, 1}] :
                     /\ Decomposed(value, words)
                     /\ \A i \in RangeBits + 1 .. Bits : words[i] = 0

RangeChecked == {value \in F : InRange(value)}

TotalIn(w) == Total([i \in 1 .. 2 |-> w.inputs[i].note.value])
TotalOut(w) == Total([i \in 1 .. 2 |-> w.outputs[i].value])

\* Utxo::enforce_constraints with the chips of UtxoCircuitConfig.
UtxoConstraints(w) ==
    /\ (IF w.kind = BurnKind THEN 0 ELSE TotalIn(w))
         = (IF w.kind = MintKind THEN 0 ELSE TotalOut(w))
    /\ \A i \in 1 .. 2 : w.outputs[i].value \in RangeChecked
    /\ \A i \in 1 .. 2 : InputConstraints(w.inputs[i], w.root)

\* Mutation: the value of the first note only.
UtxoInstanceFirst(w) ==
    LET in == [i \in 1 .. 2 |-> Nullifier(w.inputs[i].note, w.inputs[i].secret)]
        out == [i \in 1 .. 2 |-> Commitment(w.outputs[i])]
    IN  [root |-> w.root, hash |-> IF w.kind = BurnKind THEN in[1] ELSE Zero,
         value |-> w.outputs[1].value, inputs |-> in, outputs |-> out]

\* The cells that are constrained to the instance column.
UtxoInstance(w) ==
    LET in == [i \in 1 .. 2 |-> Nullifier(w.inputs[i].note, w.inputs[i].secret)]
        out == [i \in 1 .. 2 |-> Commitment(w.outputs[i])]
    IN  [root |-> w.root,
         hash |-> CASE w.kind = BurnKind -> in[1]
                    [] w.kind = MintKind -> out[1]
                    [] OTHER -> Zero,
         value |-> CASE w.kind = BurnKind -> TotalIn(w)
                     [] w.kind = MintKind -> TotalOut(w)
                     [] OTHER -> 0,
         inputs |-> in, outputs |-> out]

\* Utxo::public_inputs, which the prover computes outside of the circuit.
PublicInputs(w) ==
    [root |-> w.root,
     hash |-> CASE w.kind = MintKind -> Commitment(w.outputs[1])
                [] w.kind = BurnKind -> Nullifier(w.inputs[1].note, w.inputs[1].secret)
                [] OTHER -> Zero,
     value |-> CASE w.kind = MintKind -> w.outputs[1].value
                 [] w.kind = BurnKind -> w.inputs[1].note.value
                 [] OTHER -> 0,
     inputs |-> [i \in 1 .. 2 |-> Nullifier(w.inputs[i].note, w.inputs[i].secret)],
     outputs |-> [i \in 1 .. 2 |-> Commitment(w.outputs[i])]]

\* UTXOProof::is_mint, is_burn
IsMint(inst) == (inst.hash # Zero \/ inst.value # 0) /\ \A i \in 1 .. 2 : inst.inputs[i] = Zero
IsBurn(inst) == (inst.hash # Zero \/ inst.value # 0) /\ \A i \in 1 .. 2 : inst.outputs[i] = Zero

\* Utxo::new_transfer, new_mint, new_burn, new_padding
Spend(note, secret) == [note |-> note, secret |-> secret]
PaddingInput == Spend(PaddingNote, 0)
NewUtxo(kind, inputs, outputs, root) ==
    [kind |-> kind, inputs |-> inputs, outputs |-> outputs, root |-> root]
NewMint(note) ==
    NewUtxo(MintKind, <<PaddingInput, PaddingInput>>, <<note, PaddingNote>>, Zero)
NewBurn(in, root) ==
    NewUtxo(BurnKind, <<in, PaddingInput>>, <<PaddingNote, PaddingNote>>, root)
NewPadding ==
    NewUtxo(Transfer, <<PaddingInput, PaddingInput>>, <<PaddingNote, PaddingNote>>, Zero)

\* prove_transfer: what a wallet asks a node to prove is padded to two notes on
\* either side; without a kind, the notes tell it.
Padded(notes, padding) == [i \in 1 .. 2 |-> IF i <= Len(notes) THEN notes[i] ELSE padding]
ProveTransfer(kind, inputs, outputs, root) ==
    NewUtxo(CASE kind # Null -> kind
              [] inputs = <<>> -> MintKind
              [] \A i \in DOMAIN outputs : outputs[i].value = 0 -> BurnKind
              [] OTHER -> Transfer,
            Padded(inputs, PaddingInput), Padded(outputs, PaddingNote), root)
\* The notes for which the contract mints or burns
Accounted(w) == CASE w.kind = MintKind -> w.outputs
                  [] w.kind = BurnKind -> [i \in 1 .. 2 |-> w.inputs[i].note]
                  [] OTHER -> <<>>

----------------------------------------------------------------------------
\* Insert::enforce_constraints: the old root has a null leaf where the new root
\* has the leaf; Batch::enforce_constraints chains them and skips padding.
InsertOldRoot(leaf, siblings) == MerkleRoot(Zero, siblings, Position(leaf))
InsertNewRoot(leaf, siblings) == MerkleRoot(leaf, siblings, Position(leaf))

\* Mutation: the old root is not constrained.
InsertLeafOver(root, leaf) ==
    IF leaf = Zero THEN {root} ELSE {InsertNewRoot(leaf, Siblings(root, Position(leaf)))}

\* The roots that Insert proves from a root: one, or none.
InsertLeaf(root, leaf) ==
    IF leaf = Zero THEN {root}
    ELSE {InsertNewRoot(leaf, s) :
            s \in {t \in {Siblings(root, Position(leaf))} : InsertOldRoot(leaf, t) = root}}

\* The new roots a batch can prove from an old root: one, or none.
BatchInsert(root, leaves) ==
    LET rs[i \in 0 .. Len(leaves)] ==
          IF i = 0 THEN {root} ELSE UNION {InsertLeaf(r, leaves[i]) : r \in rs[i - 1]}
    IN  rs[Len(leaves)]

UtxoLeaves(inst) == inst.inputs \o inst.outputs

\* AggregateUtxo: the proofs verify, and their leaves are the batch's leaves, in
\* order.  The instances: the old and the new root, then each UTXO's first three.
AggregateUtxo(old, insts) ==
    {[old |-> old, new |-> new, utxos |-> insts] :
       new \in BatchInsert(old, FlattenSeq([i \in DOMAIN insts |-> UtxoLeaves(insts[i])]))}

\* AggregateAgg: each aggregate starts at the root where the one before it ends.
AggregateAgg(a, b) ==
    IF a.new = b.old THEN {[old |-> a.old, new |-> b.new, utxos |-> a.utxos \o b.utxos]}
    ELSE {}

----------------------------------------------------------------------------
\* Burn, BurnTo, Mint, Compliance, Points: their public inputs and the cells of their circuits.
Signature(note, secret, to, kind) == <<Nullifier(note, secret), secret, to, kind>>
BurnToPublic(note, secret, to, kind) ==
    <<kind, to, Nullifier(note, secret), note.value, note.source,
      Signature(note, secret, to, kind)>>
BurnToCells(note, secret, to, kind) ==
    LET nullifier == <<Commitment(note), secret, note.psi>>
    IN  <<kind, to, nullifier, note.value, note.source, <<nullifier, secret, to, kind>>>>
BurnPublic(note, secret, to) ==
    <<to, Nullifier(note, secret), note.value, note.source, Signature(note, secret, to, 0)>>
BurnCells(note, secret, to) ==
    LET nullifier == <<Commitment(note), secret, note.psi>>
    IN  <<to, nullifier, note.value, note.source, <<nullifier, secret, to, 0>>>>
MintPublic(notes) ==
    FlattenSeq([i \in DOMAIN notes |-> <<Commitment(notes[i]), notes[i].value, notes[i].source>>])
MintCells(notes) ==
    [k \in 1 .. 3 * Len(notes) |->
       LET note == notes[(k - 1) \div 3 + 1]
       IN  CASE k % 3 = 1 -> Commitment(note) [] k % 3 = 2 -> note.value [] OTHER -> note.source]
MintProvable(notes, instance) == instance = MintCells(notes)

\* Compliance: the source of the note has a null leaf in a tree of known bad sources.
ComplianceCells(note, siblings, bits) ==
    <<MerkleRoot(Zero, siblings, bits), Commitment(note)>>
ComplianceProvable(note, root) ==
    LET bits == Position(note.source)
    IN  ComplianceCells(note, Siblings(root, bits), bits) = <<root, Commitment(note)>>
BadSources(sources) ==
    LET root == BatchInsert(EmptyRoot, SetToSeq(sources)) IN CHOOSE r \in root : TRUE

PointsConstraints(address, total, notes) ==
    /\ \A i \in DOMAIN notes : notes[i].value = 0 \/ notes[i].address = address
    /\ total = Total([i \in DOMAIN notes |-> notes[i].value])

----------------------------------------------------------------------------
Notes == {NewNote(Address(s), v, psi) : s \in Owners, v \in F \ {0}, psi \in Psis}
\* A position is a path: the lowest Depth bits of a leaf.
ASSUME PositionAssumption ==
    \A n \in Notes : /\ Position(Commitment(n)) \in BitSeqs
                     /\ \A s \in Secrets : Position(Nullifier(n, s)) \in BitSeqs
\* A note's source is an address, and no two of those that matter share their low bits.
Sources == {Address(s) : s \in Secrets \cup Owners}
ASSUME SourceAssumption ==
    /\ IsFiniteSet(Secrets)
    /\ \A a \in Sources : /\ Position(a) \in BitSeqs
                          /\ \A b \in Sources : Position(a) = Position(b) => a = b
InRangeNotes == {n \in Notes : n.value \in RangeChecked}
Owned(root) == {n \in Notes : Commitment(n) \in Leaves(root)}
Inputs(root) == {PaddingInput} \cup {Spend(n, s) : n \in Owned(root), s \in Secrets}
Outputs == {PaddingNote} \cup Notes
Kinds == {Null, Transfer, MintKind, BurnKind}

\* What a prover can prove against a root.
Provable(root) ==
    {UtxoInstance(w) : w \in
       {w \in [kind : Kinds, inputs : Inputs(root) \X Inputs(root),
               outputs : Outputs \X Outputs, root : {root}] : UtxoConstraints(w)}}

CurrentRoot == roots[Len(roots)]
Income(insts) == FoldFunction(+, 0, [i \in DOMAIN insts |-> IF IsMint(insts[i]) THEN insts[i].value ELSE 0])
Expense(insts) == FoldFunction(+, 0, [i \in DOMAIN insts |-> IF IsBurn(insts[i]) THEN insts[i].value ELSE 0])

CircuitsInit == /\ row = NoRow
                /\ roots = <<EmptyRoot>>
                /\ minted = 0 /\ burned = 0

\* generate_aggregate_proof: the second aggregate starts at the first one's new root.
AggregateProofs(a, inst) ==
    UNION {AggregateAgg(a, b) : b \in AggregateUtxo(a.new, <<inst>>)}

\* A block of two aggregates is verified against the current root; its UTXO
\* proofs may refer to any root the contract still knows.
VerifyBlock ==
    /\ Len(roots) <= MaxBlocks
    /\ \E proofs \in {UNION {Provable(r) : r \in ToSet(roots)}} :
           \E t \in proofs : \E a \in AggregateUtxo(CurrentRoot, <<t>>) :
           \E u \in proofs : \E agg \in AggregateProofs(a, u) :
              /\ agg.new # CurrentRoot
              /\ roots' = Append(roots, agg.new)
              /\ minted' = minted + Income(agg.utxos)
              /\ burned' = burned + Expense(agg.utxos)
    /\ UNCHANGED row

CircuitsNext == \/ VerifyBlock
                \/ Len(roots) = 1 /\ ChipsNext /\ UNCHANGED <<roots, minted, burned>>

CircuitsSpec == CircuitsInit /\ [][CircuitsNext]_circuitVars

----------------------------------------------------------------------------
Unspent(root) == {n \in Owned(root) : \A s \in Secrets : Nullifier(n, s) \notin Leaves(root)}

(* What the notes that can still be spent are worth is exactly what was    *)
(* minted and not burned, whatever the provers choose: for every kind, two *)
(* references to one note, values near the modulus, and proofs that refer  *)
(* to an older root (utxo.rs, insert/batch.rs, aggregate.rs).              *)
ValueConserved ==
    minted - burned = MapThenSumSet(LAMBDA n : n.value, Unspent(CurrentRoot))

(* The tree only grows: a leaf of a root is in every later root, so what   *)
(* was spent stays spent (insert.rs: the old root must have a null leaf).  *)
LeavesStay == [][Leaves(CurrentRoot) \subseteq Leaves(CurrentRoot)']_roots

\* The circuits that need no tree: what is computed outside of each is what its
\* cells hold.  A note can be shown compliant when its source is not listed.
SmallCircuitsMatch ==
    /\ \A n \in Notes, s \in Secrets :
          /\ BurnToPublic(n, s, 1, 1) = BurnToCells(n, s, 1, 1)
          /\ BurnPublic(n, s, 1) = BurnCells(n, s, 1)
          /\ PointsConstraints(n.address, n.value, <<n, PaddingNote>>)
          /\ MintProvable(<<n, PaddingNote>>, MintPublic(<<n, PaddingNote>>))
    /\ \A n \in Notes, bad \in SUBSET {Address(s) : s \in Secrets} :
          ComplianceProvable(n, BadSources(bad)) <=> n.source \notin bad

(* The public inputs that the prover computes natively are those of the    *)
(* circuit, for every transaction its constructors make: a proof never     *)
(* fails for them (Utxo::public_inputs against enforce_constraints).  Of   *)
(* the requests to prove_transfer this holds but for a mint or a burn of   *)
(* two notes: those satisfy the circuit but not the public inputs that are *)
(* computed for them, and are never proved.                                *)
PublicInputsMatch ==
    /\ \A n \in InRangeNotes :
          \A w \in {NewMint(n)} \cup {NewBurn(Spend(m, s), CurrentRoot) :
                                         m \in Owned(CurrentRoot), s \in {n.address[1]}} :
             UtxoConstraints(w) => PublicInputs(w) = UtxoInstance(w)
    /\ \A k \in Kinds, outputs \in BoundedSeq(InRangeNotes, 2),
          inputs \in BoundedSeq({Spend(n, n.address[1]) : n \in Owned(CurrentRoot)}, 2) :
          LET w == ProveTransfer(k, inputs, outputs, CurrentRoot) IN
          UtxoConstraints(w) =>
             (PublicInputs(w) = UtxoInstance(w) <=>
                \A i \in DOMAIN Accounted(w) : i = 1 \/ Accounted(w)[i].value = 0)
    /\ UtxoConstraints(NewPadding) /\ PublicInputs(NewPadding) = UtxoInstance(NewPadding)
    /\ SmallCircuitsMatch
============================================================================
