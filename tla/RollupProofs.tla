---------------------------- MODULE RollupProofs ----------------------------
(***************************************************************************)
(* What the contract and the provers keep, for every chain, any number of  *)
(* provers and any number of crashes, dropped transactions and fast        *)
(* snapshots, with or without a burn substitutor.                          *)
(***************************************************************************)
EXTENDS RollupSystem, BoundedSets, FiniteSetTheorems

Proofs == [height : Nat, old : SUBSET Nat, new : SUBSET Nat]
Burns == Ids("burn")

ContractTypeOK ==
    /\ tip \in Nat /\ 1 .. tip \subseteq Heights
    /\ contract \in [height : Nat, root : SUBSET Nat, mints : SUBSET Ids("mint"),
                     kind : [Burns -> {0, 1}],
                     burns : [Burns -> [to : Accounts \cup {"none"}, amount : {0, 1}]],
                     toRouter : SUBSET Burns, substituted : SUBSET Burns,
                     rolledUp : SUBSET (Ids("mint") \cup Burns)]
    /\ usdc \in [Accounts -> Int]
    /\ blacklist \subseteq Burns

Workers == [pc : {"down", "fill", "filled", "check", "wipe", "stream", "skipped",
                  "prove", "apply", "seen", "insert"}, at : Nat, init : Nat]
RollupWorkers == [pc : {"idle", "picked", "ready", "sent"}, proof : Proofs]
Disks == [tree : SUBSET Nat, seen : Nat, root : SUBSET Nat, rollups : SUBSET Proofs]

ProverTypeOK ==
    /\ pv \in [Provers -> Workers]
    /\ rw \in [Provers -> RollupWorkers]
    /\ disk \in [Provers -> Disks]
    /\ rows \subseteq Proofs
    /\ locks \subseteq Provers \X Nat \X {"prove", "roll"}
    /\ pool \in [Provers -> Proofs]
    /\ gaps \in [Provers -> SUBSET Nat]

(* A proof leads from the root of the block before to the root of its      *)
(* block, which has a transaction.                                         *)
Proves(r, t) == /\ r.height \in 1 .. t /\ HasTxn(r.height)
                /\ r.old = Root(r.height - 1) /\ r.new = Root(r.height)

(* So do all proofs, on a disk, in Postgres, in a rollup worker or in      *)
(* Ethereum's pool.                                                        *)
ProofsInv ==
    /\ \A r \in rows : Proves(r, tip)
    /\ \A p \in Provers : /\ \A r \in disk[p].rollups : Proves(r, tip)
                          /\ rw[p].pc # "idle" => Proves(rw[p].proof, tip)
                          /\ pool[p] # NoProof => Proves(pool[p], tip)

(* The block that a prover works on is one of the chain, and once it is    *)
(* proved the proof is on the disk.                                        *)
WorkInv == \A p \in Provers :
    /\ disk[p].tree \subseteq 1 .. tip
    /\ pv[p].pc = "stream" => pv[p].at > 0
    /\ pv[p].pc \in {"skipped", "prove", "apply", "seen", "insert"} =>
           pv[p].at \in 1 .. tip /\ HasTxn(pv[p].at)
    /\ pv[p].pc \in {"apply", "seen", "insert"} =>
           \E r \in disk[p].rollups : r.height = pv[p].at

(* The contract's root is the chain's root at the contract's height.       *)
RootInv == contract.height <= tip /\ contract.root = Root(contract.height)

IInv == ContractTypeOK /\ ProverTypeOK /\ ProofsInv /\ WorkInv /\ RootInv

(* On a disk the tree is that of some block, and the root of the last      *)
(* block seen is the chain's; a running worker's tree is that of the block *)
(* it works on or of the one before.  A fast snapshot breaks this.         *)
TreeMatches(t, w, d) ==
    /\ d.root = Root(d.seen)
    /\ \E n \in 0 .. t : d.tree = Root(n)
    /\ w.pc \in {"stream", "prove", "apply"} => d.tree = Root(w.at - 1)
    /\ w.pc \in {"filled", "skipped", "seen", "insert"} => d.tree = Root(w.at)
TreeInv == \A p \in Provers : gaps[p] = {} => TreeMatches(tip, pv[p], disk[p])

(* Two provers do not have the locks of one block, and the one that proves *)
(* a block has its lock; Postgres has no proof of it.                      *)
LockInv ==
    /\ \A l, m \in locks : l[2] = m[2] => l[1] = m[1]
    /\ \A p \in Provers : pv[p].pc \in {"prove", "apply", "seen", "insert"} =>
           <<p, pv[p].at, "prove">> \in locks /\ \A r \in rows : r.height # pv[p].at

(* A burn is the user's until it is substituted, then the substitutor's;   *)
(* who was paid, was paid by a substitution or by the rollup of the block. *)
BurnOk(c, u, b) ==
    /\ u[b] \in {0, 1}
    /\ u[b] = 1 => b \in c.substituted \cup c.rolledUp
    /\ b \in c.substituted => /\ u[b] = 1 /\ c.kind[b] = 0
                              /\ c.burns[b].to = Substitutor /\ c.burns[b].amount = 1
    /\ b \notin c.substituted /\ c.burns[b].amount # 0 => c.burns[b].to = b
    /\ b \in c.rolledUp =>
           /\ Found(c, b)
           /\ \E h \in 1 .. c.height : Chain[h].kind = "burn" /\ Chain[h].id = b
BurnInv == \A b \in Burns : BurnOk(contract, usdc, b)

----------------------------------------------------------------------------
\* A root has numbers up to its height, and a block is not below itself.
LEMMA RootFacts ==
    /\ \A h \in Nat : Root(h) \subseteq 1 .. h
    /\ \A h \in Nat \ {0} : /\ h \notin Root(h - 1)
                            /\ Root(h) = IF HasTxn(h) THEN Root(h - 1) \cup {h} ELSE Root(h - 1)
<1>1. \A h \in Nat : Root(h) \subseteq 1 .. h
  BY DEF Root
<1>2. ASSUME NEW h \in Nat \ {0}
      PROVE  /\ h \notin Root(h - 1)
             /\ Root(h) = IF HasTxn(h) THEN Root(h - 1) \cup {h} ELSE Root(h - 1)
  <2>1. 1 .. h = (1 .. h - 1) \cup {h} /\ h \notin 1 .. h - 1
    OBVIOUS
  <2> QED BY <2>1 DEF Root
<1> QED BY <1>1, <1>2
----------------------------------------------------------------------------
\* What a block's transaction adds, and whom it pays.
LEMMA TxnFacts ==
    ASSUME ContractTypeOK, NEW h \in Heights
    PROVE  /\ Chain[h].kind = "burn" => Chain[h].id \in Burns
           /\ VerifyTxnLeaves(Chain[h]) \subseteq Ids("mint") \cup Burns
<1>1. \A kind : Chain[h].kind = kind => Chain[h].id \in Ids(kind)
  BY DEF Ids
<1> QED BY <1>1 DEF VerifyTxnLeaves, Burns

\* A burn is paid to an account.
LEMMA ReceiverFacts ==
    ASSUME ContractTypeOK, NEW b \in Burns
    PROVE  BurnReceiver(contract, b) \in Accounts \cup {"none"}
BY DEF ContractTypeOK, BurnReceiver, Accounts, Burns

\* Transfers keep the balances numbers.
LEMMA TransferFacts ==
    ASSUME NEW u \in [Accounts -> Int], NEW from \in Accounts, NEW to \in Accounts \cup {"none"}
    PROVE  Transfer(u, from, to) \in [Accounts -> Int]
BY DEF Transfer

\* The calls keep the types of the contract.
LEMMA ContractTypes ==
    ASSUME ContractTypeOK
    PROVE  /\ UserNext => ContractTypeOK'
           /\ \A r \in Proofs : Proves(r, tip) /\ VerifyBlock2(r) => ContractTypeOK'
           /\ \A b \in Burns : SubstituteBurn(b) => ContractTypeOK'
           /\ UNCHANGED rollupVars => ContractTypeOK'
<1> USE DEF ContractTypeOK
<1>a. Substitutor \in Accounts /\ "contract" \in Accounts /\ Burns \subseteq Accounts
  BY DEF Accounts, Burns
<1>1. ASSUME NEW m \in Ids("mint"), Mint(m) PROVE ContractTypeOK'
  BY <1>1, <1>a DEF Mint
<1>2. ASSUME NEW b \in Burns, BurnToAddress(b) PROVE ContractTypeOK'
  BY <1>2, <1>a DEF BurnToAddress
<1>3. ASSUME NEW b \in Burns, BurnToRouter(b) PROVE ContractTypeOK'
  BY <1>3, <1>a DEF BurnToRouter
<1>4. ASSUME NEW b \in Burns, Blacklist(b) PROVE ContractTypeOK'
  BY <1>4, <1>a DEF Blacklist
<1>5. ASSUME Produce PROVE ContractTypeOK'
  <2>1. tip' \in Nat /\ 1 .. tip' \subseteq Heights
    BY <1>5 DEF Produce
  <2>2. UNCHANGED <<contract, usdc, blacklist>>
    BY <1>5 DEF Produce
  <2> QED BY <2>1, <2>2
<1>6. ASSUME UNCHANGED rollupVars PROVE ContractTypeOK'
  BY <1>6 DEF rollupVars
<1>7. ASSUME NEW r \in Proofs, Proves(r, tip), VerifyBlock2(r) PROVE ContractTypeOK'
  <2>1. CASE ~VerifyBlockOk(r)
    BY <1>6, <1>7, <2>1 DEF VerifyBlock2
  <2>2. CASE VerifyBlockOk(r)
    <3>1. r.height \in Heights
      BY <1>7 DEF Proves
    <3>2. VerifyTxnUsdc(Chain[r.height]) \in [Accounts -> Int]
      BY <1>a, <3>1, TxnFacts, ReceiverFacts, TransferFacts DEF VerifyTxnUsdc
    <3>3. VerifyTxnLeaves(Chain[r.height]) \subseteq Ids("mint") \cup Burns
      BY <3>1, TxnFacts
    <3>4. /\ usdc' = VerifyTxnUsdc(Chain[r.height])
          /\ contract' = [contract EXCEPT !.root = r.new, !.height = r.height,
                                 !.rolledUp = @ \cup VerifyTxnLeaves(Chain[r.height])]
          /\ UNCHANGED <<tip, blacklist>>
      BY <1>7, <2>2 DEF VerifyBlock2
    <3>5. r.new \in SUBSET Nat /\ r.height \in Nat
      BY DEF Proofs
    <3> QED BY <3>2, <3>3, <3>4, <3>5
  <2> QED BY <2>1, <2>2
<1>8. ASSUME NEW b \in Burns, SubstituteBurn(b) PROVE ContractTypeOK'
  <2>1. CASE ~SubstituteOk(b)
    BY <1>6, <1>8, <2>1 DEF SubstituteBurn
  <2>2. CASE SubstituteOk(b)
    <3>1. Transfer(usdc, Substitutor, "contract") \in [Accounts -> Int]
      BY <1>a, TransferFacts
    <3>2. usdc' \in [Accounts -> Int]
      BY <1>a, <1>8, <2>2, <3>1, ReceiverFacts, TransferFacts DEF SubstituteBurn
    <3>3. /\ contract' = [contract EXCEPT !.substituted = @ \cup {b}, !.kind[b] = 0,
                                 !.burns[b] = [to |-> Substitutor, amount |-> 1]]
          /\ UNCHANGED <<tip, blacklist>>
      BY <1>8, <2>2 DEF SubstituteBurn
    <3> QED BY <1>a, <3>2, <3>3
  <2> QED BY <2>1, <2>2
<1> HIDE DEF ContractTypeOK
<1> QED BY <1>1, <1>2, <1>3, <1>4, <1>5, <1>6, <1>7, <1>8 DEF UserNext, Burns
\* What a prover fills in are blocks of the chain; the last one has the number at.
LEMMA FillFacts ==
    ASSUME ContractTypeOK, ProverTypeOK, NEW p \in Provers
    PROVE  /\ Missing(p) \subseteq 1 .. tip
           /\ LET at == Max({0} \cup {InsertedIn(p, h) : h \in Missing(p)})
              IN  /\ at \in 0 .. tip
                  /\ \A h \in Missing(p) : InsertedIn(p, h) <= at
                  /\ at # 0 => \E h \in Missing(p) : InsertedIn(p, h) = at
<1> USE DEF ContractTypeOK
<1> DEFINE S == {0} \cup {InsertedIn(p, h) : h \in Missing(p)}
<1>1. Missing(p) \subseteq 1 .. tip
  BY RootFacts DEF Missing
<1>2. S \subseteq 0 .. tip /\ S # {}
  BY <1>1 DEF InsertedIn
<1>3. Max(S) \in S /\ \A y \in S : y <= Max(S)
  <2> HIDE DEF S
  <2> QED BY <1>2, MaxOf
<1>4. Max(S) \in 0 .. tip
  <2> HIDE DEF S
  <2> QED BY <1>2, <1>3
<1>5. \A h \in Missing(p) : InsertedIn(p, h) <= Max(S)
  BY <1>3
<1>6. Max(S) # 0 => \E h \in Missing(p) : InsertedIn(p, h) = Max(S)
  BY <1>3
<1> QED BY <1>1, <1>4, <1>5, <1>6

\* The end of a process keeps the types.
LEMMA ExitTypes ==
    ASSUME ProverTypeOK, NEW p \in Provers, Exit(p)
    PROVE  /\ pv' \in [Provers -> Workers]
           /\ rw' \in [Provers -> RollupWorkers]
           /\ locks' \subseteq Provers \X Nat \X {"prove", "roll"}
<1>1. Down \in Workers /\ RollupIdle \in RollupWorkers
  BY DEF Down, RollupIdle, NoProof, Proofs, Workers, RollupWorkers
<1> QED BY <1>1 DEF Exit, ProverTypeOK

\* The assignments to one field or two, written out.
SetPcAt(p, pc, at) == pv' = [pv EXCEPT ![p].pc = pc, ![p].at = at]
LEMMA Fields ==
    ASSUME ProverTypeOK, NEW p \in Provers
    PROVE  /\ \A pc : Go(p, pc) =>
                  pv' = [pv EXCEPT ![p] = [pc |-> pc, at |-> pv[p].at, init |-> pv[p].init]]
           /\ \A pc, at : SetPcAt(p, pc, at) =>
                  pv' = [pv EXCEPT ![p] = [pc |-> pc, at |-> at, init |-> pv[p].init]]
           /\ Next1(p) =>
                  pv' = [pv EXCEPT ![p] = [pc |-> "stream", at |-> pv[p].at + 1, init |-> pv[p].init]]
           /\ \A h, root : SetLastSeen(p, h, root) =>
                  disk' = [disk EXCEPT ![p] = [tree |-> disk[p].tree, seen |-> h, root |-> root,
                                               rollups |-> disk[p].rollups]]
           /\ \A tree : disk' = [disk EXCEPT ![p].tree = tree] =>
                  disk' = [disk EXCEPT ![p] = [tree |-> tree, seen |-> disk[p].seen,
                                               root |-> disk[p].root, rollups |-> disk[p].rollups]]
<1>1. pv[p] = [pc |-> pv[p].pc, at |-> pv[p].at, init |-> pv[p].init]
  BY DEF ProverTypeOK, Workers
<1>2. disk[p] = [tree |-> disk[p].tree, seen |-> disk[p].seen, root |-> disk[p].root,
                 rollups |-> disk[p].rollups]
  BY DEF ProverTypeOK, Disks
<1>3. p \in DOMAIN pv /\ p \in DOMAIN disk
  BY DEF ProverTypeOK
<1>4. \A pc : Go(p, pc) => pv' = [pv EXCEPT ![p] = [pc |-> pc, at |-> pv[p].at, init |-> pv[p].init]]
  BY <1>1 DEF Go
<1>5. \A pc, at : [pv EXCEPT ![p].pc = pc, ![p].at = at]
                   = [pv EXCEPT ![p] = [pc |-> pc, at |-> at, init |-> pv[p].init]]
  <2> TAKE pc, at
  <2> DEFINE f == [pv EXCEPT ![p].pc = pc]
  <2>1. f = [pv EXCEPT ![p] = [pc |-> pc, at |-> pv[p].at, init |-> pv[p].init]]
    <3>1. [pv[p] EXCEPT !.pc = pc] = [pc |-> pc, at |-> pv[p].at, init |-> pv[p].init]
      BY <1>1
    <3> QED BY <3>1
  <2>2. p \in DOMAIN f /\ f[p] = [pc |-> pc, at |-> pv[p].at, init |-> pv[p].init]
    BY <1>3, <2>1
  <2>3. [f EXCEPT ![p].at = at] = [f EXCEPT ![p] = [pc |-> pc, at |-> at, init |-> pv[p].init]]
    <3> HIDE DEF f
    <3>1. [f[p] EXCEPT !.at = at] = [pc |-> pc, at |-> at, init |-> pv[p].init]
      BY <2>2
    <3> QED BY <3>1
  <2>4. [f EXCEPT ![p] = [pc |-> pc, at |-> at, init |-> pv[p].init]]
        = [pv EXCEPT ![p] = [pc |-> pc, at |-> at, init |-> pv[p].init]]
    <3> HIDE DEF f
    <3> QED BY <2>1
  <2> QED BY <2>3, <2>4
<1>6. \A h, root : [disk EXCEPT ![p].seen = h, ![p].root = root]
          = [disk EXCEPT ![p] = [tree |-> disk[p].tree, seen |-> h, root |-> root,
                                 rollups |-> disk[p].rollups]]
  <2> TAKE h, root
  <2> DEFINE f == [disk EXCEPT ![p].seen = h]
  <2>1. f = [disk EXCEPT ![p] = [tree |-> disk[p].tree, seen |-> h, root |-> disk[p].root,
                                 rollups |-> disk[p].rollups]]
    <3>1. [disk[p] EXCEPT !.seen = h] = [tree |-> disk[p].tree, seen |-> h, root |-> disk[p].root,
                                         rollups |-> disk[p].rollups]
      BY <1>2
    <3> QED BY <3>1
  <2>2. p \in DOMAIN f /\ f[p] = [tree |-> disk[p].tree, seen |-> h, root |-> disk[p].root,
                                  rollups |-> disk[p].rollups]
    BY <1>3, <2>1
  <2> DEFINE d == [tree |-> disk[p].tree, seen |-> h, root |-> root, rollups |-> disk[p].rollups]
  <2>3. [f EXCEPT ![p].root = root] = [f EXCEPT ![p] = d]
    <3> HIDE DEF f
    <3>1. [f[p] EXCEPT !.root = root] = d
      BY <2>2
    <3> QED BY <3>1
  <2>4. [f EXCEPT ![p] = d] = [disk EXCEPT ![p] = d]
    <3> HIDE DEF f, d
    <3> QED BY <2>1
  <2> QED BY <2>3, <2>4
<1>7. \A tree : [disk EXCEPT ![p].tree = tree]
          = [disk EXCEPT ![p] = [tree |-> tree, seen |-> disk[p].seen,
                                 root |-> disk[p].root, rollups |-> disk[p].rollups]]
  <2> TAKE tree
  <2>1. [disk[p] EXCEPT !.tree = tree] = [tree |-> tree, seen |-> disk[p].seen,
                                 root |-> disk[p].root, rollups |-> disk[p].rollups]
    BY <1>2
  <2> QED BY <2>1
<1> QED BY <1>4, <1>5, <1>6, <1>7 DEF Next1, SetLastSeen, SetPcAt

\* So do the steps of the prover worker.
LEMMA ProverTypes ==
    ASSUME ContractTypeOK, ProverTypeOK, WorkInv, NEW p \in Provers, ProverStep(p)
    PROVE  ProverTypeOK'
<1>a. BlockHeight \in Nat /\ tip \in Nat
  BY DEF ContractTypeOK, BlockHeight
<1>b. \A h : Root(h) \subseteq Nat
  BY DEF Root
<1>c. ASSUME NEW r \in Workers, pv' = [pv EXCEPT ![p] = r] PROVE pv' \in [Provers -> Workers]
  BY <1>c DEF ProverTypeOK
<1>d. ASSUME NEW d \in Disks, disk' = [disk EXCEPT ![p] = d] PROVE disk' \in [Provers -> Disks]
  BY <1>d DEF ProverTypeOK
<1>e. ASSUME NEW pc, Go(p, pc), pc \in {"check", "wipe", "skipped", "prove", "apply", "seen", "insert"}
      PROVE  pv' \in [Provers -> Workers]
  <2>1. [pc |-> pc, at |-> pv[p].at, init |-> pv[p].init] \in Workers
    BY <1>e DEF ProverTypeOK, Workers
  <2> QED BY <1>c, <1>e, <2>1, Fields
<1>f. Next1(p) => pv' \in [Provers -> Workers]
  <2>1. [pc |-> "stream", at |-> pv[p].at + 1, init |-> pv[p].init] \in Workers
    BY DEF ProverTypeOK, Workers
  <2> QED BY <1>c, <2>1, Fields
<1>g. ASSUME NEW h \in Nat, NEW root \in SUBSET Nat, SetLastSeen(p, h, root)
      PROVE  disk' \in [Provers -> Disks]
  <2>1. [tree |-> disk[p].tree, seen |-> h, root |-> root, rollups |-> disk[p].rollups] \in Disks
    BY DEF ProverTypeOK, Disks
  <2> QED BY <1>d, <1>g, <2>1, Fields
<1>h. ASSUME NEW tree \in SUBSET Nat, disk' = [disk EXCEPT ![p].tree = tree]
      PROVE  disk' \in [Provers -> Disks]
  <2>1. [tree |-> tree, seen |-> disk[p].seen, root |-> disk[p].root, rollups |-> disk[p].rollups] \in Disks
    BY DEF ProverTypeOK, Disks
  <2> QED BY <1>d, <1>h, <2>1, Fields
<1>i. pv[p].at \in Nat /\ disk[p].tree \in SUBSET Nat /\ disk[p].seen \in Nat
  BY DEF ProverTypeOK, Workers, Disks
<1>j. UNCHANGED disk => disk' \in [Provers -> Disks]
  BY DEF ProverTypeOK
<1>k. UNCHANGED <<rw, locks>> => /\ rw' \in [Provers -> RollupWorkers]
                                /\ locks' \subseteq Provers \X Nat \X {"prove", "roll"}
  BY DEF ProverTypeOK
<1>l. UNCHANGED <<rows, pool, gaps>> =>
          rows' \subseteq Proofs /\ pool' \in [Provers -> Proofs] /\ gaps' \in [Provers -> SUBSET Nat]
  BY DEF ProverTypeOK
<1>m. ASSUME NEW then \in {"skipped", "seen"}, ApplyBlock(p, pv[p].at, then), UNCHANGED <<rows, pool, gaps>>
      PROVE  ProverTypeOK'
  <2>1. CASE Exit(p) /\ UNCHANGED disk
    BY <1>j, <1>l, <1>m, <2>1, ExitTypes DEF ProverTypeOK
  <2>2. CASE /\ disk' = [disk EXCEPT ![p].tree = @ \cup {pv[p].at}]
             /\ Go(p, then) /\ UNCHANGED <<rw, locks>>
    <3>1. disk[p].tree \cup {pv[p].at} \in SUBSET Nat
      BY <1>i
    <3>2. disk' \in [Provers -> Disks]
      BY <1>h, <2>2, <3>1
    <3> QED BY <1>e, <1>k, <1>l, <1>m, <2>2, <3>2 DEF ProverTypeOK
  <2> QED BY <1>m, <2>1, <2>2 DEF ApplyBlock
<1>1. CASE Boot(p)
  <2>1. [pc |-> "fill", at |-> 0, init |-> BlockHeight] \in Workers
    BY <1>a DEF Workers
  <2> QED BY <1>1, <1>c, <1>j, <1>k, <1>l, <2>1 DEF Boot, ProverTypeOK
<1>2. CASE Fill(p)
  <2> DEFINE at == Max({0} \cup {InsertedIn(p, h) : h \in Missing(p)})
             pc == IF Missing(p) = {} THEN "check" ELSE "filled"
  <2>1. Missing(p) \subseteq Nat /\ at \in Nat
    BY <1>a, FillFacts
  <2>2. SetPcAt(p, pc, at)
    BY <1>2 DEF Fill, SetPcAt
  <2>3. [pc |-> pc, at |-> at, init |-> pv[p].init] \in Workers
    BY <2>1 DEF ProverTypeOK, Workers
  <2>4. pv' \in [Provers -> Workers]
    <3> HIDE DEF at, pc
    <3>1. pv' = [pv EXCEPT ![p] = [pc |-> pc, at |-> at, init |-> pv[p].init]]
      BY <2>2, Fields
    <3> QED BY <1>c, <2>3, <3>1
  <2>5. disk[p].tree \cup Missing(p) \in SUBSET Nat
    BY <1>i, <2>1
  <2>6. disk' \in [Provers -> Disks]
    BY <1>2, <1>h, <2>5 DEF Fill
  <2> HIDE DEF at, pc
  <2> QED BY <1>2, <1>k, <1>l, <2>4, <2>6 DEF Fill, ProverTypeOK
<1>3. CASE FillSeen(p)
  BY <1>3, <1>e, <1>g, <1>i, <1>k, <1>l DEF FillSeen, ProverTypeOK
<1>4. CASE Check(p)
  <2>1. UNCHANGED <<rw, rows, locks, pool, gaps>>
    BY <1>4 DEF Check
  <2>2. CASE pv' = [pv EXCEPT ![p].pc = "stream", ![p].at = disk[p].seen + 1] /\ UNCHANGED disk
    <3>1. [pc |-> "stream", at |-> disk[p].seen + 1, init |-> pv[p].init] \in Workers
      BY <1>i DEF ProverTypeOK, Workers
    <3>2. pv' \in [Provers -> Workers]
      <4>1. SetPcAt(p, "stream", disk[p].seen + 1)
        BY <2>2 DEF SetPcAt
      <4>2. pv' = [pv EXCEPT ![p] = [pc |-> "stream", at |-> disk[p].seen + 1, init |-> pv[p].init]]
        BY <4>1, Fields
      <4> QED BY <1>c, <3>1, <4>2
    <3> QED BY <1>j, <1>k, <1>l, <2>1, <2>2, <3>2 DEF ProverTypeOK
  <2>3. CASE SetLastSeen(p, 0, {}) /\ Go(p, "wipe")
    BY <1>e, <1>g, <1>k, <1>l, <2>1, <2>3 DEF ProverTypeOK
  <2> QED BY <1>4, <2>2, <2>3 DEF Check
<1>5. CASE Wipe(p)
  <2>1. disk' \in [Provers -> Disks]
    <3>1. disk' = [disk EXCEPT ![p].tree = {}]
      BY <1>5 DEF Wipe
    <3>2. {} \in SUBSET Nat
      OBVIOUS
    <3> QED BY <1>h, <3>1, <3>2
  <2> QED BY <1>5, <1>l, <2>1, ExitTypes DEF Wipe, ProverTypeOK
<1>6. CASE StreamGap(p)
  BY <1>6, <1>f, <1>j, <1>k, <1>l DEF StreamGap, ProverTypeOK
<1>7. CASE StreamEmpty(p)
  BY <1>7, <1>b, <1>f, <1>g, <1>i, <1>k, <1>l DEF StreamEmpty, ProverTypeOK
<1>8. CASE StreamSkip(p)
  BY <1>8, <1>m DEF StreamSkip
<1>9. CASE SkipSeen(p)
  BY <1>9, <1>b, <1>f, <1>g, <1>i, <1>k, <1>l DEF SkipSeen, ProverTypeOK
<1>10. CASE StreamLock(p)
  <2>1. locks' \subseteq Provers \X Nat \X {"prove", "roll"}
    BY <1>10, <1>i DEF StreamLock, ProverTypeOK
  <2>2. pv' \in [Provers -> Workers] /\ UNCHANGED <<rw, disk, rows, pool, gaps>>
    BY <1>10, <1>e DEF StreamLock
  <2> QED BY <1>j, <1>l, <2>1, <2>2 DEF ProverTypeOK
<1>11. CASE Prove(p)
  <2>1. NewProof(p, pv[p].at) \in Proofs
    BY <1>i DEF NewProof, Proofs
  <2>2. UNCHANGED <<rows, pool, gaps>>
    BY <1>11 DEF Prove
  <2>3. CASE Exit(p) /\ UNCHANGED disk
    BY <1>j, <1>l, <2>2, <2>3, ExitTypes DEF ProverTypeOK
  <2>4. CASE /\ disk' = [disk EXCEPT ![p].rollups = {r \in @ : r.height # pv[p].at}
                                                       \cup {NewProof(p, pv[p].at)}]
             /\ Go(p, "apply") /\ UNCHANGED <<rw, locks>>
    <3>1. disk' \in [Provers -> Disks]
      BY <2>1, <2>4 DEF ProverTypeOK, Disks
    <3> QED BY <1>e, <1>k, <1>l, <2>2, <2>4, <3>1 DEF ProverTypeOK
  <2> QED BY <1>11, <2>3, <2>4 DEF Prove
<1>12. CASE Apply(p)
  BY <1>12, <1>m DEF Apply
<1>13. CASE Seen(p)
  BY <1>13, <1>b, <1>e, <1>g, <1>i, <1>k, <1>l DEF Seen, ProverTypeOK
<1>14. CASE InsertRow(p)
  <2> DEFINE proof == CHOOSE r \in disk[p].rollups : r.height = pv[p].at
  <2>1. proof \in Proofs
    BY <1>14 DEF InsertRow, WorkInv, ProverTypeOK, Disks
  <2>2. UNCHANGED <<disk, pool, gaps>>
    BY <1>14 DEF InsertRow
  <2>3. CASE Exit(p) /\ UNCHANGED rows
    BY <1>j, <1>l, <2>2, <2>3, ExitTypes DEF ProverTypeOK
  <2>4. CASE rows' = rows \cup {proof} /\ Next1(p) /\ locks' = Unlock(p, "prove") /\ UNCHANGED rw
    <3> HIDE DEF proof
    <3>1. /\ rows' \subseteq Proofs /\ pool' \in [Provers -> Proofs] /\ gaps' \in [Provers -> SUBSET Nat]
          /\ rw' \in [Provers -> RollupWorkers]
      BY <2>1, <2>2, <2>4 DEF ProverTypeOK
    <3>2. locks' \subseteq Provers \X Nat \X {"prove", "roll"}
      BY <2>4 DEF Unlock, ProverTypeOK
    <3> QED BY <1>f, <1>j, <2>2, <2>4, <3>1, <3>2 DEF ProverTypeOK
  <2> QED BY <1>14, <2>3, <2>4 DEF InsertRow
<1> QED BY <1>1, <1>2, <1>3, <1>4, <1>5, <1>6, <1>7, <1>8, <1>9, <1>10, <1>11, <1>12, <1>13, <1>14
        DEF ProverStep

\* What a prover has got of its node is bounded.
LEMMA DeliveredFacts ==
    ASSUME ContractTypeOK, ProverTypeOK, ProofsInv, WorkInv, NEW p \in Provers
    PROVE  Delivered(p) \in Nat
<1> DEFINE at == IF pv[p].pc = "stream" THEN pv[p].at - 1 ELSE pv[p].at
           S == {0, disk[p].seen, at} \cup disk[p].tree \cup {r.height + 1 : r \in disk[p].rollups}
<1>1. at \in Nat /\ disk[p].seen \in Nat /\ tip \in Nat
  BY DEF ProverTypeOK, ContractTypeOK, WorkInv, Workers, Disks
<1>2. disk[p].tree \subseteq 1 .. tip /\ \A r \in disk[p].rollups : r.height \in 1 .. tip
  BY DEF WorkInv, ProofsInv, Proves
<1>3. PICK n \in Nat : n = at + disk[p].seen + tip + 1
  <2> HIDE DEF at
  <2> QED BY <1>1
<1>4. S \subseteq 0 .. n
  <2> HIDE DEF at
  <2> QED BY <1>1, <1>2, <1>3
<1>5. S # {}
  OBVIOUS
<1>6. Max(S) \in S
  <2> HIDE DEF S
  <2> QED BY <1>4, <1>5, MaxOf
<1>7. Max(S) \in Nat
  <2> HIDE DEF S, at
  <2>1. n \in Nat
    BY <1>3
  <2>2. Max(S) \in 0 .. n
    BY <1>4, <1>6
  <2> QED BY <2>1, <2>2
<1> QED BY <1>7 DEF Delivered

\* The rollup worker, Ethereum, crashes and fast snapshots keep the types too.
LEMMA RollupTypes ==
    ASSUME ContractTypeOK, ProverTypeOK, ProofsInv, WorkInv, NEW p \in Provers
    PROVE  /\ RollupStep(p) \/ Drop(p) \/ Crash(p) \/ Jump(p) \/ Mine(p) => ProverTypeOK'
           /\ UNCHANGED proverVars => ProverTypeOK'
<1> USE DEF ProverTypeOK
<1>a. NoProof \in Proofs /\ RollupIdle \in RollupWorkers
  BY DEF RollupIdle, NoProof, Proofs, RollupWorkers
<1>b. \A pc \in {"ready", "sent"} : rw' = [rw EXCEPT ![p].pc = pc] => rw' \in [Provers -> RollupWorkers]
  BY DEF RollupWorkers
<1>c. \A r \in Proofs : \A pc \in {"picked", "ready"} :
          rw' = [rw EXCEPT ![p] = [pc |-> pc, proof |-> r]] => rw' \in [Provers -> RollupWorkers]
  BY DEF RollupWorkers
<1>d. RollupEnds(p) => /\ rw' \in [Provers -> RollupWorkers]
                       /\ locks' \subseteq Provers \X Nat \X {"prove", "roll"}
  BY <1>a DEF RollupEnds, Unlock
<1>e. \A r \in Proofs : pool' = [pool EXCEPT ![p] = r] => pool' \in [Provers -> Proofs]
  OBVIOUS
<1>1. CASE PickRollup(p)
  <2>1. PICK r \in disk[p].rollups : rw' = [rw EXCEPT ![p] = [pc |-> "picked", proof |-> r]]
    BY <1>1 DEF PickRollup, RollupsAbove
  <2>2. r \in Proofs
    BY DEF Disks
  <2>3. rw' \in [Provers -> RollupWorkers]
    BY <1>c, <2>1, <2>2
  <2> QED BY <1>1, <2>3 DEF PickRollup
<1>2. CASE ReadRoot(p)
  <2>1. UNCHANGED <<pv, disk, rows, pool, gaps>>
    BY <1>2 DEF ReadRoot
  <2>2. CASE rw' = [rw EXCEPT ![p].pc = "ready"] /\ UNCHANGED locks
    BY <1>b, <2>1, <2>2
  <2>3. CASE rw' = [rw EXCEPT ![p] = RollupIdle] /\ UNCHANGED locks
    BY <1>a, <2>1, <2>3
  <2>4. CASE \E r \in rows : /\ rw' = [rw EXCEPT ![p] = [pc |-> "ready", proof |-> r]]
                             /\ locks' = locks \cup {<<p, r.height, "roll">>}
    <3>1. PICK r \in rows : /\ rw' = [rw EXCEPT ![p] = [pc |-> "ready", proof |-> r]]
                            /\ locks' = locks \cup {<<p, r.height, "roll">>}
      BY <2>4
    <3>2. r \in Proofs /\ r.height \in Nat
      BY DEF Proofs
    <3>3. rw' \in [Provers -> RollupWorkers]
      BY <1>c, <3>1, <3>2
    <3> QED BY <2>1, <3>1, <3>2, <3>3
  <2> QED BY <1>2, <2>2, <2>3, <2>4 DEF ReadRoot
<1>3. CASE SendRollup(p)
  <2>1. UNCHANGED <<pv, disk, rows, gaps>>
    BY <1>3 DEF SendRollup
  <2>2. CASE /\ pool' = [pool EXCEPT ![p] = rw[p].proof]
             /\ rw' = [rw EXCEPT ![p].pc = "sent"] /\ UNCHANGED locks
    <3>1. rw[p].proof \in Proofs
      BY DEF RollupWorkers
    <3> QED BY <1>b, <1>e, <2>1, <2>2, <3>1
  <2>3. CASE RollupEnds(p) /\ UNCHANGED pool
    BY <1>d, <2>1, <2>3
  <2> QED BY <1>3, <2>2, <2>3 DEF SendRollup
<1>4. CASE RollupDone(p)
  BY <1>4, <1>d DEF RollupDone
<1>5. CASE Drop(p) \/ Mine(p)
  <2>1. /\ pool' = [pool EXCEPT ![p] = NoProof]
        /\ UNCHANGED <<pv, rw, disk, rows, locks, gaps>>
    BY <1>5 DEF Drop, Mine
  <2> QED BY <1>a, <1>e, <2>1
<1>6. CASE Crash(p)
  BY <1>6, ExitTypes DEF Crash
<1>7. CASE Jump(p)
  <2>1. PICK h \in Delivered(p) + 1 .. BlockHeight - 1 :
            gaps' = [gaps EXCEPT ![p] = h .. BlockHeight - 1]
    BY <1>7 DEF Jump
  <2>2. h .. BlockHeight - 1 \in SUBSET Nat
    <3>1. BlockHeight \in Nat
      BY DEF BlockHeight, ContractTypeOK
    <3>2. Delivered(p) \in Nat
      <4> HIDE DEF ProverTypeOK
      <4> QED BY DeliveredFacts
    <3> QED BY <3>1, <3>2
  <2>3. gaps' \in [Provers -> SUBSET Nat]
    BY <2>1, <2>2
  <2> QED BY <1>7, <2>3 DEF Jump
<1>8. CASE UNCHANGED proverVars
  BY <1>8 DEF proverVars
<1> HIDE DEF ProverTypeOK
<1> QED BY <1>1, <1>2, <1>3, <1>4, <1>5, <1>6, <1>7, <1>8 DEF RollupStep
----------------------------------------------------------------------------
\* What the end of a process leaves.
LEMMA ExitEffects ==
    ASSUME ProverTypeOK, NEW p \in Provers, Exit(p)
    PROVE  /\ pv'[p].pc = "down" /\ \A q \in Provers \ {p} : pv'[q] = pv[q]
           /\ rw' = [rw EXCEPT ![p] = RollupIdle]
           /\ locks' \subseteq locks /\ \A l \in locks : l[1] # p => l \in locks'
BY DEF Exit, ProverTypeOK, Down

\* A step of the prover worker changes nothing of the other provers, sends nothing to
\* Ethereum, and adds to the proofs and the rows only where it says so.
LEMMA ProverEffects ==
    ASSUME ContractTypeOK, ProverTypeOK, NEW p \in Provers, ProverStep(p)
    PROVE  /\ UNCHANGED <<pool, gaps>>
           /\ rw' = rw \/ rw' = [rw EXCEPT ![p] = RollupIdle]
           /\ \A q \in Provers \ {p} : pv'[q] = pv[q] /\ disk'[q] = disk[q]
           /\ rows' = rows \/ InsertRow(p)
           /\ disk'[p].rollups = disk[p].rollups \/ Prove(p)
           /\ \A l \in locks : l[1] # p => l \in locks'
           /\ locks' \subseteq locks \/ StreamLock(p)
           /\ locks' = locks \/ pv'[p].pc = "down" \/ StreamLock(p) \/ InsertRow(p)
<1> DEFINE Others == \A q \in Provers \ {p} : pv'[q] = pv[q] /\ disk'[q] = disk[q]
           Frame == /\ UNCHANGED <<pool, gaps>>
                    /\ rw' = rw \/ rw' = [rw EXCEPT ![p] = RollupIdle]
                    /\ Others
                    /\ \A l \in locks : l[1] # p => l \in locks'
           Same == UNCHANGED <<rw, rows, locks, pool, gaps>>
           SameRollups == disk'[p].rollups = disk[p].rollups
<1>a. pv \in [Provers -> Workers] /\ disk \in [Provers -> Disks]
  BY DEF ProverTypeOK
<1>b. \A r : pv' = [pv EXCEPT ![p] = r] => \A q \in Provers \ {p} : pv'[q] = pv[q]
  BY <1>a
<1>c. \A d : disk' = [disk EXCEPT ![p] = d] => /\ \A q \in Provers \ {p} : disk'[q] = disk[q]
                                               /\ disk'[p] = d
  BY <1>a
<1>d. \A pc : Go(p, pc) => \A q \in Provers \ {p} : pv'[q] = pv[q]
  BY <1>b, Fields
<1>e. Next1(p) => \A q \in Provers \ {p} : pv'[q] = pv[q]
  BY <1>b, Fields
<1>f. \A h, root : SetLastSeen(p, h, root) =>
          SameRollups /\ \A q \in Provers \ {p} : disk'[q] = disk[q]
  BY <1>c, Fields
<1>g. \A tree : disk' = [disk EXCEPT ![p].tree = tree] =>
          SameRollups /\ \A q \in Provers \ {p} : disk'[q] = disk[q]
  BY <1>c, Fields
<1>h. UNCHANGED disk => SameRollups /\ \A q \in Provers \ {p} : disk'[q] = disk[q]
  OBVIOUS
<1>i. ASSUME NEW then, ApplyBlock(p, pv[p].at, then), UNCHANGED <<rows, pool, gaps>>
      PROVE  Frame /\ SameRollups /\ locks' \subseteq locks /\ (locks' = locks \/ pv'[p].pc = "down")
  <2>1. CASE Exit(p) /\ UNCHANGED disk
    BY <1>h, <1>i, <2>1, ExitEffects
  <2>2. CASE /\ disk' = [disk EXCEPT ![p].tree = @ \cup {pv[p].at}]
             /\ Go(p, then) /\ UNCHANGED <<rw, locks>>
    BY <1>d, <1>g, <1>i, <2>2
  <2> QED BY <1>i, <2>1, <2>2 DEF ApplyBlock
<1>1. CASE Boot(p)
  BY <1>1, <1>b, <1>h DEF Boot
<1>2. CASE Fill(p)
  <2>1. PICK pc, at : SetPcAt(p, pc, at)
    BY <1>2 DEF Fill, SetPcAt
  <2>2. \A q \in Provers \ {p} : pv'[q] = pv[q]
    BY <1>b, <2>1, Fields
  <2> QED BY <1>2, <1>g, <2>2 DEF Fill
<1>3. CASE FillSeen(p)
  BY <1>3, <1>d, <1>f DEF FillSeen
<1>4. CASE Check(p)
  <2>1. CASE SetPcAt(p, "stream", disk[p].seen + 1) /\ UNCHANGED disk
    BY <1>4, <1>b, <1>h, <2>1, Fields DEF Check
  <2>2. CASE SetLastSeen(p, 0, {}) /\ Go(p, "wipe")
    BY <1>4, <1>d, <1>f, <2>2 DEF Check
  <2> QED BY <1>4, <2>1, <2>2 DEF Check, SetPcAt
<1>5. CASE Wipe(p)
  <2>1. SameRollups /\ \A q \in Provers \ {p} : disk'[q] = disk[q]
    BY <1>5, <1>g DEF Wipe
  <2> QED BY <1>5, <2>1, ExitEffects DEF Wipe
<1>6. CASE StreamGap(p)
  BY <1>6, <1>e, <1>h DEF StreamGap
<1>7. CASE StreamEmpty(p)
  BY <1>7, <1>e, <1>f DEF StreamEmpty
<1>8. CASE StreamSkip(p)
  BY <1>8, <1>i DEF StreamSkip
<1>9. CASE SkipSeen(p)
  BY <1>9, <1>e, <1>f DEF SkipSeen
<1>10. CASE StreamLock(p)
  BY <1>10, <1>d, <1>h DEF StreamLock
<1>11. CASE Prove(p)
  <2>1. UNCHANGED <<rows, pool, gaps>>
    BY <1>11 DEF Prove
  <2>2. CASE Exit(p) /\ UNCHANGED disk
    BY <1>11, <1>h, <2>1, <2>2, ExitEffects
  <2>3. CASE /\ disk' = [disk EXCEPT ![p].rollups = {r \in @ : r.height # pv[p].at}
                                                       \cup {NewProof(p, pv[p].at)}]
             /\ Go(p, "apply") /\ UNCHANGED <<rw, locks>>
    <3>1. \A q \in Provers \ {p} : disk'[q] = disk[q]
      BY <1>a, <2>3
    <3> QED BY <1>11, <1>d, <2>1, <2>3, <3>1
  <2> QED BY <1>11, <2>2, <2>3 DEF Prove
<1>12. CASE Apply(p)
  BY <1>12, <1>i DEF Apply
<1>13. CASE Seen(p)
  BY <1>13, <1>d, <1>f DEF Seen
<1>14. CASE InsertRow(p)
  <2>1. UNCHANGED <<disk, pool, gaps>>
    BY <1>14 DEF InsertRow
  <2>2. CASE Exit(p) /\ UNCHANGED rows
    BY <1>14, <1>h, <2>1, <2>2, ExitEffects
  <2>3. CASE Next1(p) /\ locks' = Unlock(p, "prove") /\ UNCHANGED rw
    <3>1. locks' \subseteq locks /\ \A l \in locks : l[1] # p => l \in locks'
      BY <2>3 DEF Unlock
    <3> QED BY <1>14, <1>e, <1>h, <2>1, <2>3, <3>1
  <2> QED BY <1>14, <2>2, <2>3 DEF InsertRow
<1> QED BY <1>1, <1>2, <1>3, <1>4, <1>5, <1>6, <1>7, <1>8, <1>9, <1>10, <1>11, <1>12, <1>13, <1>14
        DEF ProverStep
\* The rollup worker, Ethereum, a crash and a fast snapshot touch no disk and no row; a
\* rollup worker takes its proofs from the disk or from Postgres, and sends what it took.
LEMMA RollupEffects ==
    ASSUME ContractTypeOK, ProverTypeOK, ProofsInv, WorkInv, NEW p \in Provers,
           RollupStep(p) \/ Drop(p) \/ Crash(p) \/ Jump(p) \/ Mine(p)
    PROVE  /\ UNCHANGED <<disk, rows>>
           /\ \A q \in Provers :
                /\ pv'[q] = pv[q] \/ pv'[q].pc = "down"
                /\ gaps'[q] = gaps[q] \/ gaps'[q] # {}
                /\ \/ rw'[q].pc = "idle"
                   \/ (rw[q].pc # "idle" /\ rw'[q].proof = rw[q].proof)
                   \/ \E r \in rows \cup disk[q].rollups : rw'[q].proof = r
                /\ \/ pool'[q] = pool[q] \/ pool'[q] = NoProof
                   \/ (rw[q].pc # "idle" /\ pool'[q] = rw[q].proof)
           /\ \A l \in locks' : \/ l \in locks
                                \/ l[1] = p /\ \A m \in locks : m[2] = l[2] => m[1] = p
           /\ \A l \in locks : l[3] = "prove" => l \in locks' \/ pv'[l[1]].pc = "down"
<1> USE DEF ProverTypeOK
<1>a. RollupIdle.pc = "idle"
  BY DEF RollupIdle
<1>b. RollupEnds(p) => /\ \A q \in Provers : rw'[q].pc = "idle" \/ rw'[q] = rw[q]
                       /\ locks' \subseteq locks
                       /\ \A l \in locks : l[3] = "prove" => l \in locks'
  BY <1>a DEF RollupEnds, Unlock
<1>c. \A pc : rw' = [rw EXCEPT ![p].pc = pc] =>
          \A q \in Provers : rw'[q].proof = rw[q].proof /\ (q # p => rw'[q] = rw[q])
  BY DEF RollupWorkers
<1>d. (\A q \in Provers : rw'[q].pc = "idle" \/ rw'[q] = rw[q]) =>
      \A q \in Provers : rw'[q].pc = "idle" \/ (rw[q].pc # "idle" /\ rw'[q].proof = rw[q].proof)
  OBVIOUS
<1>1. CASE PickRollup(p)
  <2>1. PICK r \in disk[p].rollups : rw' = [rw EXCEPT ![p] = [pc |-> "picked", proof |-> r]]
    BY <1>1 DEF PickRollup, RollupsAbove
  <2>2. UNCHANGED <<pv, disk, rows, locks, pool, gaps>>
    BY <1>1 DEF PickRollup
  <2> QED BY <2>1, <2>2
<1>2. CASE ReadRoot(p)
  <2>1. UNCHANGED <<pv, disk, rows, pool, gaps>> /\ rw[p].pc = "picked"
    BY <1>2 DEF ReadRoot
  <2>2. CASE rw' = [rw EXCEPT ![p].pc = "ready"] /\ UNCHANGED locks
    <3>1. \A q \in Provers : rw'[q].pc = "idle" \/ (rw[q].pc # "idle" /\ rw'[q].proof = rw[q].proof)
      BY <1>c, <2>1, <2>2
    <3> QED BY <2>1, <2>2, <3>1
  <2>3. CASE rw' = [rw EXCEPT ![p] = RollupIdle] /\ UNCHANGED locks
    BY <1>a, <2>1, <2>3
  <2>4. CASE \E r \in rows : /\ ~\E l \in locks : l[2] = r.height /\ l[1] # p
                             /\ rw' = [rw EXCEPT ![p] = [pc |-> "ready", proof |-> r]]
                             /\ locks' = locks \cup {<<p, r.height, "roll">>}
    <3>1. PICK r \in rows : /\ ~\E l \in locks : l[2] = r.height /\ l[1] # p
                            /\ rw' = [rw EXCEPT ![p] = [pc |-> "ready", proof |-> r]]
                            /\ locks' = locks \cup {<<p, r.height, "roll">>}
      BY <2>4
    <3>2. \A l \in locks' : l \in locks \/ (l[1] = p /\ \A m \in locks : m[2] = l[2] => m[1] = p)
      BY <3>1
    <3>3. \A q \in Provers : \/ rw'[q].pc = "idle"
                             \/ (rw[q].pc # "idle" /\ rw'[q].proof = rw[q].proof)
                             \/ \E s \in rows \cup disk[q].rollups : rw'[q].proof = s
      BY <3>1
    <3> QED BY <2>1, <3>1, <3>2, <3>3
  <2> QED BY <1>2, <2>2, <2>3, <2>4 DEF ReadRoot
<1>3. CASE SendRollup(p)
  <2>1. UNCHANGED <<pv, disk, rows, gaps>> /\ rw[p].pc = "ready"
    BY <1>3 DEF SendRollup
  <2>2. CASE /\ pool' = [pool EXCEPT ![p] = rw[p].proof]
             /\ rw' = [rw EXCEPT ![p].pc = "sent"] /\ UNCHANGED locks
    <3>1. \A q \in Provers : rw'[q].pc = "idle" \/ (rw[q].pc # "idle" /\ rw'[q].proof = rw[q].proof)
      BY <1>c, <2>1, <2>2
    <3>2. \A q \in Provers : pool'[q] = pool[q] \/ (rw[q].pc # "idle" /\ pool'[q] = rw[q].proof)
      BY <2>1, <2>2
    <3> QED BY <2>1, <2>2, <3>1, <3>2
  <2>3. CASE RollupEnds(p) /\ UNCHANGED pool
    BY <1>b, <1>d, <2>1, <2>3
  <2> QED BY <1>3, <2>2, <2>3 DEF SendRollup
<1>4. CASE RollupDone(p)
  <2>1. UNCHANGED <<pv, disk, rows, pool, gaps>> /\ RollupEnds(p)
    BY <1>4 DEF RollupDone
  <2> QED BY <1>b, <1>d, <2>1
<1>5. CASE Drop(p) \/ Mine(p)
  <2>1. /\ pool' = [pool EXCEPT ![p] = NoProof]
        /\ UNCHANGED <<pv, rw, disk, rows, locks, gaps>>
    BY <1>5 DEF Drop, Mine
  <2> QED BY <2>1
<1>6. CASE Crash(p)
  <2>1. Exit(p) /\ UNCHANGED <<disk, rows, pool, gaps>>
    BY <1>6 DEF Crash
  <2>2. /\ pv'[p].pc = "down" /\ \A q \in Provers \ {p} : pv'[q] = pv[q]
        /\ rw' = [rw EXCEPT ![p] = RollupIdle]
        /\ locks' \subseteq locks /\ \A l \in locks : l[1] # p => l \in locks'
    <3> HIDE DEF ProverTypeOK
    <3> QED BY <2>1, ExitEffects
  <2> QED BY <1>a, <2>1, <2>2
<1>7. CASE Jump(p)
  <2>1. PICK h \in Delivered(p) + 1 .. BlockHeight - 1 :
            gaps' = [gaps EXCEPT ![p] = h .. BlockHeight - 1]
    BY <1>7 DEF Jump
  <2>2. h .. BlockHeight - 1 # {}
    <3>1. BlockHeight \in Nat
      BY DEF BlockHeight, ContractTypeOK
    <3>2. Delivered(p) \in Nat
      <4> HIDE DEF ProverTypeOK
      <4> QED BY DeliveredFacts
    <3> QED BY <2>1, <3>1, <3>2
  <2>3. UNCHANGED <<pv, rw, disk, rows, locks, pool>>
    BY <1>7 DEF Jump
  <2> QED BY <2>1, <2>2, <2>3
<1> HIDE DEF ProverTypeOK
<1> QED BY <1>1, <1>2, <1>3, <1>4, <1>5, <1>6, <1>7 DEF RollupStep
\* Where a step takes the worker and its disk.
WorkerIs(p, pc, at) == pv'[p].pc = pc /\ pv'[p].at = at
DiskIs(p, tree, seen, root) ==
    disk'[p].tree = tree /\ disk'[p].seen = seen /\ disk'[p].root = root
DiskStays(p) == DiskIs(p, disk[p].tree, disk[p].seen, disk[p].root)
Stops(p) == pv'[p].pc = "down" /\ DiskStays(p)

\* The steps of the prover worker, in these terms.
LEMMA ProverMoves ==
    ASSUME ContractTypeOK, ProverTypeOK, NEW p \in Provers
    PROVE  /\ Boot(p) => WorkerIs(p, "fill", 0) /\ DiskStays(p)
           /\ Fill(p) =>
                /\ WorkerIs(p, IF Missing(p) = {} THEN "check" ELSE "filled",
                            Max({0} \cup {InsertedIn(p, h) : h \in Missing(p)}))
                /\ DiskIs(p, disk[p].tree \cup Missing(p), disk[p].seen, disk[p].root)
           /\ FillSeen(p) => /\ pv[p].pc = "filled" /\ WorkerIs(p, "check", pv[p].at)
                             /\ DiskIs(p, disk[p].tree, pv[p].at, disk[p].tree)
           /\ Check(p) =>
                \/ /\ disk[p].root = disk[p].tree /\ WorkerIs(p, "stream", disk[p].seen + 1)
                   /\ DiskStays(p)
                \/ pv'[p].pc = "wipe" /\ DiskIs(p, disk[p].tree, 0, {})
           /\ Wipe(p) => pv'[p].pc = "down" /\ DiskIs(p, {}, disk[p].seen, disk[p].root)
           /\ StreamGap(p) => /\ pv[p].pc = "stream" /\ pv[p].at \in gaps[p]
                              /\ WorkerIs(p, "stream", pv[p].at + 1) /\ DiskStays(p)
           /\ StreamEmpty(p) => /\ Streams(p) /\ ~HasTxn(pv[p].at)
                                /\ WorkerIs(p, "stream", pv[p].at + 1)
                                /\ DiskIs(p, disk[p].tree, pv[p].at, Root(pv[p].at))
           /\ StreamSkip(p) =>
                /\ Streams(p) /\ HasTxn(pv[p].at)
                /\ \/ Stops(p)
                   \/ /\ WorkerIs(p, "skipped", pv[p].at)
                      /\ DiskIs(p, disk[p].tree \cup {pv[p].at}, disk[p].seen, disk[p].root)
           /\ SkipSeen(p) => /\ pv[p].pc = "skipped" /\ WorkerIs(p, "stream", pv[p].at + 1)
                             /\ DiskIs(p, disk[p].tree, pv[p].at, Root(pv[p].at))
           /\ StreamLock(p) => /\ Streams(p) /\ HasTxn(pv[p].at)
                               /\ WorkerIs(p, "prove", pv[p].at) /\ DiskStays(p)
           /\ Prove(p) =>
                /\ pv[p].pc = "prove"
                /\ \/ Stops(p) /\ UNCHANGED disk
                   \/ /\ pv[p].at \notin disk[p].tree
                      /\ disk[p].tree \cup {pv[p].at} = Root(pv[p].at)
                      /\ WorkerIs(p, "apply", pv[p].at) /\ DiskStays(p)
                      /\ disk'[p].rollups = {r \in disk[p].rollups : r.height # pv[p].at}
                                              \cup {NewProof(p, pv[p].at)}
           /\ Apply(p) =>
                /\ pv[p].pc = "apply"
                /\ \/ Stops(p)
                   \/ /\ WorkerIs(p, "seen", pv[p].at)
                      /\ DiskIs(p, disk[p].tree \cup {pv[p].at}, disk[p].seen, disk[p].root)
           /\ Seen(p) => /\ pv[p].pc = "seen" /\ WorkerIs(p, "insert", pv[p].at)
                         /\ DiskIs(p, disk[p].tree, pv[p].at, Root(pv[p].at))
           /\ InsertRow(p) =>
                /\ pv[p].pc = "insert" /\ DiskStays(p)
                /\ \/ pv'[p].pc = "down" /\ rows' = rows
                   \/ /\ WorkerIs(p, "stream", pv[p].at + 1)
                      /\ rows' = rows \cup {CHOOSE r \in disk[p].rollups : r.height = pv[p].at}
<1> USE DEF WorkerIs, DiskIs, DiskStays, Stops
<1>a. p \in DOMAIN pv /\ p \in DOMAIN disk
  BY DEF ProverTypeOK
<1>b. \A pc : Go(p, pc) => WorkerIs(p, pc, pv[p].at)
  BY <1>a, Fields
<1>c. \A pc, at : SetPcAt(p, pc, at) => WorkerIs(p, pc, at)
  BY <1>a, Fields
<1>d. Next1(p) => WorkerIs(p, "stream", pv[p].at + 1)
  BY <1>a, Fields
<1>e. \A h, root : SetLastSeen(p, h, root) => DiskIs(p, disk[p].tree, h, root)
  BY <1>a, Fields
<1>f. \A tree : disk' = [disk EXCEPT ![p].tree = tree] => DiskIs(p, tree, disk[p].seen, disk[p].root)
  BY <1>a DEF ProverTypeOK, Disks
<1>g. UNCHANGED disk => DiskStays(p)
  OBVIOUS
<1>h. Exit(p) => pv'[p].pc = "down"
  BY ExitEffects
<1>i. \A then : ApplyBlock(p, pv[p].at, then) =>
          \/ Stops(p)
          \/ /\ WorkerIs(p, then, pv[p].at)
             /\ DiskIs(p, disk[p].tree \cup {pv[p].at}, disk[p].seen, disk[p].root)
  BY <1>b, <1>f, <1>g, <1>h DEF ApplyBlock
<1>1. Boot(p) => WorkerIs(p, "fill", 0) /\ DiskStays(p)
  BY <1>a, <1>g DEF Boot
<1>2. ASSUME Fill(p)
      PROVE  /\ WorkerIs(p, IF Missing(p) = {} THEN "check" ELSE "filled",
                         Max({0} \cup {InsertedIn(p, h) : h \in Missing(p)}))
             /\ DiskIs(p, disk[p].tree \cup Missing(p), disk[p].seen, disk[p].root)
  <2> DEFINE at == Max({0} \cup {InsertedIn(p, h) : h \in Missing(p)})
             pc == IF Missing(p) = {} THEN "check" ELSE "filled"
  <2>1. SetPcAt(p, pc, at)
    BY <1>2 DEF Fill, SetPcAt
  <2>2. WorkerIs(p, pc, at)
    <3> HIDE DEF at, pc
    <3> QED BY <1>c, <2>1
  <2>3. DiskIs(p, disk[p].tree \cup Missing(p), disk[p].seen, disk[p].root)
    BY <1>2, <1>f DEF Fill
  <2> QED BY <2>2, <2>3
<1>3. FillSeen(p) => /\ pv[p].pc = "filled" /\ WorkerIs(p, "check", pv[p].at)
                     /\ DiskIs(p, disk[p].tree, pv[p].at, disk[p].tree)
  BY <1>b, <1>e DEF FillSeen
<1>4. ASSUME Check(p)
      PROVE  \/ /\ disk[p].root = disk[p].tree /\ WorkerIs(p, "stream", disk[p].seen + 1)
                /\ DiskStays(p)
             \/ pv'[p].pc = "wipe" /\ DiskIs(p, disk[p].tree, 0, {})
  <2>1. CASE RootMatches(p) /\ SetPcAt(p, "stream", disk[p].seen + 1) /\ UNCHANGED disk
    BY <1>c, <1>g, <2>1 DEF RootMatches
  <2>2. CASE SetLastSeen(p, 0, {}) /\ Go(p, "wipe")
    BY <1>b, <1>e, <2>2
  <2> QED BY <1>4, <2>1, <2>2 DEF Check, SetPcAt
<1>5. ASSUME Wipe(p) PROVE pv'[p].pc = "down" /\ DiskIs(p, {}, disk[p].seen, disk[p].root)
  <2>1. Exit(p) /\ disk' = [disk EXCEPT ![p].tree = {}]
    BY <1>5 DEF Wipe
  <2> QED BY <1>f, <1>h, <2>1
<1>6. StreamGap(p) => /\ pv[p].pc = "stream" /\ pv[p].at \in gaps[p]
                      /\ WorkerIs(p, "stream", pv[p].at + 1) /\ DiskStays(p)
  BY <1>d, <1>g DEF StreamGap
<1>7. StreamEmpty(p) => /\ Streams(p) /\ ~HasTxn(pv[p].at)
                        /\ WorkerIs(p, "stream", pv[p].at + 1)
                        /\ DiskIs(p, disk[p].tree, pv[p].at, Root(pv[p].at))
  BY <1>d, <1>e DEF StreamEmpty
<1>8. StreamSkip(p) =>
        /\ Streams(p) /\ HasTxn(pv[p].at)
        /\ \/ Stops(p)
           \/ /\ WorkerIs(p, "skipped", pv[p].at)
              /\ DiskIs(p, disk[p].tree \cup {pv[p].at}, disk[p].seen, disk[p].root)
  BY <1>i DEF StreamSkip
<1>9. SkipSeen(p) => /\ pv[p].pc = "skipped" /\ WorkerIs(p, "stream", pv[p].at + 1)
                     /\ DiskIs(p, disk[p].tree, pv[p].at, Root(pv[p].at))
  BY <1>d, <1>e DEF SkipSeen
<1>10. StreamLock(p) => /\ Streams(p) /\ HasTxn(pv[p].at)
                        /\ WorkerIs(p, "prove", pv[p].at) /\ DiskStays(p)
  BY <1>b, <1>g DEF StreamLock
<1>11. ASSUME Prove(p)
       PROVE  /\ pv[p].pc = "prove"
              /\ \/ Stops(p) /\ UNCHANGED disk
                 \/ /\ pv[p].at \notin disk[p].tree
                    /\ disk[p].tree \cup {pv[p].at} = Root(pv[p].at)
                    /\ WorkerIs(p, "apply", pv[p].at) /\ DiskStays(p)
                    /\ disk'[p].rollups = {r \in disk[p].rollups : r.height # pv[p].at}
                                            \cup {NewProof(p, pv[p].at)}
  <2>1. pv[p].pc = "prove"
    BY <1>11 DEF Prove
  <2>2. CASE Exit(p) /\ UNCHANGED disk
    BY <1>g, <1>h, <2>1, <2>2
  <2>3. CASE /\ GenBatchOk(p, pv[p].at) /\ NewProof(p, pv[p].at).new = Root(pv[p].at)
             /\ disk' = [disk EXCEPT ![p].rollups = {r \in @ : r.height # pv[p].at}
                                                       \cup {NewProof(p, pv[p].at)}]
             /\ Go(p, "apply")
    <3>1. /\ pv[p].at \notin disk[p].tree
          /\ disk[p].tree \cup {pv[p].at} = Root(pv[p].at)
      BY <2>3 DEF GenBatchOk, NewProof
    <3>2. /\ disk'[p].rollups = {r \in disk[p].rollups : r.height # pv[p].at}
                                  \cup {NewProof(p, pv[p].at)}
          /\ DiskStays(p)
      BY <1>a, <2>3 DEF ProverTypeOK, Disks
    <3> QED BY <1>b, <2>1, <2>3, <3>1, <3>2
  <2> QED BY <1>11, <2>2, <2>3 DEF Prove
<1>12. Apply(p) =>
         /\ pv[p].pc = "apply"
         /\ \/ Stops(p)
            \/ /\ WorkerIs(p, "seen", pv[p].at)
               /\ DiskIs(p, disk[p].tree \cup {pv[p].at}, disk[p].seen, disk[p].root)
  BY <1>i DEF Apply
<1>13. Seen(p) => /\ pv[p].pc = "seen" /\ WorkerIs(p, "insert", pv[p].at)
                  /\ DiskIs(p, disk[p].tree, pv[p].at, Root(pv[p].at))
  BY <1>b, <1>e DEF Seen
<1>14. InsertRow(p) =>
         /\ pv[p].pc = "insert" /\ DiskStays(p)
         /\ \/ pv'[p].pc = "down" /\ rows' = rows
            \/ /\ WorkerIs(p, "stream", pv[p].at + 1)
               /\ rows' = rows \cup {CHOOSE r \in disk[p].rollups : r.height = pv[p].at}
  BY <1>d, <1>g, <1>h DEF InsertRow
<1> HIDE DEF WorkerIs, DiskIs, DiskStays, Stops
<1> QED BY <1>1, <1>2, <1>3, <1>4, <1>5, <1>6, <1>7, <1>8, <1>9, <1>10, <1>11, <1>12, <1>13, <1>14
----------------------------------------------------------------------------
\* A step is one of the users, the substitutor or time; of a prover's worker; of its
\* rollup worker, of Ethereum, a crash or a fast snapshot; or it mines a rollup.
Outside == /\ UNCHANGED proverVars
           /\ UserNext \/ (\E b \in Burns : SubstituteBurn(b)) \/ UNCHANGED rollupVars
Aside(p) == RollupStep(p) \/ Drop(p) \/ Crash(p) \/ Jump(p)

\* There are no other steps.
LEMMA Steps ==
    ASSUME [SystemNext]_systemVars
    PROVE  \/ Outside
           \/ \E p \in Provers : /\ ProverStep(p) \/ Aside(p)
                                 /\ UNCHANGED rollupVars
           \/ \E p \in Provers : Mine(p) /\ pool[p] # NoProof /\ VerifyBlock2(pool[p])
<1>1. CASE UNCHANGED systemVars
  BY <1>1 DEF systemVars, Outside
<1>2. CASE ProversNext
  BY <1>2 DEF ProversNext, Outside, Aside, Mine
<1>3. CASE SubstitutorNext /\ UNCHANGED proverVars
  BY <1>3 DEF SubstitutorNext, SubMine, Outside, Burns
<1> QED BY <1>1, <1>2, <1>3 DEF SystemNext

\* A call moves the contract's root only when it verifies a block, and the chain by a
\* block at most.
LEMMA ContractEffects ==
    ASSUME ContractTypeOK
    PROVE  /\ Outside => /\ tip' \in {tip, tip + 1}
                         /\ contract'.root = contract.root /\ contract'.height = contract.height
           /\ UNCHANGED rollupVars => UNCHANGED <<tip, contract>>
           /\ \A r : VerifyBlock2(r) =>
                /\ tip' = tip
                /\ \/ contract' = contract
                   \/ /\ r.old = contract.root
                      /\ contract'.root = r.new /\ contract'.height = r.height
<1> USE DEF ContractTypeOK
<1>1. UserNext => /\ tip' \in {tip, tip + 1}
                  /\ contract'.root = contract.root /\ contract'.height = contract.height
  BY DEF UserNext, Mint, BurnToAddress, BurnToRouter, Blacklist, Produce
<1>2. \A b : SubstituteBurn(b) => /\ tip' = tip
                                  /\ contract'.root = contract.root /\ contract'.height = contract.height
  BY DEF SubstituteBurn, rollupVars
<1>3. UNCHANGED rollupVars => UNCHANGED <<tip, contract>>
  BY DEF rollupVars
<1>4. \A r : VerifyBlock2(r) => /\ tip' = tip
                                /\ \/ contract' = contract
                                   \/ /\ r.old = contract.root
                                      /\ contract'.root = r.new /\ contract'.height = r.height
  BY DEF VerifyBlock2, VerifyBlockOk, rollupVars
<1> QED BY <1>1, <1>2, <1>3, <1>4 DEF Outside

\* The types are kept.
LEMMA TypesStep ==
    ASSUME IInv, [SystemNext]_systemVars
    PROVE  ContractTypeOK' /\ ProverTypeOK'
<1> USE DEF IInv
<1>1. CASE Outside
  <2>1. ContractTypeOK'
    BY <1>1, ContractTypes DEF Outside
  <2>2. ProverTypeOK'
    BY <1>1 DEF Outside, proverVars, ProverTypeOK
  <2> QED BY <2>1, <2>2
<1>2. ASSUME NEW p \in Provers, ProverStep(p) \/ Aside(p), UNCHANGED rollupVars
      PROVE  ContractTypeOK' /\ ProverTypeOK'
  BY <1>2, ContractTypes, ProverTypes, RollupTypes DEF Aside
<1>3. ASSUME NEW p \in Provers, Mine(p), pool[p] # NoProof, VerifyBlock2(pool[p])
      PROVE  ContractTypeOK' /\ ProverTypeOK'
  <2>1. pool[p] \in Proofs /\ Proves(pool[p], tip)
    BY <1>3 DEF ProverTypeOK, ProofsInv
  <2> QED BY <1>3, <2>1, ContractTypes, RollupTypes
<1> QED BY <1>1, <1>2, <1>3, Steps

\* What proves a block of a chain proves it of a longer one.
LEMMA ProvesLonger ==
    ASSUME ContractTypeOK, tip' \in {tip, tip + 1}
    PROVE  \A r : Proves(r, tip) => Proves(r, tip')
BY DEF Proves, ContractTypeOK

\* The proof that a prover stores leads from the block before to its block, since its
\* tree refuses a leaf that it has: whatever its tree is otherwise.
LEMMA StoredProof ==
    ASSUME IInv, NEW p \in Provers, ProverStep(p)
    PROVE  \A r \in disk'[p].rollups : Proves(r, tip)
<1> USE DEF IInv
<1>1. CASE disk'[p].rollups = disk[p].rollups
  BY <1>1 DEF ProofsInv
<1>2. CASE Prove(p)
  <2> DEFINE h == pv[p].at
  <2>1. CASE UNCHANGED disk
    BY <1>1, <2>1
  <2>2. CASE /\ h \notin disk[p].tree /\ disk[p].tree \cup {h} = Root(h)
             /\ disk'[p].rollups = {r \in disk[p].rollups : r.height # h} \cup {NewProof(p, h)}
    <3>1. h \in 1 .. tip /\ HasTxn(h) /\ tip \in Nat
      BY <1>2 DEF Prove, WorkInv, ContractTypeOK
    <3>2. h \in Nat \ {0}
      BY <3>1
    <3>3. h \notin Root(h - 1) /\ Root(h) = Root(h - 1) \cup {h}
      BY <3>1, <3>2, RootFacts
    <3>4. disk[p].tree = Root(h - 1)
      BY <2>2, <3>3
    <3>5. Proves(NewProof(p, h), tip)
      BY <2>2, <3>1, <3>4 DEF Proves, NewProof
    <3> QED BY <2>2, <3>5 DEF ProofsInv
  <2> QED BY <1>2, <2>1, <2>2, ProverMoves
<1> QED BY <1>1, <1>2, ProverEffects

\* Every proof there is, is one of a block of the chain.
LEMMA ProofsStep ==
    ASSUME IInv, [SystemNext]_systemVars
    PROVE  ProofsInv'
<1> USE DEF IInv
<1>a. tip' \in {tip, tip + 1}
  BY Steps, ContractEffects
<1>b. \A r : Proves(r, tip) => Proves(r, tip')
  BY <1>a, ProvesLonger
<1>c. SUFFICES /\ \A r \in rows' : Proves(r, tip)
               /\ \A q \in Provers : /\ \A r \in disk'[q].rollups : Proves(r, tip)
                                     /\ rw'[q].pc # "idle" => Proves(rw'[q].proof, tip)
                                     /\ pool'[q] # NoProof => Proves(pool'[q], tip)
  BY <1>b DEF ProofsInv
<1>1. CASE Outside
  BY <1>1 DEF Outside, proverVars, ProofsInv
<1>2. ASSUME NEW p \in Provers, ProverStep(p), UNCHANGED rollupVars
      PROVE  /\ \A r \in rows' : Proves(r, tip)
             /\ \A q \in Provers : /\ \A r \in disk'[q].rollups : Proves(r, tip)
                                   /\ rw'[q].pc # "idle" => Proves(rw'[q].proof, tip)
                                   /\ pool'[q] # NoProof => Proves(pool'[q], tip)
  <2>1. \A r \in rows' : Proves(r, tip)
    <3>1. CASE rows' = rows
      BY <3>1 DEF ProofsInv
    <3>2. CASE InsertRow(p)
      <4>1. \E r \in disk[p].rollups : r.height = pv[p].at
        BY <3>2 DEF InsertRow, WorkInv
      <4>2. PICK r \in disk[p].rollups : rows' \subseteq rows \cup {r}
        BY <3>1, <3>2, <4>1, ProverMoves
      <4> QED BY <4>2 DEF ProofsInv
    <3> QED BY <1>2, <3>1, <3>2, ProverEffects
  <2>2. \A q \in Provers : \A r \in disk'[q].rollups : Proves(r, tip)
    <3>1. \A r \in disk'[p].rollups : Proves(r, tip)
      BY <1>2, StoredProof
    <3>2. \A q \in Provers \ {p} : disk'[q] = disk[q]
      BY <1>2, ProverEffects
    <3> QED BY <3>1, <3>2 DEF ProofsInv
  <2>3. \A q \in Provers : rw'[q].pc # "idle" => Proves(rw'[q].proof, tip)
    <3>1. rw' = rw \/ rw' = [rw EXCEPT ![p] = RollupIdle]
      BY <1>2, ProverEffects
    <3>2. rw \in [Provers -> RollupWorkers] /\ RollupIdle.pc = "idle"
      BY DEF ProverTypeOK, RollupIdle
    <3>3. \A q \in Provers : rw[q].pc # "idle" => Proves(rw[q].proof, tip)
      BY DEF ProofsInv
    <3> QED BY <3>1, <3>2, <3>3
  <2>4. \A q \in Provers : pool'[q] # NoProof => Proves(pool'[q], tip)
    BY <1>2, ProverEffects DEF ProofsInv
  <2> QED BY <2>1, <2>2, <2>3, <2>4
<1>3. ASSUME NEW p \in Provers, Aside(p) \/ Mine(p)
      PROVE  /\ \A r \in rows' : Proves(r, tip)
             /\ \A q \in Provers : /\ \A r \in disk'[q].rollups : Proves(r, tip)
                                   /\ rw'[q].pc # "idle" => Proves(rw'[q].proof, tip)
                                   /\ pool'[q] # NoProof => Proves(pool'[q], tip)
  <2>1. /\ UNCHANGED <<disk, rows>>
        /\ \A q \in Provers :
             /\ \/ rw'[q].pc = "idle"
                \/ (rw[q].pc # "idle" /\ rw'[q].proof = rw[q].proof)
                \/ \E r \in rows \cup disk[q].rollups : rw'[q].proof = r
             /\ \/ pool'[q] = pool[q] \/ pool'[q] = NoProof
                \/ (rw[q].pc # "idle" /\ pool'[q] = rw[q].proof)
    BY <1>3, RollupEffects DEF Aside
  <2> QED BY <2>1 DEF ProofsInv
<1> QED BY <1>1, <1>2, <1>3, Steps

\* The contract has a root of the chain: a block is verified when its proof starts from
\* the contract's root, and then the contract has the root the proof ends with.
LEMMA RootStep ==
    ASSUME IInv, [SystemNext]_systemVars
    PROVE  /\ RootInv'
           /\ contract'.root # contract.root \/ contract'.height # contract.height =>
                /\ contract'.height \in contract.height + 1 .. tip
                /\ contract'.root = Root(contract'.height)
<1> USE DEF IInv
<1>1. CASE contract'.root = contract.root /\ contract'.height = contract.height /\ tip' \in {tip, tip + 1}
  <2>1. contract.height \in Nat /\ tip \in Nat
    BY DEF ContractTypeOK
  <2>2. RootInv'
    BY <1>1, <2>1 DEF RootInv
  <2> QED BY <1>1, <2>2
<1>2. ASSUME NEW p \in Provers, pool[p] # NoProof, tip' = tip, pool[p].old = contract.root,
             contract'.root = pool[p].new, contract'.height = pool[p].height
      PROVE  /\ RootInv'
             /\ contract'.height \in contract.height + 1 .. tip
             /\ contract'.root = Root(contract'.height)
  <2>1. PICK h \in 1 .. tip : h = pool[p].height
    BY <1>2 DEF ProofsInv, Proves
  <2>2. HasTxn(h) /\ pool[p].old = Root(h - 1) /\ pool[p].new = Root(h)
    BY <1>2, <2>1 DEF ProofsInv, Proves
  <2>3. contract.height \in Nat /\ tip \in Nat /\ h \in Nat \ {0}
    BY DEF ContractTypeOK
  <2>4. h \notin Root(contract.height)
    BY <1>2, <2>2, <2>3, RootFacts DEF RootInv
  <2>5. h > contract.height
    BY <2>2, <2>3, <2>4 DEF Root
  <2> QED BY <1>2, <2>1, <2>2, <2>3, <2>5 DEF RootInv
<1>3. \/ contract'.root = contract.root /\ contract'.height = contract.height /\ tip' \in {tip, tip + 1}
      \/ \E p \in Provers : /\ pool[p] # NoProof /\ tip' = tip /\ pool[p].old = contract.root
                            /\ contract'.root = pool[p].new /\ contract'.height = pool[p].height
  BY Steps, ContractEffects
<1> QED BY <1>1, <1>2, <1>3
\* What a worker works on stays in order.
Working(t, w, d) ==
    /\ d.tree \subseteq 1 .. t
    /\ w.pc = "stream" => w.at > 0
    /\ w.pc \in {"skipped", "prove", "apply", "seen", "insert"} => w.at \in 1 .. t /\ HasTxn(w.at)
    /\ w.pc \in {"apply", "seen", "insert"} => \E r \in d.rollups : r.height = w.at

\* The step of a prover worker keeps its own work in order.
LEMMA OwnWork ==
    ASSUME IInv, NEW p \in Provers, ProverStep(p)
    PROVE  Working(tip, pv'[p], disk'[p])
<1> USE DEF IInv, WorkerIs, DiskIs, DiskStays, Stops
<1>a. /\ tip \in Nat /\ pv[p].at \in Nat /\ disk[p].seen \in Nat /\ disk[p].tree \subseteq 1 .. tip
      /\ pv[p].pc = "stream" => pv[p].at > 0
      /\ pv[p].pc \in {"skipped", "prove", "apply", "seen", "insert"} =>
             pv[p].at \in 1 .. tip /\ HasTxn(pv[p].at)
      /\ pv[p].pc \in {"apply", "seen", "insert"} => \E r \in disk[p].rollups : r.height = pv[p].at
  BY DEF ContractTypeOK, ProverTypeOK, Workers, Disks, WorkInv
<1>b. Streams(p) => pv[p].at \in 1 .. tip
  BY <1>a DEF Streams
<1>c. ~Prove(p) => disk'[p].rollups = disk[p].rollups
  BY ProverEffects
<1>d. Missing(p) \subseteq 1 .. tip
  BY FillFacts
<1>1. CASE Boot(p) \/ FillSeen(p) \/ Check(p) \/ Wipe(p)
  <2>1. pv'[p].pc \in {"fill", "check", "wipe", "down", "stream"}
    BY <1>1, ProverMoves
  <2>2. disk'[p].tree \subseteq 1 .. tip
    BY <1>1, <1>a, ProverMoves
  <2>3. pv'[p].pc = "stream" => pv'[p].at = disk[p].seen + 1
    BY <1>1, ProverMoves
  <2>4. pv'[p].pc = "stream" => pv'[p].at > 0
    BY <1>a, <2>3
  <2> QED BY <2>1, <2>2, <2>4 DEF Working
<1>6. CASE StreamGap(p) \/ StreamEmpty(p) \/ SkipSeen(p)
  <2>1. pv'[p].pc = "stream" /\ pv'[p].at = pv[p].at + 1 /\ disk'[p].tree = disk[p].tree
    BY <1>6, ProverMoves
  <2> QED BY <1>a, <2>1 DEF Working
<1>2. CASE Fill(p)
  BY <1>2, <1>a, <1>d, ProverMoves DEF Working
<1>3. CASE StreamSkip(p) \/ StreamLock(p)
  BY <1>3, <1>a, <1>b, ProverMoves DEF Working
<1>4. CASE Prove(p)
  <2>1. pv[p].pc = "prove"
    BY <1>4, ProverMoves
  <2>2. CASE Stops(p)
    BY <1>a, <2>2 DEF Working
  <2>3. CASE /\ WorkerIs(p, "apply", pv[p].at) /\ DiskStays(p)
             /\ disk'[p].rollups = {r \in disk[p].rollups : r.height # pv[p].at}
                                     \cup {NewProof(p, pv[p].at)}
    <3>1. NewProof(p, pv[p].at).height = pv[p].at
      BY DEF NewProof
    <3> QED BY <1>a, <2>1, <2>3, <3>1 DEF Working
  <2> QED BY <1>4, <2>2, <2>3, ProverMoves
<1>5. CASE Apply(p) \/ Seen(p) \/ InsertRow(p)
  <2>1. disk'[p].rollups = disk[p].rollups
    BY <1>5, <1>c, ProverMoves
  <2>2. pv[p].pc \in {"apply", "seen", "insert"}
    BY <1>5, ProverMoves
  <2>3. disk'[p].tree \subseteq disk[p].tree \cup {pv[p].at}
    BY <1>5, ProverMoves
  <2>4. \/ pv'[p].pc = "down"
        \/ pv'[p].pc = "stream" /\ pv'[p].at = pv[p].at + 1
        \/ pv'[p].pc \in {"seen", "insert"} /\ pv'[p].at = pv[p].at
    BY <1>5, ProverMoves
  <2> QED BY <1>a, <2>1, <2>2, <2>3, <2>4 DEF Working
<1> QED BY <1>1, <1>2, <1>3, <1>4, <1>5, <1>6 DEF ProverStep

\* So does every step.
LEMMA WorkStep ==
    ASSUME IInv, [SystemNext]_systemVars
    PROVE  WorkInv'
<1> USE DEF IInv
<1>a. \A q \in Provers : Working(tip, pv[q], disk[q])
  BY DEF WorkInv, Working
<1>b. tip' \in {tip, tip + 1} /\ tip \in Nat
  BY Steps, ContractEffects DEF ContractTypeOK
<1>c. SUFFICES \A q \in Provers : Working(tip, pv'[q], disk'[q])
  BY <1>b DEF Working, WorkInv
<1>1. CASE Outside
  BY <1>1, <1>a DEF Outside, proverVars
<1>2. ASSUME NEW p \in Provers, ProverStep(p) PROVE \A q \in Provers : Working(tip, pv'[q], disk'[q])
  <2>1. Working(tip, pv'[p], disk'[p])
    BY <1>2, OwnWork
  <2>2. \A q \in Provers \ {p} : pv'[q] = pv[q] /\ disk'[q] = disk[q]
    BY <1>2, ProverEffects
  <2> QED BY <1>a, <2>1, <2>2
<1>3. ASSUME NEW p \in Provers, Aside(p) \/ Mine(p)
      PROVE  \A q \in Provers : Working(tip, pv'[q], disk'[q])
  <2>1. disk' = disk /\ \A q \in Provers : pv'[q] = pv[q] \/ pv'[q].pc = "down"
    BY <1>3, RollupEffects DEF Aside
  <2> QED BY <1>a, <2>1 DEF Working
<1> QED BY <1>1, <1>2, <1>3, Steps

\* The system starts with nothing but the chain.
LEMMA IInvInit == SystemInit => IInv
<1> SUFFICES ASSUME SystemInit PROVE IInv
  OBVIOUS
<1> USE DEF SystemInit, RollupInit, ProverInit
<1>1. ContractTypeOK
  <2>1. tip \in Nat /\ 1 .. tip \subseteq Heights
    BY RollupAssumption DEF Heights
  <2>2. contract \in [height : Nat, root : SUBSET Nat, mints : SUBSET Ids("mint"),
                     kind : [Burns -> {0, 1}],
                     burns : [Burns -> [to : Accounts \cup {"none"}, amount : {0, 1}]],
                     toRouter : SUBSET Burns, substituted : SUBSET Burns,
                     rolledUp : SUBSET (Ids("mint") \cup Burns)]
    BY DEF Burns, NoBurn
  <2>3. usdc \in [Accounts -> Int]
    <3>1. Cardinality(Burns) \in Int
      BY IdsAssumption, FS_CardinalityType DEF Burns
    <3> QED BY <3>1 DEF Burns
  <2> QED BY <2>1, <2>2, <2>3 DEF ContractTypeOK
<1>2. ProverTypeOK
  <2>1. Down \in Workers /\ RollupIdle \in RollupWorkers /\ NoProof \in Proofs
    BY DEF Down, RollupIdle, NoProof, Proofs, Workers, RollupWorkers
  <2>2. [tree |-> {}, seen |-> 0, root |-> {}, rollups |-> {}] \in Disks
    BY DEF Disks
  <2> QED BY <2>1, <2>2 DEF ProverTypeOK
<1>3. ProofsInv /\ WorkInv
  BY DEF ProofsInv, WorkInv, Down, RollupIdle
<1>4. RootInv
  <2>1. Root(0) = {} /\ tip \in Nat
    BY RollupAssumption DEF Root
  <2> QED BY <2>1 DEF RootInv
<1> QED BY <1>1, <1>2, <1>3, <1>4 DEF IInv

\* And keeps the invariant.
LEMMA IInvStep ==
    ASSUME IInv, [SystemNext]_systemVars
    PROVE  IInv'
BY TypesStep, ProofsStep, RootStep, WorkStep DEF IInv

\* A system without a substitutor is one whose substitutor does nothing.
LEMMA AlsoWithout == (ProversSpec \/ SystemSpec) => SystemInit /\ [][SystemNext]_systemVars
<1>1. [ProversNext]_systemVars => [SystemNext]_systemVars
  BY DEF SystemNext
<1> QED BY <1>1, PTL DEF ProversSpec, SystemSpec

\* Types, proofs and roots are in order at every step, for any number of provers that
\* crash and take fast snapshots at any time.
THEOREM TypeCorrect == (ProversSpec \/ SystemSpec) => []IInv
BY IInvInit, IInvStep, AlsoWithout, PTL

\* The contract's root is at every step that of the chain at the contract's height, and
\* every verified block takes it further (verifyBlock2): the root of a proof that starts
\* from the contract's root can only be that of the next block with transactions.
THEOREM ContractFollowsChainHolds == (ProversSpec \/ SystemSpec) => ContractFollowsChain
<1> DEFINE Moves == contract'.root # contract.root \/ contract'.height # contract.height =>
                      /\ contract'.height \in contract.height + 1 .. tip
                      /\ contract'.root = Root(contract'.height)
<1>1. IInv /\ [SystemNext]_systemVars => Moves
  BY RootStep
<1>2. Moves => [Moves]_systemVars
  OBVIOUS
<1> QED BY <1>1, IInvInit, IInvStep, AlsoWithout, PTL DEF ContractFollowsChain
----------------------------------------------------------------------------
\* What a prover fills in completes its tree up to the last block it fills in.
LEMMA FillTree ==
    ASSUME IInv, NEW p \in Provers, gaps[p] = {}, NEW n \in 0 .. tip, disk[p].tree = Root(n),
           NEW at, at = Max({0} \cup {InsertedIn(p, h) : h \in Missing(p)}), Missing(p) # {}
    PROVE  at \in 0 .. tip /\ disk[p].tree \cup Missing(p) = Root(at)
<1>1. tip \in Nat /\ pv[p].init \in Nat
  BY DEF IInv, ContractTypeOK, ProverTypeOK, Workers
<1>2. \A h : InsertedIn(p, h) = h
  BY DEF InsertedIn
<1>3. Missing(p) = {h \in Root(tip) : h <= pv[p].init /\ h \notin disk[p].tree}
  BY <1>2 DEF Missing
<1>4. /\ Missing(p) \subseteq 1 .. tip /\ at \in 0 .. tip
      /\ \A h \in Missing(p) : h <= at
      /\ at # 0 => at \in Missing(p)
  BY <1>2, FillFacts DEF IInv
<1>5. at \in Missing(p) /\ at \in 1 .. tip
  <2>1. PICK h \in Missing(p) : TRUE
    OBVIOUS
  <2>2. h \in 1 .. tip /\ h <= at
    BY <1>4, <2>1
  <2>3. at # 0
    BY <1>1, <1>4, <2>2
  <2> QED BY <1>4, <2>3
<1>6. n < at /\ HasTxn(at) /\ at <= pv[p].init
  <2>1. HasTxn(at) /\ at <= pv[p].init /\ at \notin Root(n)
    BY <1>3, <1>5 DEF Root
  <2>2. at \notin 1 .. n
    BY <2>1 DEF Root
  <2> QED BY <1>1, <1>5, <2>1, <2>2
<1>7. disk[p].tree \cup Missing(p) \subseteq Root(at)
  <2>1. Root(n) \subseteq Root(at)
    BY <1>1, <1>5, <1>6 DEF Root
  <2>2. ASSUME NEW h \in Missing(p) PROVE h \in Root(at)
    <3>1. HasTxn(h)
      BY <1>3 DEF Root
    <3>2. h \in 1 .. at
      BY <1>1, <1>4
    <3> QED BY <3>1, <3>2 DEF Root
  <2> QED BY <2>1, <2>2
<1>8. ASSUME NEW h \in Root(at) PROVE h \in disk[p].tree \cup Missing(p)
  <2>1. h \in 1 .. at /\ HasTxn(h)
    BY DEF Root
  <2>2. h \in Root(tip) /\ h <= pv[p].init
    BY <1>1, <1>5, <1>6, <2>1 DEF Root
  <2> QED BY <1>3, <2>2
<1> QED BY <1>4, <1>7, <1>8

\* A step of the prover worker keeps its tree that of a block, unless its node has
\* taken a fast snapshot.
LEMMA OwnTree ==
    ASSUME IInv, NEW p \in Provers, ProverStep(p), gaps[p] = {}, TreeMatches(tip, pv[p], disk[p])
    PROVE  TreeMatches(tip, pv'[p], disk'[p])
<1> USE DEF IInv, WorkerIs, DiskIs, DiskStays, Stops
<1>a. /\ tip \in Nat /\ pv[p].at \in Nat /\ disk[p].seen \in Nat
      /\ pv[p].pc = "stream" => pv[p].at > 0
      /\ pv[p].pc \in {"skipped", "prove", "apply", "seen", "insert"} =>
             pv[p].at \in 1 .. tip /\ HasTxn(pv[p].at)
  BY DEF ContractTypeOK, ProverTypeOK, Workers, Disks, WorkInv
<1>b. PICK n \in 0 .. tip : disk[p].tree = Root(n)
  BY DEF TreeMatches
<1>c. /\ disk[p].root = Root(disk[p].seen)
      /\ pv[p].pc \in {"stream", "prove", "apply"} => disk[p].tree = Root(pv[p].at - 1)
      /\ pv[p].pc \in {"filled", "skipped", "seen", "insert"} => disk[p].tree = Root(pv[p].at)
  BY DEF TreeMatches
<1>d. Root(0) = {} /\ 0 \in 0 .. tip /\ 0 \in Nat
  BY <1>a DEF Root
<1>e. Streams(p) => pv[p].at \in 1 .. tip
  BY <1>a DEF Streams
<1>f. pv[p].at > 0 => Root(pv[p].at) = IF HasTxn(pv[p].at) THEN Root(pv[p].at - 1) \cup {pv[p].at}
                                                          ELSE Root(pv[p].at - 1)
  <2>1. pv[p].at > 0 => pv[p].at \in Nat \ {0}
    BY <1>a
  <2> QED BY <2>1, RootFacts
<1>g. (pv[p].at + 1) - 1 = pv[p].at /\ (disk[p].seen + 1) - 1 = disk[p].seen
  BY <1>a
<1>h. ASSUME DiskStays(p), pv'[p].pc \in {"down", "fill"} PROVE TreeMatches(tip, pv'[p], disk'[p])
  BY <1>b, <1>c, <1>h DEF TreeMatches
<1>1. CASE Boot(p)
  BY <1>1, <1>h, ProverMoves
<1>2. CASE Fill(p)
  <2>1. PICK at : at = Max({0} \cup {InsertedIn(p, h) : h \in Missing(p)})
    OBVIOUS
  <2>2. /\ WorkerIs(p, IF Missing(p) = {} THEN "check" ELSE "filled", at)
        /\ DiskIs(p, disk[p].tree \cup Missing(p), disk[p].seen, disk[p].root)
    BY <1>2, <2>1, ProverMoves
  <2>3. CASE Missing(p) = {}
    BY <1>b, <1>c, <2>2, <2>3 DEF TreeMatches
  <2>4. CASE Missing(p) # {}
    <3>1. at \in 0 .. tip /\ disk[p].tree \cup Missing(p) = Root(at)
      BY <1>b, <2>1, <2>4, FillTree
    <3> QED BY <1>c, <2>2, <2>4, <3>1 DEF TreeMatches
  <2> QED BY <2>3, <2>4
<1>3. CASE FillSeen(p)
  <2>1. /\ pv[p].pc = "filled" /\ WorkerIs(p, "check", pv[p].at)
        /\ DiskIs(p, disk[p].tree, pv[p].at, disk[p].tree)
    BY <1>3, ProverMoves
  <2> QED BY <1>b, <1>c, <2>1 DEF TreeMatches
<1>4. CASE Check(p)
  <2>1. CASE disk[p].root = disk[p].tree /\ WorkerIs(p, "stream", disk[p].seen + 1) /\ DiskStays(p)
    BY <1>b, <1>c, <1>g, <2>1 DEF TreeMatches
  <2>2. CASE pv'[p].pc = "wipe" /\ DiskIs(p, disk[p].tree, 0, {})
    BY <1>b, <1>d, <2>2 DEF TreeMatches
  <2> QED BY <1>4, <2>1, <2>2, ProverMoves
<1>5. CASE Wipe(p)
  <2>1. pv'[p].pc = "down" /\ DiskIs(p, {}, disk[p].seen, disk[p].root)
    BY <1>5, ProverMoves
  <2> QED BY <1>c, <1>d, <2>1 DEF TreeMatches
<1>6. CASE StreamGap(p)
  BY <1>6, ProverMoves
<1>7. CASE StreamEmpty(p) \/ SkipSeen(p)
  <2>1. /\ WorkerIs(p, "stream", pv[p].at + 1)
        /\ DiskIs(p, disk[p].tree, pv[p].at, Root(pv[p].at))
    BY <1>7, ProverMoves
  <2>2. disk[p].tree = Root(pv[p].at)
    <3>1. CASE StreamEmpty(p)
      <4>1. Streams(p) /\ ~HasTxn(pv[p].at)
        BY <3>1, ProverMoves
      <4> QED BY <1>a, <1>c, <1>e, <1>f, <4>1 DEF Streams
    <3>2. CASE SkipSeen(p)
      BY <1>c, <3>2, ProverMoves
    <3> QED BY <1>7, <3>1, <3>2
  <2> QED BY <1>b, <1>g, <2>1, <2>2 DEF TreeMatches
<1>8. CASE StreamSkip(p) \/ Apply(p)
  <2>1. pv[p].at \in 1 .. tip /\ HasTxn(pv[p].at) /\ disk[p].tree = Root(pv[p].at - 1)
    BY <1>8, <1>a, <1>c, <1>e, ProverMoves DEF Streams
  <2>2. disk[p].tree \cup {pv[p].at} = Root(pv[p].at)
    BY <1>a, <1>f, <2>1
  <2>3. CASE Stops(p)
    BY <1>h, <2>3
  <2>4. CASE /\ pv'[p].pc \in {"skipped", "seen"} /\ pv'[p].at = pv[p].at
             /\ DiskIs(p, disk[p].tree \cup {pv[p].at}, disk[p].seen, disk[p].root)
    <3>1. pv[p].at \in 0 .. tip
      BY <1>a, <2>1
    <3> QED BY <1>c, <2>2, <2>4, <3>1 DEF TreeMatches
  <2> QED BY <1>8, <2>3, <2>4, ProverMoves
<1>9. CASE StreamLock(p) \/ Prove(p)
  <2>1. CASE Stops(p)
    BY <1>h, <2>1
  <2>2. CASE pv'[p].pc \in {"prove", "apply"} /\ pv'[p].at = pv[p].at /\ DiskStays(p)
    <3>1. pv[p].pc \in {"stream", "prove"}
      BY <1>9, ProverMoves DEF Streams
    <3> QED BY <1>b, <1>c, <2>2, <3>1 DEF TreeMatches
  <2> QED BY <1>9, <2>1, <2>2, ProverMoves
<1>10. CASE Seen(p)
  <2>1. /\ pv[p].pc = "seen" /\ WorkerIs(p, "insert", pv[p].at)
        /\ DiskIs(p, disk[p].tree, pv[p].at, Root(pv[p].at))
    BY <1>10, ProverMoves
  <2> QED BY <1>b, <1>c, <2>1 DEF TreeMatches
<1>11. CASE InsertRow(p)
  <2>1. pv[p].pc = "insert" /\ DiskStays(p)
    BY <1>11, ProverMoves
  <2>2. CASE pv'[p].pc = "down"
    BY <1>h, <2>1, <2>2
  <2>3. CASE WorkerIs(p, "stream", pv[p].at + 1)
    BY <1>b, <1>c, <1>g, <2>1, <2>3 DEF TreeMatches
  <2> QED BY <1>11, <2>2, <2>3, ProverMoves
<1> QED BY <1>1, <1>2, <1>3, <1>4, <1>5, <1>6, <1>7, <1>8, <1>9, <1>10, <1>11 DEF ProverStep
\* The trees stay those of blocks.
LEMMA TreeStep ==
    ASSUME IInv, TreeInv, [SystemNext]_systemVars
    PROVE  TreeInv'
<1> USE DEF IInv
<1>a. tip' \in {tip, tip + 1} /\ tip \in Nat
  BY Steps, ContractEffects DEF ContractTypeOK
<1>b. \A w, d : TreeMatches(tip, w, d) => TreeMatches(tip', w, d)
  <2>1. 0 .. tip \subseteq 0 .. tip'
    BY <1>a
  <2> QED BY <2>1 DEF TreeMatches
<1>c. SUFFICES ASSUME NEW q \in Provers, gaps'[q] = {} PROVE TreeMatches(tip, pv'[q], disk'[q])
  BY <1>b DEF TreeInv
<1>d. gaps[q] = {} => TreeMatches(tip, pv[q], disk[q])
  BY DEF TreeInv
<1>1. CASE Outside
  BY <1>1, <1>c, <1>d DEF Outside, proverVars
<1>2. ASSUME NEW p \in Provers, ProverStep(p) PROVE TreeMatches(tip, pv'[q], disk'[q])
  <2>1. gaps[q] = {}
    BY <1>2, <1>c, ProverEffects
  <2>2. CASE q = p
    BY <1>2, <1>d, <2>1, <2>2, OwnTree
  <2>3. CASE q # p
    BY <1>2, <1>d, <2>1, <2>3, ProverEffects
  <2> QED BY <2>2, <2>3
<1>3. ASSUME NEW p \in Provers, Aside(p) \/ Mine(p) PROVE TreeMatches(tip, pv'[q], disk'[q])
  <2>1. /\ disk' = disk /\ (pv'[q] = pv[q] \/ pv'[q].pc = "down")
        /\ gaps'[q] = gaps[q] \/ gaps'[q] # {}
    BY <1>3, RollupEffects DEF Aside
  <2>2. TreeMatches(tip, pv[q], disk[q])
    BY <1>c, <1>d, <2>1
  <2> QED BY <2>1, <2>2 DEF TreeMatches
<1> QED BY <1>1, <1>2, <1>3, Steps

\* The locks stay exclusive, and keep everyone else from inserting a proof.
LEMMA LockStep ==
    ASSUME IInv, LockInv, [SystemNext]_systemVars
    PROVE  LockInv'
<1> USE DEF IInv
<1> DEFINE Exclusive == \A l, m \in locks' : l[2] = m[2] => l[1] = m[1]
           Held(q) == pv'[q].pc \in {"prove", "apply", "seen", "insert"} =>
                        <<q, pv'[q].at, "prove">> \in locks' /\ \A r \in rows' : r.height # pv'[q].at
<1>a. \A l, m \in locks : l[2] = m[2] => l[1] = m[1]
  BY DEF LockInv
<1>b. \A q \in Provers : pv[q].pc \in {"prove", "apply", "seen", "insert"} =>
          <<q, pv[q].at, "prove">> \in locks /\ \A r \in rows : r.height # pv[q].at
  BY DEF LockInv
<1>1. CASE Outside
  BY <1>1, <1>a, <1>b DEF Outside, proverVars, LockInv
<1>2. ASSUME NEW p \in Provers, ProverStep(p) PROVE LockInv'
  <2>1. StreamLock(p) => /\ locks' = locks \cup {<<p, pv[p].at, "prove">>}
                         /\ rows' = rows /\ WorkerIs(p, "prove", pv[p].at)
                         /\ \A r \in rows : r.height # pv[p].at
                         /\ \A l \in locks : l[2] = pv[p].at => l[1] = p
    BY ProverMoves DEF StreamLock, Ours
  <2>2. Exclusive
    <3>1. CASE locks' \subseteq locks
      BY <1>a, <3>1
    <3>2. CASE StreamLock(p)
      <4>1. \A l \in locks' : l[2] = pv[p].at => l[1] = p
        BY <2>1, <3>2
      <4>2. \A l \in locks' : l \in locks \/ (l[1] = p /\ l[2] = pv[p].at)
        BY <2>1, <3>2
      <4> QED BY <1>a, <4>1, <4>2
    <3> QED BY <1>2, <3>1, <3>2, ProverEffects
  <2>3. ASSUME NEW q \in Provers \ {p} PROVE Held(q)
    <3>1. SUFFICES ASSUME pv[q].pc \in {"prove", "apply", "seen", "insert"}
                   PROVE  <<q, pv[q].at, "prove">> \in locks' /\ \A r \in rows' : r.height # pv[q].at
      BY <1>2, <2>3, ProverEffects
    <3>2. <<q, pv[q].at, "prove">> \in locks /\ \A r \in rows : r.height # pv[q].at
      BY <1>b, <3>1
    <3>3. <<q, pv[q].at, "prove">> \in locks'
      BY <1>2, <3>2, ProverEffects
    <3>4. CASE rows' = rows
      BY <3>2, <3>3, <3>4
    <3>5. CASE InsertRow(p)
      <4>1. pv[p].pc = "insert"
        BY <3>5, ProverMoves
      <4>2. <<p, pv[p].at, "prove">> \in locks
        BY <1>b, <4>1
      <4>3. pv[p].at # pv[q].at
        BY <1>a, <3>2, <4>2
      <4>4. \E r \in disk[p].rollups : r.height = pv[p].at
        BY <4>1 DEF WorkInv
      <4>5. PICK r : r.height = pv[p].at /\ rows' \subseteq rows \cup {r}
        BY <3>5, <4>4, ProverMoves
      <4> QED BY <3>2, <3>3, <4>3, <4>5
    <3> QED BY <1>2, <3>4, <3>5, ProverEffects
  <2>4. Held(p)
    <3>1. CASE StreamLock(p)
      BY <2>1, <3>1 DEF WorkerIs
    <3>2. CASE InsertRow(p)
      BY <3>2, ProverMoves DEF WorkerIs
    <3>3. CASE Prove(p) \/ Apply(p) \/ Seen(p)
      <4>1. \/ pv'[p].pc = "down"
            \/ pv[p].pc \in {"prove", "apply", "seen"} /\ pv'[p].at = pv[p].at
        BY <3>3, ProverMoves DEF WorkerIs, Stops
      <4>2. ~StreamLock(p) /\ ~InsertRow(p)
        BY <3>3, ProverMoves DEF Streams
      <4>3. rows' = rows /\ (locks' = locks \/ pv'[p].pc = "down")
        BY <1>2, <4>2, ProverEffects
      <4> QED BY <1>b, <4>1, <4>3
    <3>4. CASE Boot(p) \/ FillSeen(p) \/ Check(p) \/ Wipe(p) \/ StreamGap(p)
      BY <3>4, ProverMoves DEF WorkerIs
    <3>5. CASE Fill(p) \/ StreamEmpty(p) \/ StreamSkip(p) \/ SkipSeen(p)
      BY <3>5, ProverMoves DEF WorkerIs, Stops
    <3> QED BY <1>2, <3>1, <3>2, <3>3, <3>4, <3>5 DEF ProverStep
  <2> QED BY <2>2, <2>3, <2>4 DEF LockInv
<1>3. ASSUME NEW p \in Provers, Aside(p) \/ Mine(p) PROVE LockInv'
  <2>1. /\ rows' = rows /\ \A q \in Provers : pv'[q] = pv[q] \/ pv'[q].pc = "down"
        /\ \A l \in locks' : \/ l \in locks
                             \/ (l[1] = p /\ \A m \in locks : m[2] = l[2] => m[1] = p)
        /\ \A l \in locks : l[3] = "prove" => l \in locks' \/ pv'[l[1]].pc = "down"
    BY <1>3, RollupEffects DEF Aside
  <2>2. Exclusive
    BY <1>a, <2>1
  <2>3. ASSUME NEW q \in Provers PROVE Held(q)
    <3>1. SUFFICES ASSUME pv'[q].pc \in {"prove", "apply", "seen", "insert"}
                   PROVE  <<q, pv'[q].at, "prove">> \in locks' /\ \A r \in rows' : r.height # pv'[q].at
      OBVIOUS
    <3>2. pv'[q] = pv[q]
      BY <2>1, <3>1
    <3>3. <<q, pv[q].at, "prove">> \in locks /\ \A r \in rows : r.height # pv[q].at
      BY <1>b, <3>1, <3>2
    <3>4. <<q, pv[q].at, "prove">>[1] = q /\ <<q, pv[q].at, "prove">>[3] = "prove"
      OBVIOUS
    <3>5. <<q, pv[q].at, "prove">> \in locks'
      BY <2>1, <3>1, <3>3, <3>4
    <3> QED BY <2>1, <3>2, <3>3, <3>5
  <2> QED BY <2>2, <2>3 DEF LockInv
<1> QED BY <1>1, <1>2, <1>3, Steps

\* A prover on the commit stream has the tree of the block before, unless its node has
\* taken a fast snapshot, proves what the chain did, and never inserts a second proof of
\* a block: for any number of provers, crashes at any step and transactions lost.
THEOREM ProverTreeExactHolds == (ProversSpec \/ SystemSpec) => []ProverTreeExact
<1> DEFINE Inv == IInv /\ TreeInv /\ LockInv
<1>1. SystemInit => Inv
  <2>1. ASSUME SystemInit PROVE TreeInv /\ LockInv
    <3>1. Root(0) = {} /\ 0 \in 0 .. tip
      BY <2>1, RollupAssumption DEF Root, SystemInit, RollupInit
    <3>2. TreeInv
      BY <2>1, <3>1 DEF SystemInit, ProverInit, Down, TreeInv, TreeMatches
    <3>3. LockInv
      BY <2>1 DEF SystemInit, ProverInit, Down, LockInv
    <3> QED BY <3>2, <3>3
  <2> QED BY <2>1, IInvInit
<1>2. Inv /\ [SystemNext]_systemVars => Inv'
  BY IInvStep, TreeStep, LockStep
<1>3. Inv => ProverTreeExact
  <2> SUFFICES ASSUME Inv, NEW p \in Provers
               PROVE  /\ gaps[p] = {} /\ pv[p].pc \in {"stream", "prove", "apply"} =>
                            disk[p].tree = Root(pv[p].at - 1)
                      /\ \A r \in disk[p].rollups : r.old = Root(r.height - 1) /\ r.new = Root(r.height)
                      /\ pv[p].pc = "insert" => ~\E r \in rows : r.height = pv[p].at
    BY DEF ProverTreeExact
  <2> QED BY DEF IInv, TreeInv, TreeMatches, LockInv, ProofsInv, Proves
<1> QED BY <1>1, <1>2, <1>3, AlsoWithout, PTL
----------------------------------------------------------------------------
\* Accounts are different, and so are the blocks of different burns.
LEMMA AccountFacts ==
    /\ Substitutor # "contract" /\ Substitutor \in Accounts /\ "contract" \in Accounts
    /\ Burns \subseteq Accounts
    /\ \A b \in Burns : b # Substitutor /\ b # "contract" /\ b \notin Ids("mint")
    /\ \A h, k \in Heights : Chain[h].kind = "burn" /\ Chain[k].kind = "burn"
                             /\ Chain[h].id = Chain[k].id => h = k
BY IdsAssumption DEF Accounts, Substitutor, Burns

\* A proof that starts from the contract's root is of a block above it.
LEMMA NextProof ==
    ASSUME ContractTypeOK, RootInv, NEW r, Proves(r, tip), r.old = contract.root
    PROVE  r.height > contract.height /\ r.height \in Heights /\ r.height \in Nat \ {0}
<1>1. PICK h \in 1 .. tip : h = r.height
  BY DEF Proves
<1>2. HasTxn(h) /\ Root(h - 1) = Root(contract.height)
  BY <1>1 DEF Proves, RootInv
<1>3. contract.height \in Nat /\ tip \in Nat /\ h \in Nat \ {0} /\ h \in Heights
  BY DEF ContractTypeOK
<1>4. h \notin Root(contract.height)
  BY <1>2, <1>3, RootFacts
<1>5. h > contract.height
  BY <1>2, <1>3, <1>4 DEF Root
<1> QED BY <1>1, <1>3, <1>5

\* Whom the contract would pay for a burn.
LEMMA ReceiverIs ==
    ASSUME ContractTypeOK, NEW b \in Burns, BurnOk(contract, usdc, b)
    PROVE  /\ b \in contract.substituted => BurnReceiver(contract, b) = Substitutor
           /\ b \notin contract.substituted => BurnReceiver(contract, b) \in {b, "none"}
<1>1. contract.kind[b] \in {0, 1} /\ Substitutor \notin blacklist
  BY AccountFacts DEF ContractTypeOK
<1>2. CASE b \in contract.substituted
  <2>1. contract.kind[b] = 0 /\ contract.burns[b].to = Substitutor /\ contract.burns[b].amount = 1
    BY <1>2 DEF BurnOk
  <2> QED BY <1>1, <1>2, <2>1 DEF BurnReceiver, Found
<1>3. CASE b \notin contract.substituted
  BY <1>1, <1>3 DEF BurnReceiver, Found, BurnOk
<1> QED BY <1>2, <1>3

\* The money and the storage of the contract as a call leaves them.
Unpaid == contract.substituted \ contract.rolledUp
Paid == {b \in contract.rolledUp \cap Burns : usdc[b] = 1}
MoneyInv == BurnInv /\ MoneyAddsUp /\ IsFiniteSet(contract.mints)

\* A substitution pays a burn that nobody has paid, from the substitutor's money.
LEMMA SubstituteEffects ==
    ASSUME ContractTypeOK, BurnInv, NEW b \in Burns, SubstituteBurn(b)
    PROVE  \/ UNCHANGED <<contract, usdc>>
           \/ /\ b \notin contract.substituted /\ b \notin contract.rolledUp /\ usdc[b] = 0
              /\ usdc' = [usdc EXCEPT ![Substitutor] = @ - 1, ![b] = 1]
              /\ contract' = [contract EXCEPT !.substituted = @ \cup {b}, !.kind[b] = 0,
                                              !.burns[b] = [to |-> Substitutor, amount |-> 1]]
<1>1. CASE ~SubstituteOk(b)
  BY <1>1 DEF SubstituteBurn, rollupVars
<1>2. CASE SubstituteOk(b)
  <2>1. b \notin contract.substituted /\ b \notin contract.rolledUp /\ BurnReceiver(contract, b) # "none"
    BY <1>2 DEF SubstituteOk
  <2>2. usdc[b] = 0
    BY <2>1 DEF BurnInv, BurnOk
  <2>3. BurnReceiver(contract, b) = b /\ b # "none"
    BY <2>1, ReceiverIs DEF BurnInv
  <2> DEFINE u == Transfer(usdc, Substitutor, "contract")
  <2>4. u = [usdc EXCEPT ![Substitutor] = @ - 1, !["contract"] = @ + 1]
    BY DEF Transfer
  <2>5. Transfer(u, "contract", b) = [u EXCEPT !["contract"] = @ - 1, ![b] = @ + 1]
    BY <2>3 DEF Transfer
  <2>6. usdc' = Transfer(u, "contract", b)
    BY <1>2, <2>3 DEF SubstituteBurn
  <2>7. usdc \in [Accounts -> Int]
    BY DEF ContractTypeOK
  <2>8. u = [a \in Accounts |-> IF a = Substitutor THEN usdc[a] - 1
                               ELSE IF a = "contract" THEN usdc[a] + 1 ELSE usdc[a]]
    BY <2>4, <2>7, AccountFacts
  <2>9. usdc' = [a \in Accounts |-> IF a = "contract" THEN u[a] - 1
                                   ELSE IF a = b THEN u[a] + 1 ELSE u[a]]
    <3> HIDE DEF u
    <3> QED BY <2>5, <2>6, <2>8, AccountFacts
  <2>10. usdc' = [usdc EXCEPT ![Substitutor] = @ - 1, ![b] = 1]
    <3> DEFINE v == [usdc EXCEPT ![Substitutor] = @ - 1, ![b] = 1]
    <3> HIDE DEF u
    <3>1. \A a \in Accounts : usdc'[a] = IF a = Substitutor THEN usdc[a] - 1
                                        ELSE IF a = b THEN 1 ELSE usdc[a]
      <4>1. (usdc["contract"] + 1) - 1 = usdc["contract"] /\ usdc[b] + 1 = 1
        BY <2>2, <2>7, AccountFacts
      <4>2. ASSUME NEW a \in Accounts
            PROVE  usdc'[a] = IF a = Substitutor THEN usdc[a] - 1
                              ELSE IF a = b THEN 1 ELSE usdc[a]
        <5>1. u[a] = IF a = Substitutor THEN usdc[a] - 1
                     ELSE IF a = "contract" THEN usdc[a] + 1 ELSE usdc[a]
          BY <2>8
        <5>2. usdc'[a] = IF a = "contract" THEN u[a] - 1
                         ELSE IF a = b THEN u[a] + 1 ELSE u[a]
          BY <2>9
        <5>3. b # Substitutor /\ b # "contract" /\ Substitutor # "contract"
          BY AccountFacts
        <5>4. CASE a = "contract"
          BY <4>1, <5>1, <5>2, <5>3, <5>4
        <5>5. CASE a = b
          BY <4>1, <5>1, <5>2, <5>3, <5>5
        <5>6. CASE a # "contract" /\ a # b
          BY <5>1, <5>2, <5>3, <5>6
        <5> QED BY <5>4, <5>5, <5>6
      <4> QED BY <4>2
    <3>2. v = [a \in Accounts |-> IF a = Substitutor THEN usdc[a] - 1
                                  ELSE IF a = b THEN 1 ELSE usdc[a]]
      BY <2>7, AccountFacts
    <3>3. usdc' = [a \in Accounts |-> usdc'[a]]
      BY <2>9
    <3>4. usdc' = [a \in Accounts |-> IF a = Substitutor THEN usdc[a] - 1
                                  ELSE IF a = b THEN 1 ELSE usdc[a]]
      BY <3>1, <3>3
    <3> QED BY <3>2, <3>4
  <2> QED BY <1>2, <2>1, <2>2, <2>10 DEF SubstituteBurn
<1> QED BY <1>1, <1>2

\* A verified block has no burn that a block before it had; it pays the substitutor for
\* a burn that was substituted, and the user for another one unless USDC refuses it.
LEMMA VerifyEffects ==
    ASSUME ContractTypeOK, RootInv, BurnInv, NEW r \in Proofs, Proves(r, tip), VerifyBlock2(r)
    PROVE  \/ UNCHANGED <<contract, usdc>>
           \/ /\ r.height > contract.height
              /\ \E leaves \in SUBSET (Ids("mint") \cup Burns) :
                   /\ contract' = [contract EXCEPT !.root = r.new, !.height = r.height,
                                                   !.rolledUp = @ \cup leaves]
                   /\ \/ leaves \cap Burns = {} /\ usdc' = usdc
                      \/ \E b \in Burns :
                           /\ leaves = {b} /\ b \notin contract.rolledUp /\ Found(contract, b)
                           /\ \E h \in 1 .. r.height : Chain[h].kind = "burn" /\ Chain[h].id = b
                           /\ \/ /\ b \in contract.substituted
                                 /\ usdc' = [usdc EXCEPT !["contract"] = @ - 1, ![Substitutor] = @ + 1]
                              \/ /\ b \notin contract.substituted
                                 /\ usdc' = [usdc EXCEPT !["contract"] = @ - 1, ![b] = 1]
                                 /\ usdc[b] = 0
                              \/ b \notin contract.substituted /\ usdc' = usdc /\ usdc[b] = 0
<1>1. CASE ~VerifyBlockOk(r)
  BY <1>1 DEF VerifyBlock2, rollupVars
<1>2. CASE VerifyBlockOk(r)
  <2> DEFINE h == r.height
             t == Chain[r.height]
  <2>1. h > contract.height /\ h \in Heights /\ h \in Nat \ {0}
    BY <1>2, NextProof DEF VerifyBlockOk
  <2>2. /\ usdc' = VerifyTxnUsdc(t)
        /\ contract' = [contract EXCEPT !.root = r.new, !.height = h, !.rolledUp = @ \cup VerifyTxnLeaves(t)]
    BY <1>2 DEF VerifyBlock2
  <2>3. VerifyTxnLeaves(t) \in SUBSET (Ids("mint") \cup Burns)
    BY <2>1, TxnFacts
  <2>4. CASE t.kind # "burn"
    <3>1. usdc' = usdc
      BY <2>2, <2>4 DEF VerifyTxnUsdc
    <3>2. VerifyTxnLeaves(t) \cap Burns = {}
      <4>1. t.kind = "mint" => t.id \in Ids("mint")
        BY <2>1 DEF Ids
      <4> QED BY <2>4, <4>1, AccountFacts DEF VerifyTxnLeaves
    <3> QED BY <2>1, <2>2, <2>3, <3>1, <3>2
  <2>5. CASE t.kind = "burn"
    <3>1. PICK b \in Burns : b = t.id
      BY <2>1, <2>5, TxnFacts
    <3>2. VerifyTxnLeaves(t) = {b}
      BY <2>5, <3>1 DEF VerifyTxnLeaves
    <3>3. Found(contract, b)
      BY <1>2, <2>5, <3>1 DEF VerifyBlockOk, VerifyTxnOk
    <3>4. b \notin contract.rolledUp
      <4> SUFFICES ASSUME b \in contract.rolledUp PROVE FALSE
        OBVIOUS
      <4>1. PICK k \in 1 .. contract.height : Chain[k].kind = "burn" /\ Chain[k].id = b
        BY DEF BurnInv, BurnOk
      <4>2. k \in Heights /\ k < h
        BY <2>1 DEF ContractTypeOK, RootInv
      <4>3. k = h
        BY <2>1, <2>5, <3>1, <4>1, <4>2, AccountFacts
      <4> QED BY <2>1, <4>2, <4>3
    <3>5. h \in 1 .. r.height
      BY <2>1
    <3>6. usdc' = Transfer(usdc, "contract", BurnReceiver(contract, b))
      BY <2>2, <2>5, <3>1 DEF VerifyTxnUsdc
    <3>7. \/ /\ b \in contract.substituted
             /\ usdc' = [usdc EXCEPT !["contract"] = @ - 1, ![Substitutor] = @ + 1]
          \/ /\ b \notin contract.substituted
             /\ usdc' = [usdc EXCEPT !["contract"] = @ - 1, ![b] = 1]
             /\ usdc[b] = 0
          \/ b \notin contract.substituted /\ usdc' = usdc /\ usdc[b] = 0
      <4>1. CASE b \in contract.substituted
        <5>1. BurnReceiver(contract, b) = Substitutor
          BY <4>1, ReceiverIs DEF BurnInv
        <5> QED BY <3>6, <4>1, <5>1 DEF Transfer, Substitutor
      <4>2. CASE b \notin contract.substituted
        <5>1. usdc[b] = 0
          BY <3>4, <4>2 DEF BurnInv, BurnOk
        <5>2. CASE BurnReceiver(contract, b) = "none"
          BY <3>6, <4>2, <5>1, <5>2 DEF Transfer
        <5>3. CASE BurnReceiver(contract, b) = b /\ b # "none"
          <6>1. usdc' = [usdc EXCEPT !["contract"] = @ - 1, ![b] = @ + 1]
            BY <3>6, <5>3 DEF Transfer
          <6>2. usdc' = [usdc EXCEPT !["contract"] = @ - 1, ![b] = 1]
            BY <5>1, <6>1, AccountFacts DEF ContractTypeOK
          <6> QED BY <4>2, <5>1, <6>2
        <5> QED BY <4>2, <5>2, <5>3, ReceiverIs DEF BurnInv
      <4> QED BY <4>1, <4>2
    <3> HIDE DEF t
    <3>8. Chain[h].kind = "burn" /\ Chain[h].id = b
      BY <2>5, <3>1 DEF t
    <3>9. \E k \in 1 .. r.height : Chain[k].kind = "burn" /\ Chain[k].id = b
      BY <3>5, <3>8
    <3> QED BY <2>1, <2>2, <2>3, <3>2, <3>3, <3>4, <3>7, <3>9
  <2> QED BY <2>4, <2>5
<1> QED BY <1>1, <1>2
\* The ledger in terms of the burns unpaid and paid, whose numbers are finite.
LEMMA MoneyIs ==
    ASSUME ContractTypeOK
    PROVE  /\ MoneyAddsUp <=> /\ usdc[Substitutor] = Cardinality(Burns) - Cardinality(Unpaid)
                              /\ usdc["contract"] = Cardinality(contract.mints) - Cardinality(Paid)
           /\ IsFiniteSet(Unpaid) /\ IsFiniteSet(Paid)
           /\ Cardinality(Burns) \in Nat /\ Cardinality(Unpaid) \in Nat /\ Cardinality(Paid) \in Nat
<1>1. IsFiniteSet(Burns)
  BY IdsAssumption DEF Burns
<1>2. Unpaid \subseteq Burns /\ Paid \subseteq Burns
  BY DEF ContractTypeOK, Unpaid, Paid
<1>3. IsFiniteSet(Unpaid) /\ IsFiniteSet(Paid)
  BY <1>1, <1>2, FS_Subset
<1> QED BY <1>1, <1>3, FS_CardinalityType DEF MoneyAddsUp, Unpaid, Paid, Burns

\* A call that leaves balances and burns alone leaves the money in order.
LEMMA MoneySame ==
    ASSUME MoneyInv, UNCHANGED <<contract, usdc>>
    PROVE  MoneyInv'
BY DEF MoneyInv, MoneyAddsUp, BurnInv, BurnOk, Found

\* The users' calls: a mint brings its money, and a burn that is registered was neither
\* substituted nor rolled up before.
LEMMA UserMoney ==
    ASSUME ContractTypeOK, ContractTypeOK', MoneyInv, UserNext
    PROVE  MoneyInv'
<1>1. CASE UNCHANGED <<contract, usdc>>
  BY <1>1, MoneySame
<1>2. ASSUME NEW m \in Ids("mint"), Mint(m) PROVE MoneyInv'
  <2>1. /\ contract'.mints = contract.mints \cup {m} /\ m \notin contract.mints
        /\ contract'.kind = contract.kind /\ contract'.burns = contract.burns
        /\ contract'.substituted = contract.substituted /\ contract'.rolledUp = contract.rolledUp
        /\ contract'.height = contract.height
    BY <1>2 DEF Mint, ContractTypeOK
  <2>2. /\ \A a \in Accounts \ {"contract"} : usdc'[a] = usdc[a]
        /\ usdc'["contract"] = usdc["contract"] + 1
    BY <1>2, AccountFacts DEF Mint, ContractTypeOK
  <2>3. \A b \in Burns : usdc'[b] = usdc[b]
    BY <2>2, AccountFacts
  <2>4. BurnInv'
    BY <2>1, <2>3 DEF MoneyInv, BurnInv, BurnOk, Found
  <2>5. Unpaid' = Unpaid /\ Paid' = Paid
    BY <2>1, <2>3 DEF Unpaid, Paid
  <2>6. /\ IsFiniteSet(contract.mints) /\ IsFiniteSet(contract'.mints)
        /\ Cardinality(contract.mints) \in Nat
        /\ Cardinality(contract'.mints) = Cardinality(contract.mints) + 1
    <3>1. IsFiniteSet(contract.mints)
      BY DEF MoneyInv
    <3>2. Cardinality(contract.mints) \in Nat
      BY <3>1, FS_CardinalityType
    <3> QED BY <2>1, <3>1, <3>2, FS_AddElement
  <2>7. usdc'[Substitutor] = usdc[Substitutor]
    BY <2>2, AccountFacts
  <2>8. /\ usdc[Substitutor] = Cardinality(Burns) - Cardinality(Unpaid)
        /\ usdc["contract"] = Cardinality(contract.mints) - Cardinality(Paid)
        /\ Cardinality(Burns) \in Nat /\ Cardinality(Unpaid) \in Nat /\ Cardinality(Paid) \in Nat
    BY MoneyIs DEF MoneyInv
  <2>9. MoneyAddsUp'
    <3>1. usdc'["contract"] = Cardinality(contract'.mints) - Cardinality(Paid)
      BY <2>2, <2>6, <2>8
    <3> QED BY <2>1, <2>5, <2>7, <2>8, <3>1 DEF MoneyAddsUp, Unpaid, Paid, Burns
  <2> QED BY <2>4, <2>6, <2>9 DEF MoneyInv
<1>3. ASSUME NEW b \in Burns, BurnToAddress(b) \/ BurnToRouter(b) PROVE MoneyInv'
  <2>1. b \notin contract.substituted /\ b \notin contract.rolledUp
    BY <1>3 DEF BurnToAddress, BurnToRouter, BurnIsNew, MoneyInv, BurnInv, BurnOk, Found
  <2>2. /\ contract'.mints = contract.mints /\ contract'.height = contract.height
        /\ contract'.substituted = contract.substituted /\ contract'.rolledUp = contract.rolledUp
        /\ \A a \in Burns \ {b} : contract'.kind[a] = contract.kind[a] /\ contract'.burns[a] = contract.burns[a]
        /\ contract'.burns[b] = contract.burns[b] \/ contract'.burns[b].to = b
        /\ usdc' = usdc
    <3>1. CASE BurnToAddress(b)
      BY <3>1 DEF BurnToAddress, ContractTypeOK
    <3>2. CASE BurnToRouter(b)
      BY <3>2 DEF BurnToRouter, ContractTypeOK
    <3> QED BY <1>3, <3>1, <3>2
  <2>3. BurnInv'
    <3>1. ASSUME NEW a \in Burns \ {b} PROVE BurnOk(contract', usdc', a)
      BY <2>2, <3>1 DEF MoneyInv, BurnInv, BurnOk, Found
    <3>2. BurnOk(contract', usdc', b)
      BY <2>1, <2>2 DEF MoneyInv, BurnInv, BurnOk, Found
    <3> QED BY <3>1, <3>2 DEF BurnInv
  <2> QED BY <2>2, <2>3 DEF MoneyInv, MoneyAddsUp
<1> QED BY <1>1, <1>2, <1>3 DEF UserNext, Blacklist, Produce, Burns
\* A substitution makes one more burn paid by the substitutor and not rolled up.
LEMMA SubstituteMoney ==
    ASSUME ContractTypeOK, ContractTypeOK', MoneyInv, NEW b \in Burns, SubstituteBurn(b)
    PROVE  MoneyInv'
<1>1. CASE UNCHANGED <<contract, usdc>>
  BY <1>1, MoneySame
<1>2. CASE /\ b \notin contract.substituted /\ b \notin contract.rolledUp /\ usdc[b] = 0
           /\ usdc' = [usdc EXCEPT ![Substitutor] = @ - 1, ![b] = 1]
           /\ contract' = [contract EXCEPT !.substituted = @ \cup {b}, !.kind[b] = 0,
                                           !.burns[b] = [to |-> Substitutor, amount |-> 1]]
  <2>1. /\ contract'.mints = contract.mints /\ contract'.height = contract.height
        /\ contract'.substituted = contract.substituted \cup {b}
        /\ contract'.rolledUp = contract.rolledUp
        /\ contract'.kind[b] = 0
        /\ contract'.burns[b].to = Substitutor /\ contract'.burns[b].amount = 1
        /\ \A a \in Burns \ {b} : contract'.kind[a] = contract.kind[a] /\ contract'.burns[a] = contract.burns[a]
    BY <1>2 DEF ContractTypeOK
  <2>2. /\ usdc'[Substitutor] = usdc[Substitutor] - 1 /\ usdc'["contract"] = usdc["contract"]
        /\ usdc'[b] = 1 /\ \A a \in Burns \ {b} : usdc'[a] = usdc[a]
    BY <1>2, AccountFacts DEF ContractTypeOK
  <2>3. BurnInv'
    <3>1. ASSUME NEW a \in Burns \ {b} PROVE BurnOk(contract', usdc', a)
      BY <2>1, <2>2, <3>1 DEF MoneyInv, BurnInv, BurnOk, Found
    <3>2. BurnOk(contract', usdc', b)
      BY <1>2, <2>1, <2>2 DEF BurnOk
    <3> QED BY <3>1, <3>2 DEF BurnInv
  <2>4. Unpaid' = Unpaid \cup {b} /\ b \notin Unpaid /\ Paid' = Paid
    <3>1. b \notin contract.substituted /\ b \notin contract.rolledUp
      BY <1>2
    <3>2. Unpaid' = Unpaid \cup {b} /\ b \notin Unpaid
      BY <2>1, <3>1 DEF Unpaid
    <3>3. \A a \in contract.rolledUp \cap Burns : usdc'[a] = usdc[a]
      BY <2>2, <3>1
    <3>4. Paid' = Paid
      BY <2>1, <3>3 DEF Paid
    <3> QED BY <3>2, <3>4
  <2>5. /\ usdc[Substitutor] = Cardinality(Burns) - Cardinality(Unpaid)
        /\ usdc["contract"] = Cardinality(contract.mints) - Cardinality(Paid)
        /\ Cardinality(Burns) \in Nat /\ Cardinality(Unpaid) \in Nat
        /\ IsFiniteSet(Unpaid)
    BY MoneyIs DEF MoneyInv
  <2>6. Cardinality(Unpaid') = Cardinality(Unpaid) + 1
    BY <2>4, <2>5, FS_AddElement
  <2>7. usdc'[Substitutor] = Cardinality(Burns) - Cardinality(Unpaid')
    BY <2>2, <2>5, <2>6
  <2>8. MoneyAddsUp'
    BY <2>1, <2>2, <2>4, <2>5, <2>7 DEF MoneyAddsUp, Unpaid, Paid, Burns
  <2> QED BY <2>1, <2>3, <2>8 DEF MoneyInv
<1> QED BY <1>1, <1>2, SubstituteEffects DEF MoneyInv

\* A verified block takes no burn that was rolled up before: the substitutor gets back
\* what it paid, or the user is paid, unless USDC refuses the user.
LEMMA VerifyMoney ==
    ASSUME ContractTypeOK, ContractTypeOK', RootInv, MoneyInv,
           NEW r \in Proofs, Proves(r, tip), VerifyBlock2(r)
    PROVE  MoneyInv'
<1>1. CASE UNCHANGED <<contract, usdc>>
  BY <1>1, MoneySame
<1>2. ASSUME r.height > contract.height, NEW leaves \in SUBSET (Ids("mint") \cup Burns),
             contract' = [contract EXCEPT !.root = r.new, !.height = r.height,
                                          !.rolledUp = @ \cup leaves]
      PROVE  /\ contract'.mints = contract.mints /\ contract'.kind = contract.kind
             /\ contract'.burns = contract.burns /\ contract'.substituted = contract.substituted
             /\ contract'.rolledUp = contract.rolledUp \cup leaves /\ contract'.height = r.height
             /\ \A n \in 1 .. contract.height : n \in 1 .. r.height
  BY <1>2 DEF ContractTypeOK, Proofs
<1>3. ASSUME r.height > contract.height, NEW leaves \in SUBSET (Ids("mint") \cup Burns),
             contract' = [contract EXCEPT !.root = r.new, !.height = r.height,
                                          !.rolledUp = @ \cup leaves],
             NEW a \in Burns, a \notin leaves, usdc'[a] = usdc[a]
      PROVE  BurnOk(contract', usdc', a)
  <2>1. /\ contract'.kind = contract.kind /\ contract'.burns = contract.burns
        /\ contract'.substituted = contract.substituted /\ contract'.height = r.height
        /\ contract'.rolledUp = contract.rolledUp \cup leaves
        /\ \A n \in 1 .. contract.height : n \in 1 .. r.height
    BY <1>2, <1>3
  <2>2. BurnOk(contract, usdc, a)
    BY DEF MoneyInv, BurnInv
  <2> QED BY <1>3, <2>1, <2>2 DEF BurnOk, Found
<1>4. /\ usdc[Substitutor] = Cardinality(Burns) - Cardinality(Unpaid)
      /\ usdc["contract"] = Cardinality(contract.mints) - Cardinality(Paid)
      /\ Cardinality(Burns) \in Nat /\ Cardinality(Unpaid) \in Nat /\ Cardinality(Paid) \in Nat
      /\ IsFiniteSet(Unpaid) /\ IsFiniteSet(Paid)
      /\ IsFiniteSet(contract.mints) /\ Cardinality(contract.mints) \in Nat
  BY MoneyIs, FS_CardinalityType DEF MoneyInv
<1>5. ASSUME r.height > contract.height, NEW leaves \in SUBSET (Ids("mint") \cup Burns),
             contract' = [contract EXCEPT !.root = r.new, !.height = r.height,
                                          !.rolledUp = @ \cup leaves],
             leaves \cap Burns = {}, usdc' = usdc
      PROVE  MoneyInv'
  <2>1. \A a \in Burns : a \notin leaves /\ usdc'[a] = usdc[a]
    BY <1>5
  <2>2. BurnInv'
    BY <1>3, <1>5, <2>1 DEF BurnInv
  <2>3. Unpaid' = Unpaid /\ Paid' = Paid
    BY <1>2, <1>5, <2>1 DEF Unpaid, Paid, ContractTypeOK
  <2>4. contract'.mints = contract.mints
    BY <1>2, <1>5
  <2>5. MoneyAddsUp'
    BY <1>4, <1>5, <2>3, <2>4 DEF MoneyAddsUp, Unpaid, Paid, Burns
  <2> QED BY <1>4, <2>2, <2>4, <2>5 DEF MoneyInv
<1>6. ASSUME r.height > contract.height, NEW b \in Burns,
             contract' = [contract EXCEPT !.root = r.new, !.height = r.height,
                                          !.rolledUp = @ \cup {b}],
             b \notin contract.rolledUp, Found(contract, b),
             \E h \in 1 .. r.height : Chain[h].kind = "burn" /\ Chain[h].id = b,
             \/ /\ b \in contract.substituted
                /\ usdc' = [usdc EXCEPT !["contract"] = @ - 1, ![Substitutor] = @ + 1]
             \/ /\ b \notin contract.substituted
                /\ usdc' = [usdc EXCEPT !["contract"] = @ - 1, ![b] = 1]
                /\ usdc[b] = 0
             \/ b \notin contract.substituted /\ usdc' = usdc /\ usdc[b] = 0
      PROVE  MoneyInv'
  <2>1. /\ contract'.mints = contract.mints /\ contract'.kind = contract.kind
        /\ contract'.burns = contract.burns /\ contract'.substituted = contract.substituted
        /\ contract'.rolledUp = contract.rolledUp \cup {b} /\ contract'.height = r.height
        /\ \A n \in 1 .. contract.height : n \in 1 .. r.height
    <3>1. {b} \in SUBSET (Ids("mint") \cup Burns)
      OBVIOUS
    <3> QED BY <1>2, <1>6, <3>1
  <2>2. \A a \in Burns \ {b} : usdc'[a] = usdc[a]
    BY <1>6, AccountFacts DEF ContractTypeOK
  <2>3. \A a \in Burns \ {b} : BurnOk(contract', usdc', a)
    <3>1. {b} \in SUBSET (Ids("mint") \cup Burns)
      OBVIOUS
    <3> QED BY <1>3, <1>6, <2>2, <3>1
  <2>4. CASE /\ b \in contract.substituted
             /\ usdc' = [usdc EXCEPT !["contract"] = @ - 1, ![Substitutor] = @ + 1]
    <3>1. /\ usdc'[Substitutor] = usdc[Substitutor] + 1 /\ usdc'["contract"] = usdc["contract"] - 1
          /\ usdc'[b] = usdc[b] /\ usdc[b] = 1
      BY <2>4, AccountFacts DEF ContractTypeOK, MoneyInv, BurnInv, BurnOk
    <3>2. BurnOk(contract', usdc', b)
      BY <1>6, <2>1, <2>4, <3>1 DEF MoneyInv, BurnInv, BurnOk, Found
    <3>3. b \in Unpaid /\ Unpaid' = Unpaid \ {b} /\ b \notin Paid /\ Paid' = Paid \cup {b}
      BY <1>6, <2>1, <2>2, <2>4, <3>1 DEF Unpaid, Paid
    <3>4. Cardinality(Unpaid') = Cardinality(Unpaid) - 1 /\ Cardinality(Paid') = Cardinality(Paid) + 1
      BY <1>4, <3>3, FS_AddElement, FS_RemoveElement
    <3>5. /\ usdc'[Substitutor] = Cardinality(Burns) - Cardinality(Unpaid')
          /\ usdc'["contract"] = Cardinality(contract.mints) - Cardinality(Paid')
      BY <1>4, <3>1, <3>4
    <3>6. MoneyAddsUp'
      BY <2>1, <3>5 DEF MoneyAddsUp, Unpaid, Paid, Burns
    <3> QED BY <1>4, <2>1, <2>3, <3>2, <3>6 DEF MoneyInv, BurnInv
  <2>5. CASE /\ b \notin contract.substituted /\ usdc[b] = 0
             /\ usdc' = [usdc EXCEPT !["contract"] = @ - 1, ![b] = 1]
    <3>1. /\ usdc'[Substitutor] = usdc[Substitutor] /\ usdc'["contract"] = usdc["contract"] - 1
          /\ usdc'[b] = 1
      BY <2>5, AccountFacts DEF ContractTypeOK
    <3>2. BurnOk(contract', usdc', b)
      BY <1>6, <2>1, <2>5, <3>1 DEF MoneyInv, BurnInv, BurnOk, Found
    <3>3. Unpaid' = Unpaid /\ b \notin Paid /\ Paid' = Paid \cup {b}
      BY <1>6, <2>1, <2>2, <2>5, <3>1 DEF Unpaid, Paid
    <3>4. Cardinality(Paid') = Cardinality(Paid) + 1
      BY <1>4, <3>3, FS_AddElement
    <3>5. /\ usdc'[Substitutor] = Cardinality(Burns) - Cardinality(Unpaid')
          /\ usdc'["contract"] = Cardinality(contract.mints) - Cardinality(Paid')
      BY <1>4, <3>1, <3>3, <3>4
    <3>6. MoneyAddsUp'
      BY <2>1, <3>5 DEF MoneyAddsUp, Unpaid, Paid, Burns
    <3> QED BY <1>4, <2>1, <2>3, <3>2, <3>6 DEF MoneyInv, BurnInv
  <2>6. CASE b \notin contract.substituted /\ usdc' = usdc /\ usdc[b] = 0
    <3>1. BurnOk(contract', usdc', b)
      BY <1>6, <2>1, <2>6 DEF MoneyInv, BurnInv, BurnOk, Found
    <3>2. Unpaid' = Unpaid /\ Paid' = Paid
      BY <1>6, <2>1, <2>6 DEF Unpaid, Paid
    <3>3. MoneyAddsUp'
      BY <1>4, <2>1, <2>6, <3>2 DEF MoneyAddsUp, Unpaid, Paid, Burns
    <3> QED BY <1>4, <2>1, <2>3, <3>1, <3>3 DEF MoneyInv, BurnInv
  <2> QED BY <1>6, <2>4, <2>5, <2>6
<1>7. CASE /\ r.height > contract.height
           /\ \E leaves \in SUBSET (Ids("mint") \cup Burns) :
                /\ contract' = [contract EXCEPT !.root = r.new, !.height = r.height,
                                                !.rolledUp = @ \cup leaves]
                /\ \/ leaves \cap Burns = {} /\ usdc' = usdc
                   \/ \E b \in Burns :
                        /\ leaves = {b} /\ b \notin contract.rolledUp /\ Found(contract, b)
                        /\ \E h \in 1 .. r.height : Chain[h].kind = "burn" /\ Chain[h].id = b
                        /\ \/ /\ b \in contract.substituted
                              /\ usdc' = [usdc EXCEPT !["contract"] = @ - 1, ![Substitutor] = @ + 1]
                           \/ /\ b \notin contract.substituted
                              /\ usdc' = [usdc EXCEPT !["contract"] = @ - 1, ![b] = 1]
                              /\ usdc[b] = 0
                           \/ b \notin contract.substituted /\ usdc' = usdc /\ usdc[b] = 0
  BY <1>5, <1>6, <1>7
<1> QED BY <1>1, <1>7, VerifyEffects DEF MoneyInv
\* Every step keeps the money in order.
LEMMA MoneyStep ==
    ASSUME IInv, MoneyInv, [SystemNext]_systemVars
    PROVE  MoneyInv'
<1>a. ContractTypeOK /\ ContractTypeOK' /\ RootInv
  BY TypesStep DEF IInv
<1>b. UNCHANGED rollupVars => MoneyInv'
  BY MoneySame DEF rollupVars
<1>1. CASE Outside
  BY <1>a, <1>b, <1>1, UserMoney, SubstituteMoney DEF Outside
<1>2. ASSUME NEW p \in Provers, Mine(p), pool[p] # NoProof, VerifyBlock2(pool[p])
      PROVE  MoneyInv'
  <2>1. pool[p] \in Proofs /\ Proves(pool[p], tip)
    BY <1>2 DEF IInv, ProverTypeOK, ProofsInv
  <2> QED BY <1>a, <1>2, <2>1, VerifyMoney
<1> QED BY <1>b, <1>1, <1>2, Steps

\* At the start nothing is burnt and the substitutor has all its money.
LEMMA MoneyInit == SystemInit => MoneyInv
<1> SUFFICES ASSUME SystemInit PROVE MoneyInv
  OBVIOUS
<1> USE DEF SystemInit, RollupInit
<1>1. /\ contract.mints = {} /\ contract.substituted = {} /\ contract.rolledUp = {}
      /\ \A b \in Burns : contract.burns[b].amount = 0
  BY DEF Burns, NoBurn
<1>2. usdc = [a \in Accounts |-> IF a = Substitutor THEN Cardinality(Burns) ELSE 0]
  BY DEF Burns
<1>3. /\ usdc[Substitutor] = Cardinality(Burns) /\ usdc["contract"] = 0
      /\ \A b \in Burns : usdc[b] = 0
  BY <1>2, AccountFacts
<1>4. BurnInv
  BY <1>1, <1>3 DEF BurnInv, BurnOk
<1>5. Cardinality({}) = 0 /\ IsFiniteSet({}) /\ Cardinality(Burns) \in Nat
  BY FS_EmptySet, FS_CardinalityType, IdsAssumption DEF Burns
<1>6. contract.substituted \ contract.rolledUp = {} /\ {b \in contract.rolledUp \cap Burns : usdc[b] = 1} = {}
  BY <1>1
<1>7. MoneyAddsUp
  <2>1. Cardinality(Burns) - 0 = Cardinality(Burns) /\ 0 - 0 = 0
    BY <1>5
  <2> QED BY <1>1, <1>3, <1>5, <1>6, <2>1 DEF MoneyAddsUp, Burns
<1> QED BY <1>1, <1>4, <1>5, <1>7 DEF MoneyInv

\* No burn is paid twice, by substituteBurn and by the rollup of its block, whatever the
\* order in which they are mined, whoever crashes and however often a rollup is sent.
THEOREM BurnPaidOnceHolds == (ProversSpec \/ SystemSpec) => []BurnPaidOnce
<1>1. IInv /\ MoneyInv /\ [SystemNext]_systemVars => (IInv /\ MoneyInv)'
  BY IInvStep, MoneyStep
<1>2. MoneyInv => BurnPaidOnce
  BY DEF MoneyInv, BurnInv, BurnOk, BurnPaidOnce, Burns
<1> QED BY <1>1, <1>2, IInvInit, MoneyInit, AlsoWithout, PTL

\* The substitutor is short of what it paid for burns not rolled up yet, and the contract
\* keeps what was minted less what the rolled up blocks paid out.
THEOREM MoneyAddsUpHolds == (ProversSpec \/ SystemSpec) => []MoneyAddsUp
<1>1. IInv /\ MoneyInv /\ [SystemNext]_systemVars => (IInv /\ MoneyInv)'
  BY IInvStep, MoneyStep
<1>2. MoneyInv => MoneyAddsUp
  BY DEF MoneyInv
<1> QED BY <1>1, <1>2, IInvInit, MoneyInit, AlsoWithout, PTL
=============================================================================
