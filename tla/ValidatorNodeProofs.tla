------------------------- MODULE ValidatorNodeProofs -------------------------
(***************************************************************************)
(* Proofs about ValidatorNode for any transactions, clients, roots and     *)
(* bounds: the mempool is coherent, the chain has no double spend, and the *)
(* node implements the ledger that it promises its clients.                *)
(***************************************************************************)
EXTENDS ValidatorNode, MempoolLemmas

(* Every height can be leased, as in the code: the proofs bound no height. *)
EveryHeight == Nat \ {0} \subseteq Lease

(* The worker has stored the block of the batch, but not confirmed it.     *)
Stored == pc \in {"tree", "accept", "freeAccepted", "confirm"}

(* What is left of the lease for the batch.                                *)
Held ==
    IF pc \in {"validate", "reject", "store", "tree", "accept"}
    THEN Keys(batch)
    ELSE IF pc = "freeRejected" THEN Keys(batch) \ bad ELSE {}

(* Every key is in the pool, once, or in the lease for the next height.    *)
LeaseInv ==
    /\ OneToOne(pool) /\ OneToOne(batch)
    /\ txns = Keys(pool) \cup Held
    /\ Held \cap Keys(pool) = {}
    /\ \A l \in Lease : leased[l] = IF l = Target THEN Held ELSE {}
    /\ panic # "mempool"
    /\ proc = "down" => pc = "idle"

(* Store, tree and height are those of one block, apart from what the      *)
(* worker is doing.                                                        *)
ChainInv ==
    /\ proc = "up" =>
        /\ Len(store) = IF Stored THEN Target ELSE height
        /\ Stored => store[Target] = Keys(batch)
        /\ tree = disk
        /\ disk = RootAt(IF pc = "tree" THEN height ELSE Len(store))
    /\ proc = "down" =>
        \/ disk = RootAt(Len(store))
        \/ Len(store) > 0 /\ disk = RootAt(Len(store) - 1)

(* What a client asked for is known from its first call on.                *)
AskedInv == \A c \in Client : rpc[c] = "idle" <=> asked[c] = NoTxn

(* A client waits for the transaction it asked for, which is there.        *)
SenderInv ==
    /\ \A c \in Client : /\ reply[c] # "none" => rpc[c] = "done"
                         /\ reply[c] = "waiting" <=> \E k \in txns : sender[k] = c
    /\ \A k \in txns : sender[k] # NoClient =>
            asked[sender[k]] = k /\ rpc[sender[k]] = "done"

Fresh(k) == LeavesOf(k) \cap tree = {}

(* A batch that passed the validation of its block.                        *)
BatchInv ==
    pc = "store" =>
        /\ \A i \in DOMAIN batch : Fresh(batch[i])
        /\ \A i, j \in DOMAIN batch :
              i # j => LeavesOf(batch[i]) \cap LeavesOf(batch[j]) = {}

(* A transaction has the root of a stored block, if it needs one.          *)
AnchorInv ==
    /\ \A k \in Txn :
          anchor[k] = NoRoot \/ \E i \in DOMAIN store : anchor[k] = RootAt(i)
    /\ \A k \in Anchored :
          \/ k \in txns \/ k = net \/ \E c \in Client : asked[c] = k
          => anchor[k] # NoRoot

(* The proposal a single validator makes: lease_batch takes no conflict,   *)
(* validate_transaction has seen a tree that has not changed since.        *)
ProposalInv ==
    /\ pc = "validate" => \A i \in DOMAIN batch : i < next => Fresh(batch[i])
    /\ pc \in {"validate", "store"} =>
          \A i, j \in DOMAIN batch :
              i # j => LeavesOf(batch[i]) \cap LeavesOf(batch[j]) = {}
    /\ pc = "store" => \A i \in DOMAIN batch : Recent(anchor[batch[i]], Target)

(* The transaction can never be part of a later block.                     *)
Dead(k) ==
    \/ LeavesOf(k) \cap RootAt(Len(store)) # {}
    \/ ~Recent(anchor[k], Len(store) + 1)

(* Who was told "err" has a transaction that is dead, or a mint or burn.   *)
ErrInv ==
    \A c \in Client : reply[c] = "err" => asked[c] \in MintBurn \/ Dead(asked[c])
-----------------------------------------------------------------------------
IInv == TypeOK /\ AskedInv /\ LeaseInv /\ ChainInv

\* block_store.set of the next height appends the block.
LEMMA StoreAppends ==
    ASSUME store \in Seq(SUBSET Txn), NEW B \in SUBSET Txn,
           store' = [i \in 1..(Len(store) + 1) \cup DOMAIN store |->
                        IF i = Len(store) + 1 THEN B ELSE store[i]]
    PROVE  /\ store' = Append(store, B) /\ store' \in Seq(SUBSET Txn)
           /\ Len(store') = Len(store) + 1 /\ store'[Len(store) + 1] = B
           /\ \A i \in 1..Len(store) : store'[i] = store[i]
<1> DEFINE n == Len(store)
<1>1. DOMAIN store = 1..n /\ n \in Nat /\ \A i \in 1..n : store[i] \in SUBSET Txn
  BY LenProperties, ElementOfSeq
<1>2. /\ Append(store, B) \in Seq(SUBSET Txn) /\ Len(Append(store, B)) = n + 1
      /\ \A i \in 1..n : Append(store, B)[i] = store[i]
      /\ Append(store, B)[n + 1] = B
  BY AppendProperties
<1> HIDE DEF n
<1>3. /\ store' = [i \in 1..(n + 1) |-> IF i = n + 1 THEN B ELSE store[i]]
      /\ \A i \in 1..n : i \in 1..(n + 1) /\ i # n + 1
      /\ n + 1 \in 1..(n + 1)
  <2>1. 1..(n + 1) \cup 1..n = 1..(n + 1)
    BY <1>1
  <2> QED BY <1>1, <2>1 DEF n
<1>4. store' \in [1..(n + 1) -> SUBSET Txn]
  <2>1. \A i \in 1..(n + 1) : i = n + 1 \/ i \in 1..n
    BY <1>1
  <2> QED BY <1>1, <1>3, <2>1
<1>5. store' \in Seq(SUBSET Txn) /\ Len(store') = n + 1
  <2>1. store' \in Seq(SUBSET Txn)
    <3>1. Seq(SUBSET Txn) = UNION {[1..m -> SUBSET Txn] : m \in Nat}
      BY SeqDef
    <3>2. n + 1 \in Nat
      BY <1>1
    <3> QED BY <1>4, <3>1, <3>2
  <2>2. DOMAIN store' = 1..(n + 1) /\ DOMAIN store' = 1..Len(store')
        /\ Len(store') \in Nat
    BY <1>4, <2>1, LenProperties
  <2> QED BY <1>1, <2>1, <2>2
<1>6. /\ \A i \in 1..n : store'[i] = store[i]
      /\ store'[n + 1] = B
  BY <1>3
<1>7. store' = Append(store, B)
  <2>1. \A i \in 1..(n + 1) : store'[i] = Append(store, B)[i]
    <3>1. \A i \in 1..(n + 1) : i = n + 1 \/ i \in 1..n
      BY <1>1
    <3> QED BY <1>2, <1>6, <3>1
  <2>2. /\ store' \in Seq(SUBSET Txn) /\ Append(store, B) \in Seq(SUBSET Txn)
        /\ Len(store') = Len(Append(store, B))
        /\ \A i \in 1..Len(store') : store'[i] = Append(store, B)[i]
    BY <1>2, <1>5, <2>1
  <2> QED BY <2>2, SeqEqual, Zenon
<1> QED BY <1>5, <1>6, <1>7 DEF n

\* The root of a stored block depends on the blocks up to it.
LEMMA RootsOfPrefix ==
    ASSUME NEW n \in Nat, NEW B,
           \A i \in 1..n : store'[i] = store[i], store'[n + 1] = B
    PROVE  /\ \A h \in 0..n : RootAt(h)' = RootAt(h)
           /\ RootAt(n + 1)' = RootAt(n) \cup BlockLeaves(B)
<1>1. \A h \in 0..n : \A i \in 1..h : i \in 1..n
  OBVIOUS
<1>2. \A h \in 0..n : RootAt(h)' = RootAt(h)
  BY <1>1 DEF RootAt
<1>3. \A i \in 1..(n + 1) : i = n + 1 \/ i \in 1..n
  OBVIOUS
<1>4. n + 1 \in 1..(n + 1) /\ \A i \in 1..n : i \in 1..(n + 1)
  OBVIOUS
<1>5. UNION {BlockLeaves(store'[i]) : i \in 1..(n + 1)}
        = (UNION {BlockLeaves(store[i]) : i \in 1..n}) \cup BlockLeaves(B)
  <2> DEFINE L(b) == BlockLeaves(b)
  <2>1. /\ \A i \in 1..n : L(store'[i]) = L(store[i])
        /\ L(store'[n + 1]) = L(B)
    OBVIOUS
  <2> HIDE DEF L
  <2>2. UNION {L(store'[i]) : i \in 1..(n + 1)}
           = (UNION {L(store[i]) : i \in 1..n}) \cup L(B)
    BY <1>3, <1>4, <2>1
  <2> QED BY <2>2 DEF L
<1> QED BY <1>2, <1>5 DEF RootAt

\* Roots grow with the height; they consist of leaves of transactions.
LEMMA RootsGrow ==
    ASSUME store \in Seq(SUBSET Txn)
    PROVE  /\ \A h \in 0..Len(store) : RootAt(h) \subseteq BlockLeaves(Txn)
           /\ \A h \in 0..Len(store) : \A g \in 0..h : RootAt(g) \subseteq RootAt(h)
           /\ \A i \in DOMAIN store : \A k \in store[i] : \A h \in i..Len(store) :
                 LeavesOf(k) \subseteq RootAt(h)
<1>1. DOMAIN store = 1..Len(store) /\ Len(store) \in Nat
      /\ \A i \in DOMAIN store : store[i] \in SUBSET Txn
  BY LenProperties, ElementOfSeq
<1>2. \A i \in DOMAIN store : BlockLeaves(store[i]) \subseteq BlockLeaves(Txn)
  BY <1>1 DEF BlockLeaves
<1>3. \A h \in 0..Len(store) : RootAt(h) \subseteq BlockLeaves(Txn)
  <2>1. \A h \in 0..Len(store) : \A i \in 1..h : i \in DOMAIN store
    BY <1>1
  <2> QED BY <1>2, <2>1 DEF RootAt
<1>4. \A h \in 0..Len(store) : \A g \in 0..h : RootAt(g) \subseteq RootAt(h)
  <2>1. \A h \in 0..Len(store) : \A g \in 0..h : \A i \in 1..g : i \in 1..h
    BY <1>1
  <2> QED BY <2>1 DEF RootAt
<1>5. \A i \in DOMAIN store : \A k \in store[i] : \A h \in i..Len(store) :
         LeavesOf(k) \subseteq RootAt(h)
  <2>1. \A i \in DOMAIN store : \A h \in i..Len(store) : i \in 1..h
    BY <1>1
  <2>2. \A i \in DOMAIN store : \A k \in store[i] :
           LeavesOf(k) \subseteq BlockLeaves(store[i])
    BY DEF BlockLeaves
  <2> QED BY <2>1, <2>2 DEF RootAt
<1> QED BY <1>3, <1>4, <1>5
-----------------------------------------------------------------------------
\* When the process goes down, what remains are the files.
LEMMA GoDownTypes ==
    ASSUME TypeOK, NEW why \in {"none", "mempool", "double_spend", "load"},
           GoDown(why), crashes' \in 0..MaxCrashes
    PROVE  TypeOK'
<1> USE DEF TypeOK, MempoolTypeOK
<1>1. MempoolTypeOK'
  BY DEF GoDown, Reply
<1>2. /\ store' \in Seq(SUBSET Txn) /\ disk' \subseteq BlockLeaves(Txn)
      /\ tree' \subseteq BlockLeaves(Txn) /\ height' \in Nat
      /\ anchor' \in [Txn -> (SUBSET BlockLeaves(Txn)) \cup {NoRoot}]
      /\ asked' \in [Client -> Txn \cup {NoTxn}] /\ net' \in Txn \cup {NoTxn}
      /\ received' \in 0..MaxReceived
      /\ proc' \in {"up", "down"} /\ pc' \in PC /\ batch' \in Seq(Txn)
      /\ next' \in Nat \ {0} /\ bad' \subseteq Txn
      /\ panic' \in {"none", "mempool", "double_spend", "load"}
  BY DEF GoDown, PC
<1>3. rpc' \in [Client -> {"idle", "validated", "refused", "done"}]
  BY DEF GoDown
<1> QED BY <1>1, <1>2, <1>3

\* Free returns keys that are transactions to the pool.
LEMMA FreeTypes ==
    ASSUME IInv, EveryHeight, Free(Target)
    PROVE  /\ MempoolTypeOK' /\ OneToOne(pool') /\ Target \in Lease
           /\ leased[Target] = Held /\ Keys(pool') = Keys(pool) \cup Held
<1>1. Target \in Nat \ {0} /\ Target \in Lease
  BY DEF IInv, TypeOK, Target, EveryHeight
<1>2. leased[Target] = Held /\ leased[Target] \subseteq Txn
  BY <1>1 DEF IInv, LeaseInv, TypeOK, MempoolTypeOK
<1>3. IsFiniteSet(Keys(batch))
  <2>1. Len(batch) \in Nat /\ DOMAIN batch = 1..Len(batch)
    BY LenProperties DEF IInv, TypeOK
  <2>2. IsFiniteSet(DOMAIN batch)
    BY <2>1, FS_Interval
  <2>3. batch \in Surjection(DOMAIN batch, Keys(batch))
    <3>1. batch \in [DOMAIN batch -> Keys(batch)]
      BY <2>1, LenProperties DEF Keys, IInv, TypeOK
    <3> QED BY <3>1, Fun_IsSurj DEF Keys
  <2> QED BY <2>2, <2>3, FS_Surjection
<1>4. IsFiniteSet(Held)
  <2>1. Held \in SUBSET Keys(batch)
    BY DEF Held
  <2> QED BY <1>3, <2>1, FS_Subset
<1>5. /\ pool' \in Seq(Txn) /\ OneToOne(pool')
      /\ Keys(pool') = Keys(pool) \cup Held
  <2>1. pool \in Seq(Txn) /\ OneToOne(pool) /\ leased[Target] \cap Keys(pool) = {}
    BY <1>2 DEF IInv, LeaseInv, TypeOK, MempoolTypeOK
  <2> QED BY <1>2, <1>4, <2>1, FreePool
<1>6. MempoolTypeOK'
  BY <1>5 DEF Free, IInv, TypeOK, MempoolTypeOK
<1> QED BY <1>1, <1>2, <1>5, <1>6

\* Roots of the store are sets of leaves, so is what a wallet may choose.
LEMMA RootTypes ==
    ASSUME TypeOK, NEW k \in Txn, NEW root \in Roots(k)
    PROVE  root \in (SUBSET BlockLeaves(Txn)) \cup {NoRoot}
<1>1. \A i \in DOMAIN store : RootAt(i) \subseteq BlockLeaves(Txn)
  <2>1. store \in Seq(SUBSET Txn) /\ DOMAIN store = 1..Len(store) /\ Len(store) \in Nat
    BY LenProperties DEF TypeOK
  <2>2. \A i \in DOMAIN store : i \in 0..Len(store)
    BY <2>1
  <2> QED BY <2>1, <2>2, RootsGrow
<1> QED BY <1>1 DEF Roots, TypeOK

\* Requests and transactions from peers keep the types.
LEMMA InputTypes ==
    ASSUME IInv,
           \/ \E c \in Client : \E k \in Txn : Submit(c, k)
           \/ \E c \in Client : SubmitWait(c)
           \/ \E k \in Txn : ReceiveTransaction(k)
           \/ ReceiveAdd
    PROVE  TypeOK'
<1> USE DEF TypeOK, MempoolTypeOK
<1>t. TypeOK /\ AskedInv
  BY DEF IInv
<1>1. ASSUME NEW c \in Client, NEW k \in Txn, Submit(c, k) PROVE TypeOK'
  <2>1. PICK root \in Roots(k) : /\ anchor' = [anchor EXCEPT ![k] = root]
                                 /\ \/ rpc' = [rpc EXCEPT ![c] = "validated"]
                                    \/ rpc' = [rpc EXCEPT ![c] = "refused"]
    BY <1>1 DEF Submit
  <2>2. root \in (SUBSET BlockLeaves(Txn)) \cup {NoRoot}
    BY <1>t, RootTypes
  <2>3. /\ anchor' \in [Txn -> (SUBSET BlockLeaves(Txn)) \cup {NoRoot}]
        /\ rpc' \in [Client -> {"idle", "validated", "refused", "done"}]
    BY <1>t, <2>1, <2>2
  <2>4. /\ asked' = [asked EXCEPT ![c] = k]
        /\ UNCHANGED <<txns, sender, pool, leased, reply, store, disk, tree,
                       height, net, received, pc, batch, next, bad, proc, panic, crashes>>
    BY <1>1 DEF Submit, mempool, worker, process
  <2> QED BY <1>t, <2>3, <2>4
<1>2. ASSUME NEW c \in Client \cup {NoClient}, NEW k \in Txn, Insert(k, c)
      PROVE  txns' \subseteq Txn /\ pool' \in Seq(Txn)
             /\ sender' \in [Txn -> Client \cup {NoClient}]
             /\ leased' = leased
  <2>1. pool' = Append(pool, k)
    BY <1>2 DEF Insert
  <2>2. pool' \in Seq(Txn)
    BY <1>t, <2>1, AppendProperties
  <2> QED BY <1>t, <1>2, <2>2 DEF Insert
<1>3. ASSUME NEW c \in Client, SubmitWait(c) PROVE TypeOK'
  <2>1. /\ rpc' = [rpc EXCEPT ![c] = "done"]
        /\ UNCHANGED <<store, disk, tree, height, anchor, asked, net, received,
                       pc, batch, next, bad, proc, panic, crashes>>
        /\ AddWait(c, asked[c])
    BY <1>3 DEF SubmitWait, chainVars, worker, process
  <2>2. asked[c] \in Txn
    BY <1>t, <1>3 DEF SubmitWait, AskedInv
  <2>3. MempoolTypeOK'
    BY <1>2, <1>t, <2>1, <2>2 DEF AddWait, Reply
  <2> QED BY <1>t, <2>1, <2>3
<1>4. ASSUME NEW k \in Txn, ReceiveTransaction(k) PROVE TypeOK'
  <2>1. PICK root \in Roots(k) : anchor' = [anchor EXCEPT ![k] = root]
    BY <1>4 DEF ReceiveTransaction
  <2>2. root \in (SUBSET BlockLeaves(Txn)) \cup {NoRoot}
    BY <1>t, RootTypes
  <2>3. anchor' \in [Txn -> (SUBSET BlockLeaves(Txn)) \cup {NoRoot}]
    BY <1>t, <2>1, <2>2
  <2>4. received' \in 0..MaxReceived
    BY <1>t, <1>4, ValidatorAssumption DEF ReceiveTransaction
  <2>5. /\ net' = k
        /\ UNCHANGED <<txns, sender, pool, leased, reply, store, disk, tree,
                       height, rpc, asked, pc, batch, next, bad, proc, panic, crashes>>
    BY <1>4 DEF ReceiveTransaction, mempool, worker, process
  <2> QED BY <1>t, <2>3, <2>4, <2>5
<1>5. ASSUME ReceiveAdd PROVE TypeOK'
  <2>1. /\ net \in Txn /\ net' = NoTxn /\ Add(net)
        /\ UNCHANGED <<store, disk, tree, height, anchor, rpc, asked, received,
                       pc, batch, next, bad, proc, panic, crashes>>
    BY <1>t, <1>5 DEF ReceiveAdd, chainVars, worker, process
  <2>2. MempoolTypeOK'
    <3>1. CASE UNCHANGED <<txns, sender, pool, leased, reply>>
      BY <1>t, <3>1
    <3>2. CASE net \notin txns /\ Insert(net, NoClient) /\ reply' = reply
      BY <1>2, <1>t, <2>1, <3>2
    <3> QED BY <2>1, <3>1, <3>2 DEF Add
  <2> QED BY <1>t, <2>1, <2>2
<1> QED BY <1>1, <1>3, <1>4, <1>5

\* The steps of the tick worker, a crash and a start keep the types.
LEMMA WorkerTypes ==
    ASSUME IInv, EveryHeight, Tick \/ Crash \/ Load
    PROVE  TypeOK'
<1> USE DEF TypeOK
<1>t. TypeOK /\ MempoolTypeOK
  BY DEF IInv
<1>c. ChainInv /\ LeaseInv
  BY DEF IInv
<1>1. ASSUME TickLease PROVE TypeOK'
  <2>0. PICK n \in 0..Len(pool) : \E B \in SUBSET (1..n) :
            \/ LookupFails(n) /\ GoDown("mempool")
            \/ /\ LeaseBatch(Target, n, B)
               /\ batch' = Keep(pool, B)
               /\ pc' = "validate" /\ next' = 1 /\ bad' = {}
               /\ UNCHANGED <<chainVars, inputs, proc, panic>>
    BY <1>1 DEF TickLease
  <2>1. PICK B \in SUBSET (1..n) :
            \/ LookupFails(n) /\ GoDown("mempool")
            \/ /\ LeaseBatch(Target, n, B)
               /\ batch' = Keep(pool, B)
               /\ pc' = "validate" /\ next' = 1 /\ bad' = {}
               /\ UNCHANGED <<chainVars, inputs, proc, panic>>
    BY <2>0
  <2>2. crashes' = crashes
    BY <1>1 DEF TickLease
  <2>3. CASE GoDown("mempool")
    BY <1>t, <2>2, <2>3, GoDownTypes
  <2>4. CASE /\ LeaseBatch(Target, n, B)
             /\ batch' = Keep(pool, B)
             /\ pc' = "validate" /\ next' = 1 /\ bad' = {}
             /\ UNCHANGED <<chainVars, inputs, proc, panic>>
    <3>1. /\ pool' \in Seq(Txn) /\ batch' \in Seq(Txn)
          /\ Keys(Keep(pool, B)) \subseteq Txn
          /\ {pool[i] : i \in B} \subseteq Txn
      <4>1. pool \in Seq(Txn) /\ OneToOne(pool)
        BY <1>t, <1>c DEF MempoolTypeOK, LeaseInv
      <4>2. \A i \in DOMAIN pool : pool[i] \in Txn
        BY <4>1, ElementOfSeq, LenProperties
      <4>3. /\ pool' \in Seq(Txn) /\ Keep(pool, B) \in Seq(Txn)
            /\ Keys(Keep(pool, B)) = {pool[i] : i \in B}
        BY <2>4, <4>1, LeaseBatchPool
      <4>4. B \subseteq DOMAIN pool
        BY <4>1, LenProperties
      <4> QED BY <2>4, <4>2, <4>3, <4>4
    <3>2. MempoolTypeOK'
      BY <1>t, <2>4, <3>1 DEF LeaseBatch, MempoolTypeOK
    <3> QED BY <1>t, <2>2, <2>4, <3>1, <3>2 DEF chainVars, inputs, PC
  <2> QED BY <2>1, <2>3, <2>4
<1>2. ASSUME TickValidate PROVE TypeOK'
  <2>1. /\ next' \in Nat \ {0} /\ bad' \subseteq Txn /\ pc' \in PC
    <3>1. Len(batch) \in Nat
      BY <1>t, LenProperties
    <3>2. next \in 1..Len(batch)
      BY <1>2, <1>t, <3>1 DEF TickValidate
    <3>3. batch[next] \in Txn
      BY <1>t, <3>2, ElementOfSeq
    <3> QED BY <1>2, <1>t, <3>3 DEF TickValidate, PC
  <2> QED BY <1>2, <1>t, <2>1 DEF TickValidate, mempool, chainVars, inputs, process, MempoolTypeOK
<1>k. Keys(batch) \subseteq Txn
  BY <1>t, ElementOfSeq, LenProperties DEF Keys
<1>3. ASSUME TickValidateBlock PROVE TypeOK'
  <2>1. bad' \subseteq Txn
    <3>1. \A i \in DOMAIN batch : batch[i] \in Txn
      BY <1>k DEF Keys
    <3> QED BY <1>3, <1>k, <1>t, <3>1 DEF TickValidateBlock
  <2>2. pc' \in PC
    BY <1>3 DEF TickValidateBlock, PC
  <2>3. UNCHANGED <<mempool, chainVars, inputs, process, batch, next>>
    BY <1>3 DEF TickValidateBlock
  <2> QED BY <1>t, <2>1, <2>2, <2>3 DEF mempool, chainVars, inputs, process, MempoolTypeOK
<1>4. ASSUME NEW K, NEW result \in Reply, Commit(Target, K, result)
      PROVE  MempoolTypeOK'
  <2>1. pool' \in Seq(Txn)
    BY <1>t, <1>c, <1>4, CommitPool DEF LeaseInv, MempoolTypeOK
  <2>2. /\ txns' \subseteq Txn /\ sender' \in [Txn -> Client \cup {NoClient}]
        /\ leased' \in [Lease -> SUBSET Txn]
    BY <1>t, <1>4 DEF Commit, MempoolTypeOK
  <2>3. reply' \in [Client -> Reply]
    BY <1>t, <1>4 DEF Commit, MempoolTypeOK
  <2> QED BY <2>1, <2>2, <2>3 DEF MempoolTypeOK
<1>5. ASSUME TickReject PROVE TypeOK'
  <2>1. MempoolTypeOK' /\ pc' \in PC
    BY <1>4, <1>5 DEF TickReject, Reply, PC
  <2> QED BY <1>5, <1>t, <2>1 DEF TickReject, chainVars, inputs, process
<1>6. ASSUME TickFreeRejected PROVE TypeOK'
  <2>1. MempoolTypeOK' /\ pc' \in PC
    BY <1>6, FreeTypes DEF TickFreeRejected, PC
  <2> QED BY <1>6, <1>t, <2>1 DEF TickFreeRejected, chainVars, inputs, process
<1>7. ASSUME TickStore PROVE TypeOK'
  <2>1. CASE GoDown("double_spend")
    BY <1>7, <1>t, <2>1, GoDownTypes DEF TickStore
  <2>2. CASE /\ store' = [i \in 1..Target \cup DOMAIN store |->
                             IF i = Target THEN Keys(batch) ELSE store[i]]
             /\ pc' = "tree"
             /\ UNCHANGED <<mempool, disk, tree, height, anchor, inputs, proc,
                            panic, batch, next, bad>>
    <3>1. Target = Len(store) + 1
      BY <1>7, <1>c DEF TickStore, ChainInv, Target, Stored
    <3>2. store' \in Seq(SUBSET Txn)
      BY <1>k, <1>t, <2>2, <3>1, StoreAppends
    <3>3. crashes' = crashes
      BY <1>7 DEF TickStore
    <3> QED BY <1>t, <2>2, <3>2, <3>3 DEF mempool, inputs, PC, MempoolTypeOK
  <2> QED BY <1>7, <2>1, <2>2 DEF TickStore
<1>8. ASSUME TickTree PROVE TypeOK'
  <2>1. BlockLeaves(Keys(batch)) \subseteq BlockLeaves(Txn)
    BY <1>k DEF BlockLeaves
  <2> QED BY <1>8, <1>t, <2>1 DEF TickTree, mempool, inputs, process, PC, MempoolTypeOK
<1>9. ASSUME TickAccept PROVE TypeOK'
  <2>1. MempoolTypeOK' /\ pc' \in PC
    BY <1>4, <1>9 DEF TickAccept, Reply, PC
  <2> QED BY <1>9, <1>t, <2>1 DEF TickAccept, chainVars, inputs, process
<1>10. ASSUME TickFreeAccepted PROVE TypeOK'
  <2>1. MempoolTypeOK' /\ pc' \in PC
    BY <1>10, FreeTypes DEF TickFreeAccepted, PC
  <2> QED BY <1>10, <1>t, <2>1 DEF TickFreeAccepted, chainVars, inputs, process
<1>11. ASSUME TickConfirm PROVE TypeOK'
  BY <1>11, <1>t DEF TickConfirm, Target, mempool, inputs, process, PC, MempoolTypeOK
<1>12. ASSUME Crash PROVE TypeOK'
  <2>1. crashes' \in 0..MaxCrashes
    BY <1>12, <1>t, ValidatorAssumption DEF Crash
  <2> QED BY <1>12, <1>t, <2>1, GoDownTypes DEF Crash
<1>13. ASSUME Load PROVE TypeOK'
  <2>1. Len(store) \in Nat
    BY <1>t, LenProperties
  <2>2. /\ disk' \subseteq BlockLeaves(Txn) /\ tree' \subseteq BlockLeaves(Txn)
        /\ height' \in Nat /\ proc' \in {"up", "down"}
        /\ panic' \in {"none", "mempool", "double_spend", "load"}
    <3>1. Len(store) > 1 => BlockLeaves(store[Len(store)]) \subseteq BlockLeaves(Txn)
      BY <1>t, <2>1, ElementOfSeq DEF BlockLeaves
    <3> QED BY <1>13, <1>t, <2>1, <3>1 DEF Load
  <2>3. UNCHANGED <<mempool, store, anchor, inputs, worker, crashes>>
    BY <1>13 DEF Load
  <2> QED BY <1>t, <2>2, <2>3 DEF mempool, inputs, worker, MempoolTypeOK
<1> QED BY <1>1, <1>2, <1>3, <1>5, <1>6, <1>7, <1>8, <1>9, <1>10, <1>11,
           <1>12, <1>13 DEF Tick
-----------------------------------------------------------------------------
\* A process that is down holds no key.
LEMMA GoDownLease ==
    ASSUME NEW why \in {"none", "double_spend", "load"}, GoDown(why)
    PROVE  LeaseInv'
    BY DEF GoDown, LeaseInv, OneToOne, Held, Keys

\* Other steps leave the mempool and the lease alone.
LEMMA SameLease ==
    ASSUME LeaseInv, UNCHANGED <<Held, Target>>, panic' # "mempool",
           UNCHANGED <<txns, pool, leased, batch>>, proc' = "down" => pc' = "idle"
    PROVE  LeaseInv'
<1>1. OneToOne(pool') /\ OneToOne(batch') /\ Keys(pool') = Keys(pool)
  BY DEF LeaseInv
<1> QED BY <1>1 DEF LeaseInv

\* A new key is in the pool, and in no lease.
LEMMA InsertLease ==
    ASSUME IInv, NEW k \in Txn, NEW c, k \notin txns, Insert(k, c),
           UNCHANGED <<proc, panic, pc, batch, bad, height>>
    PROVE  LeaseInv'
<1>1. pool \in Seq(Txn) /\ OneToOne(pool) /\ k \notin Keys(pool) /\ k \notin Held
  BY DEF IInv, TypeOK, MempoolTypeOK, LeaseInv
<1>2. OneToOne(pool') /\ Keys(pool') = Keys(pool) \cup {k}
  BY <1>1, InsertPool
<1>3. UNCHANGED <<Held, Target>>
  BY DEF Held, Target, Keys
<1>4. txns' = txns \cup {k} /\ leased' = leased
  BY DEF Insert
<1> QED BY <1>1, <1>2, <1>3, <1>4 DEF IInv, LeaseInv

\* Commit removes keys from the lease of the next height and from the pool.
LEMMA CommitLease ==
    ASSUME IInv, EveryHeight, NEW K, NEW result, Commit(Target, K, result),
           Held' = Held \ K, UNCHANGED <<proc, panic, batch, height>>, proc = "up"
    PROVE  LeaseInv'
<1>1. OneToOne(pool') /\ Keys(pool') = Keys(pool) \ K
  BY CommitPool DEF IInv, TypeOK, MempoolTypeOK, LeaseInv
<1>2. Target' = Target /\ Target \in Lease
  BY DEF Target, IInv, TypeOK, EveryHeight
<1>3. /\ txns' = txns \ K
      /\ \A l \in Lease : leased'[l] = IF l = Target THEN leased[l] \ K ELSE leased[l]
  BY <1>2 DEF Commit, IInv, TypeOK, MempoolTypeOK
<1> QED BY <1>1, <1>2, <1>3 DEF IInv, LeaseInv

\* Free empties the lease of the next height.
LEMMA FreeLease ==
    ASSUME IInv, EveryHeight, Free(Target), Held' = {}, OneToOne(batch'),
           UNCHANGED <<proc, panic, height>>, proc = "up"
    PROVE  LeaseInv'
<1>1. OneToOne(pool') /\ Target \in Lease /\ Keys(pool') = Keys(pool) \cup Held
  BY FreeTypes
<1>2. Target' = Target
  BY DEF Target
<1>3. /\ txns' = txns
      /\ \A l \in Lease : leased'[l] = IF l = Target THEN {} ELSE leased[l]
  BY <1>1 DEF Free, IInv, TypeOK, MempoolTypeOK
<1> QED BY <1>1, <1>2, <1>3 DEF IInv, LeaseInv

\* No step loses a key or has one in two places.
LEMMA LeaseStep ==
    ASSUME IInv, EveryHeight, Next
    PROVE  LeaseInv'
<1>t. TypeOK /\ MempoolTypeOK /\ LeaseInv /\ AskedInv
  BY DEF IInv, TypeOK
<1>1. ASSUME NEW c \in Client, NEW k \in Txn, Submit(c, k) PROVE LeaseInv'
  <2>1. UNCHANGED <<txns, pool, leased, batch, pc, bad, height, proc, panic>>
    BY <1>1 DEF Submit, mempool, worker, process
  <2>2. UNCHANGED <<Held, Target>>
    BY <2>1 DEF Held, Target, Keys
  <2> QED BY <1>t, <2>1, <2>2, SameLease DEF LeaseInv
<1>2. ASSUME NEW c \in Client, SubmitWait(c) PROVE LeaseInv'
  <2>1. asked[c] \in Txn /\ AddWait(c, asked[c])
        /\ UNCHANGED <<proc, panic, pc, batch, bad, height>>
    BY <1>2, <1>t DEF SubmitWait, AskedInv, TypeOK, worker, process, chainVars
  <2>2. CASE asked[c] \notin txns /\ Insert(asked[c], c)
    BY <2>1, <2>2, InsertLease
  <2>3. CASE UNCHANGED <<txns, sender, pool, leased>>
    <3>1. UNCHANGED <<Held, Target>>
      BY <2>1 DEF Held, Target, Keys
    <3> QED BY <1>t, <2>1, <2>3, <3>1, SameLease DEF LeaseInv
  <2> QED BY <2>1, <2>2, <2>3 DEF AddWait
<1>3. ASSUME NEW k \in Txn, ReceiveTransaction(k) PROVE LeaseInv'
  <2>1. UNCHANGED <<txns, pool, leased, batch, pc, bad, height, proc, panic>>
    BY <1>3 DEF ReceiveTransaction, mempool, worker, process
  <2>2. UNCHANGED <<Held, Target>>
    BY <2>1 DEF Held, Target, Keys
  <2> QED BY <1>t, <2>1, <2>2, SameLease DEF LeaseInv
<1>4. ASSUME ReceiveAdd PROVE LeaseInv'
  <2>1. net \in Txn /\ Add(net)
        /\ UNCHANGED <<proc, panic, pc, batch, bad, height>>
    BY <1>4, <1>t DEF ReceiveAdd, TypeOK, worker, process, chainVars
  <2>2. CASE net \notin txns /\ Insert(net, NoClient)
    BY <2>1, <2>2, InsertLease
  <2>3. CASE UNCHANGED <<txns, sender, pool, leased>>
    <3>1. UNCHANGED <<Held, Target>>
      BY <2>1 DEF Held, Target, Keys
    <3> QED BY <1>t, <2>1, <2>3, <3>1, SameLease DEF LeaseInv
  <2> QED BY <2>1, <2>2, <2>3 DEF Add
<1>5. ASSUME TickLease PROVE LeaseInv'
  <2>0. PICK n \in 0..Len(pool) : \E B \in SUBSET (1..n) :
            \/ LookupFails(n) /\ GoDown("mempool")
            \/ /\ LeaseBatch(Target, n, B)
               /\ batch' = Keep(pool, B)
               /\ pc' = "validate" /\ next' = 1 /\ bad' = {}
               /\ UNCHANGED <<chainVars, inputs, proc, panic>>
    BY <1>5 DEF TickLease
  <2>1. PICK B \in SUBSET (1..n) :
            \/ LookupFails(n) /\ GoDown("mempool")
            \/ /\ LeaseBatch(Target, n, B)
               /\ batch' = Keep(pool, B)
               /\ pc' = "validate" /\ next' = 1 /\ bad' = {}
               /\ UNCHANGED <<chainVars, inputs, proc, panic>>
    BY <2>0
  <2>2. ~LookupFails(n)
    <3>1. \A i \in 1..n : i \in DOMAIN pool
      BY <1>t, LenProperties DEF MempoolTypeOK
    <3> QED BY <1>t, <3>1 DEF LookupFails, LeaseInv, Keys
  <2>3. /\ OneToOne(pool') /\ OneToOne(batch')
        /\ Keys(pool') = Keys(pool) \ Keys(batch')
        /\ Keys(batch') = {pool[i] : i \in B} /\ Keys(batch') \subseteq Keys(pool)
    <3>1. pool \in Seq(Txn) /\ OneToOne(pool)
      BY <1>t DEF MempoolTypeOK, LeaseInv
    <3>2. batch' = Keep(pool, B) /\ LeaseBatch(Target, n, B)
      BY <2>1, <2>2
    <3>3. B \subseteq DOMAIN pool
      BY <3>1, LenProperties
    <3>4. /\ OneToOne(pool') /\ OneToOne(Keep(pool, B))
          /\ Keys(pool') = Keys(pool) \ Keys(Keep(pool, B))
          /\ Keys(Keep(pool, B)) = {pool[i] : i \in B}
      BY <3>1, <3>2, LeaseBatchPool
    <3>5. {pool[i] : i \in B} \subseteq Keys(pool)
      BY <3>3 DEF Keys
    <3> QED BY <3>2, <3>4, <3>5
  <2>4. Held = {} /\ Target' = Target /\ Held' = Keys(batch') /\ Target \in Lease
    BY <1>5, <1>t, <2>1, <2>2 DEF TickLease, Held, Target, chainVars, EveryHeight, TypeOK
  <2>5. \A l \in Lease : leased'[l] = IF l = Target THEN Keys(batch') ELSE {}
    BY <1>t, <2>1, <2>2, <2>3, <2>4 DEF LeaseBatch, LeaseInv, MempoolTypeOK
  <2> QED BY <1>5, <1>t, <2>1, <2>2, <2>3, <2>4, <2>5 DEF TickLease, LeaseBatch, LeaseInv
<1>6. ASSUME TickValidate \/ TickValidateBlock PROVE LeaseInv'
  <2>1. /\ UNCHANGED <<txns, pool, leased, batch, height, proc, panic>>
        /\ proc = "up" /\ pc = "validate" /\ pc' \in {"validate", "reject", "store"}
    BY <1>6 DEF TickValidate, TickValidateBlock, mempool, chainVars, process
  <2>2. UNCHANGED <<Held, Target>>
    BY <2>1 DEF Held, Target, Keys
  <2> QED BY <1>t, <2>1, <2>2, SameLease DEF LeaseInv
<1>7. ASSUME TickReject PROVE LeaseInv'
  <2>1. Held' = Held \ bad
    BY <1>7 DEF TickReject, Held, Keys
  <2> QED BY <1>7, <2>1, CommitLease DEF TickReject, chainVars, process
<1>8. ASSUME TickFreeRejected PROVE LeaseInv'
  <2>1. Held' = {} /\ OneToOne(batch')
    BY <1>8 DEF TickFreeRejected, Held, OneToOne
  <2> QED BY <1>8, <2>1, FreeLease DEF TickFreeRejected, chainVars, process
<1>9. ASSUME TickStore PROVE LeaseInv'
  <2>1. CASE GoDown("double_spend")
    BY <2>1, GoDownLease
  <2>2. CASE pc' = "tree" /\ UNCHANGED <<txns, pool, leased, batch, height, proc, panic>>
    <3>1. UNCHANGED <<Held, Target>>
      BY <1>9, <2>2 DEF TickStore, Held, Target, Keys
    <3> QED BY <1>9, <1>t, <2>2, <3>1, SameLease DEF TickStore, LeaseInv
  <2> QED BY <1>9, <2>1, <2>2 DEF TickStore, mempool
<1>10. ASSUME TickTree PROVE LeaseInv'
  <2>1. UNCHANGED <<Held, Target>>
    BY <1>10 DEF TickTree, Held, Target, Keys
  <2> QED BY <1>10, <1>t, <2>1, SameLease DEF TickTree, LeaseInv, mempool, process
<1>11. ASSUME TickAccept PROVE LeaseInv'
  <2>1. Held' = Held \ Keys(batch)
    BY <1>11 DEF TickAccept, Held, Keys
  <2> QED BY <1>11, <2>1, CommitLease DEF TickAccept, chainVars, process
<1>12. ASSUME TickFreeAccepted PROVE LeaseInv'
  <2>1. Held' = {} /\ OneToOne(batch')
    BY <1>12, <1>t DEF TickFreeAccepted, Held, OneToOne, LeaseInv
  <2> QED BY <1>12, <2>1, FreeLease DEF TickFreeAccepted, chainVars, process
<1>13. ASSUME TickConfirm PROVE LeaseInv'
  <2>1. Held = {} /\ Held' = {} /\ OneToOne(batch')
    BY <1>13 DEF TickConfirm, Held, OneToOne
  <2>2. /\ UNCHANGED <<txns, pool, leased, proc, panic>>
        /\ proc = "up" /\ Keys(pool') = Keys(pool)
    BY <1>13 DEF TickConfirm, mempool, process
  <2> QED BY <1>t, <2>1, <2>2 DEF LeaseInv
<1>14. ASSUME Crash PROVE LeaseInv'
  BY <1>14, GoDownLease DEF Crash
<1>15. ASSUME Load PROVE LeaseInv'
  <2>1. Held = {} /\ Held' = {}
    BY <1>15, <1>t DEF Load, LeaseInv, Held, worker
  <2>2. /\ UNCHANGED <<txns, pool, leased, pc, batch>> /\ pc = "idle"
        /\ panic' # "mempool"
    BY <1>15, <1>t DEF Load, LeaseInv, mempool, worker
  <2> QED BY <1>t, <2>1, <2>2 DEF LeaseInv
<1> QED BY <1>1, <1>2, <1>3, <1>4, <1>5, <1>6, <1>7, <1>8, <1>9, <1>10, <1>11,
           <1>12, <1>13, <1>14, <1>15 DEF Next, Tick
-----------------------------------------------------------------------------
\* Steps that touch neither the chain nor the place of the worker in it.
LEMMA SameChain ==
    ASSUME ChainInv, UNCHANGED <<store, disk, tree, height, proc, Stored>>,
           (pc' = "tree") <=> (pc = "tree"), Stored => batch' = batch
    PROVE  ChainInv'
<1>1. UNCHANGED <<RootAt(Len(store)), RootAt(height), RootAt(Len(store) - 1), Target>>
  BY DEF RootAt, Target
<1>2. Stored => Keys(batch') = Keys(batch)
  OBVIOUS
<1> QED BY <1>1, <1>2 DEF ChainInv

\* What a crash leaves behind is the state after the last block or the one before.
LEMMA GoDownChain ==
    ASSUME IInv, proc = "up", NEW why, GoDown(why)
    PROVE  ChainInv'
<1>1. UNCHANGED <<RootAt(Len(store)), RootAt(Len(store) - 1), store, disk>>
  BY DEF RootAt, GoDown
<1>2. \/ disk = RootAt(Len(store))
      \/ Len(store) > 0 /\ disk = RootAt(Len(store) - 1)
  <2>1. CASE pc = "tree"
    <3>1. Len(store) = height + 1 /\ height \in Nat /\ disk = RootAt(height)
      BY <2>1 DEF IInv, TypeOK, ChainInv, Stored, Target
    <3>2. Len(store) - 1 = height /\ Len(store) > 0
      BY <3>1
    <3> QED BY <3>1, <3>2
  <2>2. CASE pc # "tree"
    BY <2>2 DEF IInv, ChainInv
  <2> QED BY <2>1, <2>2
<1> QED BY <1>1, <1>2 DEF GoDown, ChainInv

\* The chain, its tree and the height stay together.
LEMMA ChainStep ==
    ASSUME IInv, Next
    PROVE  ChainInv'
<1>t. TypeOK /\ LeaseInv /\ ChainInv
  BY DEF IInv
<1>n. Len(store) \in Nat /\ height \in Nat /\ DOMAIN store = 1..Len(store)
  BY <1>t, LenProperties DEF TypeOK
<1>1. ASSUME \/ \E c \in Client : \E k \in Txn : Submit(c, k)
             \/ \E c \in Client : SubmitWait(c)
             \/ \E k \in Txn : ReceiveTransaction(k)
             \/ ReceiveAdd
      PROVE  ChainInv'
  <2>1. UNCHANGED <<store, disk, tree, height, proc, pc, batch>>
    BY <1>1 DEF Submit, SubmitWait, ReceiveTransaction, ReceiveAdd, chainVars, worker, process
  <2> QED BY <1>t, <2>1, SameChain DEF Stored
<1>2. ASSUME TickLease PROVE ChainInv'
  <2>1. CASE GoDown("mempool")
    BY <1>2, <2>1, GoDownChain DEF TickLease
  <2>2. CASE pc' = "validate" /\ UNCHANGED <<chainVars, proc>>
    BY <1>2, <1>t, <2>2, SameChain DEF TickLease, Stored, chainVars
  <2> QED BY <1>2, <2>1, <2>2 DEF TickLease
<1>3. ASSUME TickValidate \/ TickValidateBlock \/ TickReject \/ TickFreeRejected
      PROVE  ChainInv'
  <2>1. /\ UNCHANGED <<store, disk, tree, height, proc>>
        /\ pc \in {"validate", "reject", "freeRejected"}
        /\ pc' \in {"validate", "reject", "freeRejected", "store", "idle"}
    BY <1>3 DEF TickValidate, TickValidateBlock, TickReject, TickFreeRejected, chainVars, process
  <2> QED BY <1>t, <2>1, SameChain DEF Stored
<1>4. ASSUME TickStore PROVE ChainInv'
  <2>1. CASE GoDown("double_spend")
    BY <1>4, <2>1, GoDownChain DEF TickStore
  <2>2. CASE /\ store' = [i \in 1..Target \cup DOMAIN store |->
                             IF i = Target THEN Keys(batch) ELSE store[i]]
             /\ pc' = "tree"
             /\ UNCHANGED <<disk, tree, height, proc, batch>>
    <3>1. Target = Len(store) + 1 /\ height = Len(store) /\ disk = RootAt(height)
          /\ tree = disk /\ proc = "up"
      BY <1>4, <1>t DEF TickStore, ChainInv, Target, Stored
    <3>2. Keys(batch) \in SUBSET Txn
      BY <1>t, ElementOfSeq, LenProperties DEF Keys, TypeOK
    <3>3. /\ Len(store') = Len(store) + 1 /\ store'[Len(store) + 1] = Keys(batch)
          /\ \A i \in 1..Len(store) : store'[i] = store[i]
      BY <1>t, <2>2, <3>1, <3>2, StoreAppends DEF TypeOK
    <3>4. \A i \in 1..height : store'[i] = store[i]
      BY <3>1, <3>3
    <3>5. UNION {BlockLeaves(store'[i]) : i \in 1..height} = RootAt(height)
      BY <3>4 DEF RootAt
    <3>6. RootAt(height)' = RootAt(height)
      BY <2>2, <3>5 DEF RootAt
    <3>7. Target' = Target /\ Stored' /\ batch' = batch
      BY <2>2 DEF Target, Stored
    <3> QED BY <2>2, <3>1, <3>3, <3>6, <3>7 DEF ChainInv
  <2> QED BY <1>4, <2>1, <2>2 DEF TickStore
<1>5. ASSUME TickTree PROVE ChainInv'
  <2>1. /\ Len(store) = height + 1 /\ store[height + 1] = Keys(batch)
        /\ tree = disk /\ disk = RootAt(height) /\ proc = "up"
    BY <1>5, <1>t DEF TickTree, ChainInv, Target, Stored
  <2>2. RootAt(height + 1) = RootAt(height) \cup BlockLeaves(Keys(batch))
    <3>1. \A i \in 1..(height + 1) : i = height + 1 \/ i \in 1..height
      BY <1>n
    <3>2. height + 1 \in 1..(height + 1) /\ \A i \in 1..height : i \in 1..(height + 1)
      BY <1>n
    <3> QED BY <2>1, <3>1, <3>2 DEF RootAt
  <2>3. RootAt(Len(store))' = RootAt(height + 1)
    BY <1>5, <2>1 DEF TickTree, RootAt
  <2>4. /\ UNCHANGED <<store, height, proc, batch>> /\ pc' = "accept"
        /\ tree' = tree \cup BlockLeaves(Keys(batch))
        /\ disk' = disk \cup BlockLeaves(Keys(batch))
    BY <1>5 DEF TickTree, process
  <2> QED BY <2>1, <2>2, <2>3, <2>4 DEF ChainInv, Stored, Target
<1>6. ASSUME TickAccept \/ TickFreeAccepted PROVE ChainInv'
  <2>1. /\ UNCHANGED <<store, disk, tree, height, proc, batch>>
        /\ pc \in {"accept", "freeAccepted"} /\ pc' \in {"freeAccepted", "confirm"}
    BY <1>6 DEF TickAccept, TickFreeAccepted, chainVars, process
  <2> QED BY <1>t, <2>1, SameChain DEF Stored
<1>7. ASSUME TickConfirm PROVE ChainInv'
  <2>1. /\ Len(store) = height + 1 /\ tree = disk /\ disk = RootAt(Len(store))
        /\ proc = "up"
    BY <1>7, <1>t DEF TickConfirm, ChainInv, Target, Stored
  <2>2. RootAt(Len(store))' = RootAt(Len(store))
    BY <1>7 DEF TickConfirm, RootAt
  <2>3. /\ UNCHANGED <<store, disk, tree, proc>> /\ pc' = "idle" /\ height' = height + 1
    BY <1>7 DEF TickConfirm, process, Target
  <2> QED BY <2>1, <2>2, <2>3 DEF ChainInv, Stored
<1>8. ASSUME Crash PROVE ChainInv'
  BY <1>8, GoDownChain DEF Crash
<1>9. ASSUME Load PROVE ChainInv'
  <2>1. proc = "down" /\ pc = "idle" /\ pc' = "idle" /\ store' = store
    BY <1>9, <1>t DEF Load, worker, LeaseInv
  <2>2. UNCHANGED <<RootAt(Len(store)), RootAt(Len(store) - 1)>>
    BY <2>1 DEF RootAt
  <2>3. CASE /\ disk # RootAt(Len(store)) /\ Len(store) > 1
             /\ disk = RootAt(Len(store) - 1)
             /\ disk' = disk \cup BlockLeaves(store[Len(store)]) /\ tree' = disk'
             /\ proc' = "up" /\ height' = Len(store)
    <3> DEFINE n == Len(store)
    <3>0. n \in Nat /\ n > 1
      BY <1>n, <2>3
    <3> HIDE DEF n
    <3>1. \A i \in 1..n : i = n \/ i \in 1..(n - 1)
      BY <3>0
    <3>2. n \in 1..n /\ \A i \in 1..(n - 1) : i \in 1..n
      BY <3>0
    <3>3. RootAt(n) = RootAt(n - 1) \cup BlockLeaves(store[n])
      BY <3>1, <3>2 DEF RootAt
    <3> QED BY <2>1, <2>2, <2>3, <3>3 DEF ChainInv, Stored, n
  <2>4. CASE disk = RootAt(Len(store)) /\ disk' = disk /\ tree' = disk
             /\ proc' = "up" /\ height' = Len(store)
    BY <2>1, <2>2, <2>4 DEF ChainInv, Stored
  <2>5. CASE UNCHANGED <<disk, tree, proc, height>>
    BY <1>t, <2>1, <2>2, <2>5 DEF ChainInv
  <2> QED BY <1>9, <2>3, <2>4, <2>5 DEF Load
<1> QED BY <1>1, <1>2, <1>3, <1>4, <1>5, <1>6, <1>7, <1>8, <1>9 DEF Next, Tick

\* Clients ask once.
LEMMA AskedStep ==
    ASSUME IInv, Next
    PROVE  AskedInv'
<1>t. TypeOK /\ AskedInv
  BY DEF IInv
<1>1. ASSUME NEW c \in Client, NEW k \in Txn, Submit(c, k) PROVE AskedInv'
  <2>1. /\ rpc' = [rpc EXCEPT ![c] = "validated"] \/ rpc' = [rpc EXCEPT ![c] = "refused"]
        /\ asked' = [asked EXCEPT ![c] = k] /\ k # NoTxn
    BY <1>1, ValidatorAssumption DEF Submit
  <2> QED BY <1>t, <2>1 DEF AskedInv, TypeOK
<1>2. ASSUME NEW c \in Client, SubmitWait(c) PROVE AskedInv'
  BY <1>2, <1>t DEF SubmitWait, AskedInv, TypeOK
<1>3. ASSUME NEW why, GoDown(why) PROVE AskedInv'
  BY <1>3, <1>t DEF GoDown, AskedInv, TypeOK
<1>4. ASSUME UNCHANGED <<rpc, asked>> PROVE AskedInv'
  BY <1>4, <1>t DEF AskedInv
<1>5. ASSUME Tick \/ Crash PROVE AskedInv'
  <2>1. (\E why : GoDown(why)) \/ UNCHANGED <<rpc, asked>>
    BY <1>5 DEF Tick, Crash, TickLease, TickValidate, TickValidateBlock, TickReject,
                TickFreeRejected, TickStore, TickTree, TickAccept, TickFreeAccepted,
                TickConfirm, inputs
  <2> QED BY <1>3, <1>4, <2>1
<1>6. ASSUME Load \/ ReceiveAdd \/ \E k \in Txn : ReceiveTransaction(k)
      PROVE  UNCHANGED <<rpc, asked>>
  BY <1>6 DEF Load, ReceiveAdd, ReceiveTransaction, inputs
<1> QED BY <1>1, <1>2, <1>4, <1>5, <1>6 DEF Next

\* A validator that starts with nothing.
LEMMA IInvInit == Init => IInv
<1> SUFFICES ASSUME Init PROVE IInv
  OBVIOUS
<1>1. TypeOK
  BY ValidatorAssumption DEF Init, MempoolInit, TypeOK, MempoolTypeOK, Reply, PC
<1>2. AskedInv /\ LeaseInv
  BY DEF Init, MempoolInit, AskedInv, LeaseInv, Held, OneToOne, Keys
<1>3. ChainInv
  <2>1. RootAt(0) = {} /\ Len(store) = 0
    BY DEF RootAt, Init
  <2> QED BY <2>1 DEF Init, ChainInv, Stored
<1> QED BY <1>1, <1>2, <1>3 DEF IInv

\* Every request, block, crash and start keeps the invariant.
LEMMA IInvStep ==
    ASSUME IInv, EveryHeight, [Next]_vars
    PROVE  IInv'
<1>1. CASE Next
  <2>1. TypeOK'
    BY <1>1, InputTypes, WorkerTypes DEF Next
  <2> QED BY <1>1, <2>1, AskedStep, LeaseStep, ChainStep DEF IInv
<1>2. CASE UNCHANGED vars
  <2>1. /\ UNCHANGED <<txns, sender, pool, leased, reply, store, disk, tree, height, anchor>>
        /\ UNCHANGED <<rpc, asked, net, received, pc, batch, next, bad, proc, panic, crashes>>
    BY <1>2 DEF vars, mempool, chainVars, inputs, worker, process
  <2>2. TypeOK' /\ AskedInv'
    BY <2>1 DEF IInv, TypeOK, MempoolTypeOK, AskedInv
  <2>3. LeaseInv'
    <3>1. UNCHANGED <<Held, Target>>
      BY <2>1 DEF Held, Target, Keys
    <3> QED BY <2>1, <3>1, SameLease DEF IInv, LeaseInv
  <2>4. ChainInv'
    BY <2>1, SameChain DEF IInv, Stored
  <2> QED BY <2>2, <2>3, <2>4 DEF IInv
<1> QED BY <1>1, <1>2

\* The types, the leases and the chain of a validator are in order at every step.
THEOREM TypeCorrect ==
    ASSUME EveryHeight
    PROVE  Spec => []IInv
<1>1. Init => IInv
  BY IInvInit
<1>2. IInv /\ [Next]_vars => IInv'
  BY IInvStep
<1> QED BY <1>1, <1>2, PTL DEF Spec
-----------------------------------------------------------------------------
\* Requests wait for the transaction they brought: the other steps.
LEMMA SameSenders ==
    ASSUME SenderInv, UNCHANGED <<txns, sender, reply, rpc, asked>>
    PROVE  SenderInv'
    BY DEF SenderInv

\* Commit answers the one request that waits for each of its keys.
LEMMA CommitSenders ==
    ASSUME IInv, SenderInv, NEW l, NEW K, NEW result \in {"ok", "err"},
           Commit(l, K, result), UNCHANGED <<rpc, asked>>
    PROVE  SenderInv'
<1>t. TypeOK /\ MempoolTypeOK
  BY DEF IInv, TypeOK
<1>1. /\ txns' = txns \ K
      /\ \A k \in txns' : sender'[k] = sender[k]
      /\ \A c \in Client : reply'[c] =
            IF \E k \in K \cap txns : sender[k] = c THEN result ELSE reply[c]
  BY <1>t DEF Commit, MempoolTypeOK
<1>2. ASSUME NEW c \in Client
      PROVE  reply'[c] = "waiting" <=> \E k \in txns' : sender'[k] = c
  <2>1. CASE \E k \in K \cap txns : sender[k] = c
    <3>1. PICK k \in K \cap txns : sender[k] = c
      BY <2>1
    <3>2. asked[c] = k
      BY <3>1, MempoolAssumption DEF SenderInv
    <3>3. \A m \in txns' : sender'[m] # c
      BY <1>1, <3>1, <3>2, MempoolAssumption DEF SenderInv
    <3> QED BY <1>1, <2>1, <3>3
  <2>2. CASE ~\E k \in K \cap txns : sender[k] = c
    BY <1>1, <2>2 DEF SenderInv
  <2> QED BY <2>1, <2>2
<1>3. ASSUME NEW c \in Client, reply'[c] # "none" PROVE rpc'[c] = "done"
  <2>1. CASE \E k \in K \cap txns : sender[k] = c
    BY <2>1, MempoolAssumption DEF SenderInv
  <2>2. CASE ~\E k \in K \cap txns : sender[k] = c
    BY <1>1, <1>3, <2>2 DEF SenderInv
  <2> QED BY <2>1, <2>2
<1> QED BY <1>1, <1>2, <1>3 DEF SenderInv

\* A crash closes every open request.
LEMMA GoDownSenders ==
    ASSUME IInv, SenderInv, NEW why, GoDown(why)
    PROVE  SenderInv'
    BY DEF SenderInv, GoDown, IInv, TypeOK, MempoolTypeOK

\* At every step the waiting requests are the senders in the mempool.
LEMMA SenderStep ==
    ASSUME IInv, SenderInv, [Next]_vars
    PROVE  SenderInv'
<1>t. TypeOK /\ MempoolTypeOK /\ AskedInv
  BY DEF IInv, TypeOK
<1>1. ASSUME NEW c \in Client, NEW k \in Txn, Submit(c, k) PROVE SenderInv'
  <2>1. /\ rpc[c] = "idle"
        /\ rpc' = [rpc EXCEPT ![c] = "validated"] \/ rpc' = [rpc EXCEPT ![c] = "refused"]
        /\ asked' = [asked EXCEPT ![c] = k]
        /\ UNCHANGED <<txns, sender, reply>>
    BY <1>1 DEF Submit, mempool
  <2> QED BY <1>t, <2>1 DEF SenderInv, TypeOK, MempoolTypeOK
<1>2. ASSUME NEW c \in Client, SubmitWait(c) PROVE SenderInv'
  <2>1. /\ rpc[c] = "validated" /\ rpc' = [rpc EXCEPT ![c] = "done"]
        /\ asked' = asked /\ AddWait(c, asked[c]) /\ asked[c] \in Txn
    BY <1>2, <1>t DEF SubmitWait, TypeOK, AskedInv
  <2>2. reply[c] = "none" /\ \A k \in txns : sender[k] # c
    BY <2>1 DEF SenderInv
  <2>3. CASE /\ reply' = [reply EXCEPT ![c] = "closed"]
             /\ UNCHANGED <<txns, sender>>
    BY <1>t, <2>1, <2>2, <2>3 DEF SenderInv, TypeOK, MempoolTypeOK
  <2>4. CASE /\ asked[c] \notin txns /\ Insert(asked[c], c)
             /\ reply' = [reply EXCEPT ![c] = "waiting"]
    <3>1. txns' = txns \cup {asked[c]} /\ sender' = [sender EXCEPT ![asked[c]] = c]
      BY <2>4 DEF Insert
    <3> QED BY <1>t, <2>1, <2>2, <2>4, <3>1 DEF SenderInv, TypeOK, MempoolTypeOK
  <2> QED BY <2>1, <2>3, <2>4 DEF AddWait
<1>3. ASSUME NEW k \in Txn, ReceiveTransaction(k) PROVE SenderInv'
  BY <1>3, SameSenders DEF ReceiveTransaction, mempool
<1>4. ASSUME ReceiveAdd PROVE SenderInv'
  <2>1. net \in Txn /\ UNCHANGED <<rpc, asked, reply>>
        /\ Add(net)
    BY <1>4, <1>t DEF ReceiveAdd, Add, TypeOK
  <2>2. CASE UNCHANGED <<txns, sender>>
    BY <2>1, <2>2, SameSenders
  <2>3. CASE net \notin txns /\ txns' = txns \cup {net}
             /\ sender' = [sender EXCEPT ![net] = NoClient]
    BY <1>t, <2>1, <2>3, MempoolAssumption DEF SenderInv, TypeOK, MempoolTypeOK
  <2> QED BY <2>1, <2>2, <2>3 DEF Add, Insert
<1>5. ASSUME TickReject \/ TickAccept PROVE SenderInv'
  <2>1. UNCHANGED <<rpc, asked>>
        /\ (Commit(Target, bad, "err") \/ Commit(Target, Keys(batch), "ok"))
    BY <1>5 DEF TickReject, TickAccept, inputs
  <2> QED BY <2>1, CommitSenders
<1>6. ASSUME NEW why, GoDown(why) PROVE SenderInv'
  BY <1>6, GoDownSenders
<1>7. ASSUME TickLease \/ TickValidate \/ TickValidateBlock \/ TickFreeRejected \/ TickStore
             \/ TickTree \/ TickFreeAccepted \/ TickConfirm \/ Load \/ Crash
             \/ UNCHANGED vars
      PROVE  SenderInv'
  <2>1. (\E why : GoDown(why)) \/ UNCHANGED <<txns, sender, reply, rpc, asked>>
    BY <1>7 DEF TickLease, TickValidate, TickValidateBlock, TickFreeRejected, TickStore,
                TickTree, TickFreeAccepted, TickConfirm, Load, Crash, vars, mempool, inputs,
                Free, LeaseBatch
  <2> QED BY <1>6, <2>1, SameSenders
<1> QED BY <1>1, <1>2, <1>3, <1>4, <1>5, <1>7 DEF Next, Tick

\* The mempool is coherent at every step, for any number of transactions, clients,
\* blocks and crashes: no key is lost or in two places, lease_batch meets no unknown
\* key, and the requests that wait are those whose transaction is in the mempool.
THEOREM MempoolCoherentHolds ==
    ASSUME EveryHeight
    PROVE  Spec => []MempoolCoherent
<1>1. Init => SenderInv
  BY DEF Init, MempoolInit, SenderInv
<1>2. IInv /\ SenderInv /\ [Next]_vars => SenderInv'
  BY SenderStep
<1>3. IInv /\ SenderInv => MempoolCoherent
  <2> SUFFICES ASSUME IInv, SenderInv PROVE MempoolCoherent
    OBVIOUS
  <2>1. TypeOK /\ panic # "mempool" /\ OneToOne(pool)
    BY DEF IInv, LeaseInv
  <2>2. \A l \in Lease : leased[l] # {} => pc # "idle" /\ l = Target
    BY DEF IInv, LeaseInv, Held
  <2>3. /\ txns = Keys(pool) \cup UNION {leased[l] : l \in Lease}
        /\ \A l \in Lease : leased[l] \cap Keys(pool) = {}
    <3>1. Target \in Lease
      BY DEF IInv, TypeOK, Target, EveryHeight
    <3>2. UNION {leased[l] : l \in Lease} = Held
      BY <3>1 DEF IInv, LeaseInv
    <3> QED BY <3>2 DEF IInv, LeaseInv
  <2>4. \A c \in Client : reply[c] = "waiting" <=> \E k \in txns : sender[k] = c
    BY DEF SenderInv
  <2> QED BY <2>1, <2>2, <2>3, <2>4 DEF MempoolCoherent, OneToOne
<1> QED BY <1>1, <1>2, <1>3, TypeCorrect, PTL DEF Spec
-----------------------------------------------------------------------------
(* block_store.set adds the validated batch at the next height.            *)
Appends ==
    /\ TickStore /\ proc = "up" /\ pc = "store" /\ pc' = "tree"
    /\ height = Len(store) /\ tree = RootAt(Len(store))
    /\ store' = Append(store, Keys(batch)) /\ Len(store') = Len(store) + 1
    /\ store'[Len(store) + 1] = Keys(batch)
    /\ \A i \in 1..Len(store) : store'[i] = store[i]
    /\ Keys(batch) \in SUBSET Txn
    /\ UNCHANGED <<tree, height, batch, mempool, anchor, inputs, proc, panic>>

\* Only TickStore changes the store, and it appends.
LEMMA StoreStep ==
    ASSUME IInv, [Next]_vars
    PROVE  Appends \/ store' = store
<1>t. TypeOK /\ ChainInv
  BY DEF IInv
<1>1. ASSUME TickStore PROVE Appends \/ store' = store
  <2>1. CASE GoDown("double_spend")
    BY <2>1 DEF GoDown
  <2>2. CASE /\ store' = [i \in 1..Target \cup DOMAIN store |->
                             IF i = Target THEN Keys(batch) ELSE store[i]]
             /\ pc' = "tree"
             /\ UNCHANGED <<mempool, disk, tree, height, anchor, inputs, proc,
                            panic, batch, next, bad>>
    <3>1. /\ Target = Len(store) + 1 /\ height = Len(store)
          /\ tree = RootAt(Len(store)) /\ proc = "up" /\ pc = "store"
      BY <1>1, <1>t DEF TickStore, ChainInv, Target, Stored
    <3>2. Keys(batch) \in SUBSET Txn
      BY <1>t, ElementOfSeq, LenProperties DEF Keys, TypeOK
    <3>3. /\ store' = Append(store, Keys(batch)) /\ Len(store') = Len(store) + 1
          /\ store'[Len(store) + 1] = Keys(batch)
          /\ \A i \in 1..Len(store) : store'[i] = store[i]
      BY <1>t, <2>2, <3>1, <3>2, StoreAppends DEF TypeOK
    <3> QED BY <1>1, <2>2, <3>1, <3>2, <3>3 DEF Appends
  <2> QED BY <1>1, <2>1, <2>2 DEF TickStore
<1>2. CASE \/ \E c \in Client : \E k \in Txn : Submit(c, k)
           \/ \E c \in Client : SubmitWait(c)
           \/ \E k \in Txn : ReceiveTransaction(k)
           \/ ReceiveAdd \/ Crash \/ Load \/ UNCHANGED vars
  BY <1>2 DEF Submit, SubmitWait, ReceiveTransaction, ReceiveAdd, Crash, Load, GoDown,
              vars, chainVars
<1>3. CASE Tick
  BY <1>1, <1>3 DEF Tick, TickLease, TickValidate, TickValidateBlock, TickReject,
     TickFreeRejected, TickTree, TickAccept, TickFreeAccepted, TickConfirm, GoDown, chainVars
<1> QED BY <1>2, <1>3 DEF Next

\* The worker commits only what passed the validation of the block.
LEMMA BatchStep ==
    ASSUME IInv, BatchInv, [Next]_vars
    PROVE  BatchInv'
<1>1. ASSUME TickValidateBlock, pc' = "store" PROVE BatchInv'
  <2>1. /\ \A i \in DOMAIN batch : ~OwnFault(i) /\ ~OutputExists(i)
        /\ UNCHANGED <<batch, tree>>
    BY <1>1 DEF TickValidateBlock, chainVars
  <2>2. \A i \in DOMAIN batch : Fresh(batch[i])
    BY <2>1 DEF OwnFault, OutputExists, Fresh, LeavesOf
  <2>3. \A i, j \in DOMAIN batch :
           j < i => LeavesOf(batch[i]) \cap LeavesOf(batch[j]) = {}
    <3>1. \A i, j \in DOMAIN batch : j < i => j \in 1..(i - 1)
      BY LenProperties DEF IInv, TypeOK
    <3> QED BY <2>1, <3>1 DEF OwnFault, LeafTwice
  <2>4. \A i, j \in DOMAIN batch : i # j => i < j \/ j < i
    BY LenProperties DEF IInv, TypeOK
  <2> QED BY <2>1, <2>2, <2>3, <2>4 DEF BatchInv, Fresh
<1>2. ASSUME pc' = "store", ~TickValidateBlock
      PROVE  pc = "store" /\ UNCHANGED <<batch, tree>>
  <2>1. CASE \/ \E c \in Client : \E k \in Txn : Submit(c, k)
             \/ \E c \in Client : SubmitWait(c)
             \/ \E k \in Txn : ReceiveTransaction(k)
             \/ ReceiveAdd \/ UNCHANGED vars
    BY <1>2, <2>1 DEF Submit, SubmitWait, ReceiveTransaction, ReceiveAdd, vars, chainVars, worker
  <2>2. CASE Load
    BY <1>2, <2>2 DEF Load, worker, IInv, LeaseInv
  <2>3. CASE Tick \/ Crash
    BY <1>2, <2>3 DEF Tick, Crash, TickLease, TickValidate, TickReject, TickFreeRejected,
       TickStore, TickTree, TickAccept, TickFreeAccepted, TickConfirm, GoDown
  <2> QED BY <2>1, <2>2, <2>3 DEF Next
<1>3. CASE pc' # "store"
  BY <1>3 DEF BatchInv
<1> QED BY <1>1, <1>2, <1>3 DEF BatchInv, Fresh

\* A block that is added shares no leaf with the chain, nor within itself.
LEMMA NoDoubleSpendStep ==
    ASSUME IInv, BatchInv, NoDoubleSpend, [Next]_vars
    PROVE  NoDoubleSpend'
<1>t. TypeOK
  BY DEF IInv
<1>n. Len(store) \in Nat /\ DOMAIN store = 1..Len(store) /\ store \in Seq(SUBSET Txn)
  BY <1>t, LenProperties DEF TypeOK
<1>1. panic' # "double_spend"
  <2>1. ASSUME TickStore PROVE ~GoDown("double_spend")
    <3>1. BlockLeaves(Keys(batch)) \cap tree = {}
      BY <2>1 DEF TickStore, BatchInv, Fresh, BlockLeaves, Keys
    <3> QED BY <2>1, <3>1 DEF TickStore, GoDown
  <2>2. CASE TickStore
    BY <2>1, <2>2 DEF TickStore, NoDoubleSpend
  <2>3. CASE Load
    BY <2>3 DEF Load, NoDoubleSpend
  <2>4. CASE Crash \/ TickLease
    BY <2>4 DEF Crash, TickLease, GoDown, NoDoubleSpend
  <2>5. CASE ~(TickStore \/ Load \/ Crash \/ TickLease)
    BY <2>5 DEF Next, Tick, Submit, SubmitWait, ReceiveTransaction, ReceiveAdd, TickValidate,
       TickValidateBlock, TickReject, TickFreeRejected, TickTree, TickAccept,
       TickFreeAccepted, TickConfirm, vars, process, NoDoubleSpend
  <2> QED BY <2>2, <2>3, <2>4, <2>5
<1>2. CASE store' = store
  BY <1>1, <1>2 DEF NoDoubleSpend
<1>3. CASE Appends
  <2>1. DOMAIN store' = 1..(Len(store) + 1)
    <3>1. store' \in Seq(SUBSET Txn)
      BY <1>3, <1>n, AppendProperties DEF Appends
    <3> QED BY <1>3, <3>1, LenProperties DEF Appends
  <2>2. \A i \in DOMAIN store' : i = Len(store) + 1 \/ i \in DOMAIN store
    BY <1>n, <2>1
  <2>3. /\ store'[Len(store) + 1] = Keys(batch)
        /\ \A i \in DOMAIN store : store'[i] = store[i]
    BY <1>3, <1>n DEF Appends
  <2>4. \A i \in DOMAIN store : \A k \in store[i] : \A m \in Keys(batch) :
            LeavesOf(k) \cap LeavesOf(m) = {}
    <3>1. \A i \in DOMAIN store : i \in 1..Len(store) /\ Len(store) \in i..Len(store)
      BY <1>n
    <3>2. \A i \in DOMAIN store : \A k \in store[i] : LeavesOf(k) \subseteq tree
      BY <1>3, <1>n, <3>1, RootsGrow DEF Appends
    <3>3. \A m \in Keys(batch) : LeavesOf(m) \cap tree = {}
      BY <1>3 DEF Appends, BatchInv, Fresh, Keys
    <3> QED BY <3>2, <3>3
  <2>5. \A k, m \in Keys(batch) : k # m => LeavesOf(k) \cap LeavesOf(m) = {}
    BY <1>3 DEF Appends, BatchInv, Keys
  <2>6. ASSUME NEW i \in DOMAIN store', NEW j \in DOMAIN store',
               NEW k \in store'[i], NEW m \in store'[j], k # m \/ i # j
        PROVE  LeavesOf(k) \cap LeavesOf(m) = {}
    <3>1. CASE i \in DOMAIN store /\ j \in DOMAIN store
      BY <2>3, <2>6, <3>1 DEF NoDoubleSpend
    <3>2. CASE i \in DOMAIN store /\ j = Len(store) + 1
      BY <2>3, <2>4, <3>2
    <3>3. CASE i = Len(store) + 1 /\ j \in DOMAIN store
      BY <2>3, <2>4, <3>3
    <3>4. CASE i = Len(store) + 1 /\ j = Len(store) + 1
      BY <2>3, <2>5, <2>6, <3>4
    <3> QED BY <2>2, <3>1, <3>2, <3>3, <3>4
  <2> QED BY <1>1, <2>6 DEF NoDoubleSpend
<1> QED BY <1>2, <1>3, StoreStep

\* No leaf enters the chain twice, over any number of blocks and crashes, whatever
\* the mempool leases and whoever proposes.
THEOREM NoDoubleSpendHolds ==
    ASSUME EveryHeight
    PROVE  Spec => []NoDoubleSpend
<1>1. Init => BatchInv /\ NoDoubleSpend
  BY DEF Init, BatchInv, NoDoubleSpend
<1>2. IInv /\ BatchInv /\ NoDoubleSpend /\ [Next]_vars => BatchInv' /\ NoDoubleSpend'
  BY BatchStep, NoDoubleSpendStep
<1> QED BY <1>1, <1>2, TypeCorrect, PTL DEF Spec
-----------------------------------------------------------------------------
\* What is stored stays stored, at every step.
LEMMA StoreKept ==
    ASSUME IInv, [Next]_vars
    PROVE  Committed \subseteq Committed'
<1>1. CASE store' = store
  BY <1>1 DEF Committed
<1>2. CASE Appends
  <2>1. store \in Seq(SUBSET Txn) /\ DOMAIN store = 1..Len(store) /\ Len(store) \in Nat
    BY LenProperties DEF IInv, TypeOK
  <2>2. store' \in Seq(SUBSET Txn) /\ Len(store') = Len(store) + 1
    BY <1>2, <2>1, AppendProperties DEF Appends
  <2>3. DOMAIN store' = 1..(Len(store) + 1)
    BY <2>2, LenProperties
  <2>4. \A i \in DOMAIN store : i \in DOMAIN store' /\ store'[i] = store[i]
    BY <1>2, <2>1, <2>3 DEF Appends
  <2> QED BY <2>4 DEF Committed
<1> QED BY <1>1, <1>2, StoreStep

\* A client gets "ok" from the commit of the batch only, "err" from that of the
\* rejected only, and what it asked for does not change any more.
LEMMA AnswerStep ==
    ASSUME IInv, SenderInv, [Next]_vars, NEW c \in Client
    PROVE  /\ reply[c] # "none" => asked'[c] = asked[c]
           /\ reply'[c] \in {"ok", "err"} => asked'[c] = asked[c]
           /\ reply'[c] = "ok" => \/ reply[c] = "ok"
                                  \/ TickAccept /\ asked[c] \in Keys(batch)
           /\ reply'[c] = "err" => \/ reply[c] = "err"
                                   \/ TickReject /\ asked[c] \in bad
<1>t. TypeOK /\ MempoolTypeOK /\ AskedInv
  BY DEF IInv, TypeOK
<1>1. ASSUME NEW d \in Client, NEW k \in Txn, Submit(d, k) 
      PROVE  reply' = reply /\ (reply[c] # "none" => asked'[c] = asked[c])
  <2>1. rpc[d] = "idle" /\ asked' = [asked EXCEPT ![d] = k] /\ reply' = reply
    BY <1>1 DEF Submit, mempool
  <2> QED BY <1>t, <2>1 DEF SenderInv, TypeOK
<1>2. ASSUME NEW d \in Client, SubmitWait(d)
      PROVE  /\ asked' = asked
             /\ reply'[c] \in {"ok", "err"} => reply'[c] = reply[c]
  BY <1>2, <1>t DEF SubmitWait, AddWait, MempoolTypeOK
<1>3. ASSUME NEW why, GoDown(why)
      PROVE  /\ asked' = asked
             /\ reply'[c] \in {"ok", "err"} => reply'[c] = reply[c]
  BY <1>3 DEF GoDown
<1>4. ASSUME NEW l, NEW K, NEW result, Commit(l, K, result)
      PROVE  reply'[c] = reply[c] \/ (reply'[c] = result /\ asked[c] \in K)
  <2>1. CASE \E k \in K \cap txns : sender[k] = c
    BY <1>4, <2>1, MempoolAssumption DEF Commit, SenderInv
  <2>2. CASE ~\E k \in K \cap txns : sender[k] = c
    BY <1>4, <2>2 DEF Commit
  <2> QED BY <2>1, <2>2
<1>5. CASE TickReject
  <2>1. Commit(Target, bad, "err") /\ asked' = asked
    BY <1>5 DEF TickReject, inputs
  <2> QED BY <1>4, <1>5, <2>1
<1>6. CASE TickAccept
  <2>1. Commit(Target, Keys(batch), "ok") /\ asked' = asked
    BY <1>6 DEF TickAccept, inputs
  <2> QED BY <1>4, <1>6, <2>1
<1>7. CASE \/ \E k \in Txn : ReceiveTransaction(k)
           \/ ReceiveAdd \/ TickLease \/ TickValidate \/ TickValidateBlock
           \/ TickFreeRejected \/ TickStore \/ TickTree \/ TickFreeAccepted \/ TickConfirm
           \/ Load \/ Crash \/ UNCHANGED vars
  <2>1. (\E why : GoDown(why)) \/ UNCHANGED <<reply, asked>>
    BY <1>7 DEF ReceiveTransaction, ReceiveAdd, TickLease, TickValidate, TickValidateBlock,
                TickFreeRejected, TickStore, TickTree, TickFreeAccepted, TickConfirm, Load,
                Crash, vars, mempool, inputs, Free, LeaseBatch, Add
  <2> QED BY <1>3, <2>1
<1>8. CASE \E d \in Client : \E k \in Txn : Submit(d, k)
  BY <1>1, <1>8 DEF SenderInv
<1>9. CASE \E d \in Client : SubmitWait(d)
  BY <1>2, <1>9
<1> QED BY <1>5, <1>6, <1>7, <1>8, <1>9 DEF Next, Tick

\* Whoever was told "ok" finds its transaction in the store, after any crash, too.
THEOREM OkIsDurableHolds ==
    ASSUME EveryHeight
    PROVE  Spec => []OkIsDurable
<1>1. Init => SenderInv /\ OkIsDurable
  BY DEF Init, MempoolInit, SenderInv, OkIsDurable
<1>2. IInv /\ SenderInv /\ OkIsDurable /\ [Next]_vars => OkIsDurable'
  <2> SUFFICES ASSUME IInv, SenderInv, OkIsDurable, [Next]_vars,
                      NEW c \in Client, reply'[c] = "ok"
               PROVE  asked'[c] \in Committed'
    BY DEF OkIsDurable
  <2>1. asked'[c] = asked[c]
    BY AnswerStep
  <2>2. CASE reply[c] = "ok"
    BY <2>1, <2>2, StoreKept DEF OkIsDurable
  <2>3. CASE TickAccept /\ asked[c] \in Keys(batch)
    <3>1. store[Target] = Keys(batch) /\ Target = Len(store)
      BY <2>3 DEF TickAccept, IInv, ChainInv, Stored
    <3>2. Target \in DOMAIN store
      <4>1. Target \in Nat \ {0} /\ DOMAIN store = 1..Len(store)
        BY LenProperties DEF IInv, TypeOK, Target
      <4> QED BY <3>1, <4>1
    <3>3. asked[c] \in Committed
      BY <2>3, <3>1, <3>2 DEF Committed
    <3> QED BY <2>1, <3>3, StoreKept
  <2> QED BY <2>2, <2>3, AnswerStep
<1> QED BY <1>1, <1>2, SenderStep, TypeCorrect, PTL DEF Spec
-----------------------------------------------------------------------------
\* The root of a stored block does not change any more.
LEMMA RootKept ==
    ASSUME IInv, [Next]_vars, NEW i \in DOMAIN store
    PROVE  i \in DOMAIN store' /\ RootAt(i)' = RootAt(i)
<1>1. store \in Seq(SUBSET Txn) /\ DOMAIN store = 1..Len(store) /\ Len(store) \in Nat
  BY LenProperties DEF IInv, TypeOK
<1>2. CASE store' = store
  BY <1>2 DEF RootAt
<1>3. CASE Appends
  <2>1. store' \in Seq(SUBSET Txn) /\ Len(store') = Len(store) + 1
    BY <1>1, <1>3, AppendProperties DEF Appends
  <2>2. DOMAIN store' = 1..(Len(store) + 1)
    BY <2>1, LenProperties
  <2>3. i \in 0..Len(store) /\ i \in DOMAIN store'
    BY <1>1, <2>2
  <2>4. RootAt(i)' = RootAt(i)
    BY <1>1, <1>3, <2>3, RootsOfPrefix DEF Appends
  <2> QED BY <2>3, <2>4
<1> QED BY <1>2, <1>3, StoreStep

\* Only a transaction that needs a root and has none yet gets one, that of a block.
LEMMA AnchorStep ==
    ASSUME IInv, [Next]_vars, NEW k \in Txn
    PROVE  \/ anchor'[k] = anchor[k]
           \/ /\ k \in Anchored /\ anchor[k] = NoRoot
              /\ \E i \in DOMAIN store : anchor'[k] = RootAt(i)
<1>t. TypeOK
  BY DEF IInv
<1>1. ASSUME NEW m \in Txn, NEW root \in Roots(m), anchor' = [anchor EXCEPT ![m] = root]
      PROVE  \/ anchor'[k] = anchor[k]
             \/ /\ k \in Anchored /\ anchor[k] = NoRoot
                /\ \E i \in DOMAIN store : anchor'[k] = RootAt(i)
  <2>1. CASE m = k
    <3>1. anchor'[k] = root
      BY <1>t, <1>1, <2>1 DEF TypeOK
    <3> QED BY <2>1, <3>1 DEF Roots
  <2>2. CASE m # k
    BY <1>t, <1>1, <2>2 DEF TypeOK
  <2> QED BY <2>1, <2>2
<1>2. CASE (\E c \in Client : \E m \in Txn : Submit(c, m)) \/ (\E m \in Txn : ReceiveTransaction(m))
  <2>1. PICK m \in Txn : \E root \in Roots(m) : anchor' = [anchor EXCEPT ![m] = root]
    BY <1>2 DEF Submit, ReceiveTransaction
  <2> QED BY <1>1, <2>1
<1>3. CASE ~((\E c \in Client : \E m \in Txn : Submit(c, m)) \/ (\E m \in Txn : ReceiveTransaction(m)))
  <2>1. anchor' = anchor
    BY <1>3 DEF Next, Tick, SubmitWait, ReceiveAdd, TickLease, TickValidate, TickValidateBlock,
       TickReject, TickFreeRejected, TickStore, TickTree, TickAccept, TickFreeAccepted,
       TickConfirm, Crash, Load, GoDown, vars, chainVars
  <2> QED BY <2>1
<1> QED BY <1>2, <1>3

(* The transactions that a client or the network handler has brought.      *)
Known(k) == k \in txns \/ k = net \/ \E c \in Client : asked[c] = k

\* A transaction becomes known when it is submitted or received.
LEMMA KnownStep ==
    ASSUME IInv, [Next]_vars, NEW k \in Txn, Known(k)'
    PROVE  Known(k) \/ (\E c \in Client : Submit(c, k)) \/ ReceiveTransaction(k)
<1>t. TypeOK /\ MempoolTypeOK /\ AskedInv
  BY DEF IInv, TypeOK
<1>n. NoTxn \notin Txn
  BY ValidatorAssumption
<1>1. CASE \E c \in Client : \E m \in Txn : Submit(c, m)
  <2>1. PICK c \in Client : \E m \in Txn : Submit(c, m)
    BY <1>1
  <2>2. PICK m \in Txn : Submit(c, m)
    BY <2>1
  <2>3. asked' = [asked EXCEPT ![c] = m] /\ txns' = txns /\ net' = net
    BY <2>2 DEF Submit, mempool
  <2> QED BY <1>t, <2>2, <2>3 DEF Known, TypeOK
<1>2. CASE \E c \in Client : SubmitWait(c)
  BY <1>2, <1>t DEF SubmitWait, AddWait, Insert, Known
<1>3. CASE \E m \in Txn : ReceiveTransaction(m)
  BY <1>3 DEF ReceiveTransaction, mempool, Known
<1>4. CASE ReceiveAdd
  BY <1>4, <1>n DEF ReceiveAdd, Add, Insert, Known
<1>5. CASE ~(\/ \E c \in Client : \E m \in Txn : Submit(c, m)
             \/ \E c \in Client : SubmitWait(c)
             \/ \E m \in Txn : ReceiveTransaction(m) \/ ReceiveAdd)
  <2>1. txns' \subseteq txns /\ net' \in {net, NoTxn} /\ asked' = asked
    BY <1>5 DEF Next, Tick, TickLease, TickValidate, TickValidateBlock, Commit, Free, LeaseBatch,
       TickReject, TickFreeRejected, TickStore, TickTree, TickAccept, TickFreeAccepted,
       TickConfirm, Crash, Load, GoDown, vars, mempool, inputs
  <2> QED BY <1>n, <2>1 DEF Known
<1> QED BY <1>1, <1>2, <1>3, <1>4, <1>5

\* A known transaction that needs a root has that of a block.
LEMMA AnchorInvStep ==
    ASSUME IInv, AnchorInv, [Next]_vars
    PROVE  AnchorInv'
<1>t. TypeOK
  BY DEF IInv
<1>r. \A i \in DOMAIN store : RootAt(i) # NoRoot
  <2>1. store \in Seq(SUBSET Txn) /\ DOMAIN store = 1..Len(store) /\ Len(store) \in Nat
    BY <1>t, LenProperties DEF TypeOK
  <2>2. \A i \in DOMAIN store : RootAt(i) \subseteq BlockLeaves(Txn)
    BY <2>1, RootsGrow
  <2>3. \A i \in DOMAIN store :
           RootAt(i) \in SUBSET UNION {InputsOf[k] \cup OutputsOf[k] : k \in Txn}
    BY <2>2 DEF BlockLeaves, LeavesOf
  <2> QED BY <2>3, ValidatorAssumption
<1>1. ASSUME NEW k \in Txn
      PROVE  anchor'[k] = NoRoot \/ \E i \in DOMAIN store' : anchor'[k] = RootAt(i)'
  <2>1. CASE \E i \in DOMAIN store : anchor'[k] = RootAt(i)
    <3>1. PICK i \in DOMAIN store : anchor'[k] = RootAt(i)
      BY <2>1
    <3> QED BY <3>1, RootKept
  <2>2. CASE anchor'[k] = NoRoot
    BY <2>2
  <2> QED BY <2>1, <2>2, AnchorStep DEF AnchorInv
<1>2. ASSUME NEW k \in Anchored, Known(k)' PROVE anchor'[k] # NoRoot
  <2>0. k \in Txn
    BY ValidatorAssumption
  <2>1. CASE Known(k)
    <3>1. anchor[k] # NoRoot
      BY <2>1 DEF AnchorInv, Known
    <3> QED BY <2>0, <3>1, AnchorStep
  <2>2. CASE (\E c \in Client : Submit(c, k)) \/ ReceiveTransaction(k)
    <3>1. PICK root \in Roots(k) : anchor' = [anchor EXCEPT ![k] = root]
      BY <2>2 DEF Submit, ReceiveTransaction
    <3>2. root # NoRoot
      BY <1>r DEF Roots
    <3> QED BY <1>t, <2>0, <3>1, <3>2 DEF TypeOK
  <2> QED BY <1>2, <2>0, <2>1, <2>2, KnownStep
<1>3. Anchored \subseteq Txn
  BY ValidatorAssumption
<1> QED BY <1>1, <1>2, <1>3 DEF AnchorInv, Known
-----------------------------------------------------------------------------
\* A proposal in the making is what its worker last left it.
LEMMA ProposalFrame ==
    ASSUME IInv, [Next]_vars, pc' \in {"validate", "store", "reject"},
           ~TickLease, ~TickValidate, ~TickValidateBlock
    PROVE  /\ UNCHANGED <<pc, batch, next, bad, tree, store, height>>
           /\ pc \in {"validate", "store", "reject"}
<1>1. CASE \/ \E c \in Client : \E k \in Txn : Submit(c, k)
           \/ \E c \in Client : SubmitWait(c)
           \/ \E k \in Txn : ReceiveTransaction(k)
           \/ ReceiveAdd \/ UNCHANGED vars
  BY <1>1 DEF Submit, SubmitWait, ReceiveTransaction, ReceiveAdd, vars, chainVars, worker
<1>2. CASE Load
  BY <1>2 DEF Load, worker, IInv, LeaseInv
<1>3. CASE Tick \/ Crash
  BY <1>3 DEF Tick, Crash, TickReject, TickFreeRejected,
     TickStore, TickTree, TickAccept, TickFreeAccepted, TickConfirm, GoDown
<1> QED BY <1>1, <1>2, <1>3 DEF Next

\* lease_batch takes no two transactions that share a leaf.
LEMMA LeasedDisjoint ==
    ASSUME TypeOK, NEW n \in 0..Len(pool), NEW B \in SUBSET (1..n), Popped(n, B)
    PROVE  \A i, j \in DOMAIN Keep(pool, B) :
              i # j => LeavesOf(Keep(pool, B)[i]) \cap LeavesOf(Keep(pool, B)[j]) = {}
<1>1. pool \in Seq(Txn) /\ DOMAIN pool = 1..Len(pool) /\ Len(pool) \in Nat
  BY LenProperties DEF TypeOK, MempoolTypeOK
<1>2. B \in SUBSET (DOMAIN pool)
  BY <1>1
<1>3. PICK f : Lists(f, pool, B)
  BY <1>1, <1>2, KeepPositions
<1>4. \A p \in B : LeavesOf(pool[p]) \subseteq ChangesOf[pool[p]]
  <2>1. \A p \in B : pool[p] \in Txn
    BY <1>1, <1>2, ElementOfSeq
  <2> QED BY <2>1, ValidatorAssumption DEF LeavesOf
<1>5. \A p, q \in B : q < p => ChangesOf[pool[p]] \cap ChangesOf[pool[q]] = {}
  BY DEF Popped
<1>6. \A p, q \in B : p # q => LeavesOf(pool[p]) \cap LeavesOf(pool[q]) = {}
  <2>1. \A p, q \in B : p # q => p < q \/ q < p
    OBVIOUS
  <2> QED BY <1>4, <1>5, <2>1
<1>7. /\ DOMAIN Keep(pool, B) = 1..Cardinality(B)
      /\ \A i \in 1..Cardinality(B) : f[i] \in B /\ Keep(pool, B)[i] = pool[f[i]]
      /\ \A i, j \in 1..Cardinality(B) : i # j => f[i] # f[j]
  BY <1>3 DEF Lists
<1>8. ASSUME NEW i \in DOMAIN Keep(pool, B), NEW j \in DOMAIN Keep(pool, B), i # j
      PROVE  LeavesOf(Keep(pool, B)[i]) \cap LeavesOf(Keep(pool, B)[j]) = {}
  <2>1. /\ f[i] \in B /\ f[j] \in B /\ f[i] # f[j]
        /\ Keep(pool, B)[i] = pool[f[i]] /\ Keep(pool, B)[j] = pool[f[j]]
    BY <1>7, <1>8
  <2>2. LeavesOf(pool[f[i]]) \cap LeavesOf(pool[f[j]]) = {}
    BY <1>6, <2>1
  <2> QED BY <2>1, <2>2
<1> QED BY <1>8

\* A single validator leads every height.
LEMMA SingleLeads ==
    ASSUME IInv, NumValidators = 1
    PROVE  IsLeader(Target)
<1>1. Target \in Nat /\ SelfIndex = 0
  BY ValidatorAssumption DEF IInv, TypeOK, Target
<1>2. Target % 1 = 0
  BY <1>1
<1> QED BY <1>1, <1>2 DEF IsLeader

\* The transactions of a proposal stay fresh, disjoint and, once validated, recent.
LEMMA ProposalStep ==
    ASSUME IInv, AnchorInv, ProposalInv, [Next]_vars
    PROVE  ProposalInv'
<1>t. TypeOK /\ LeaseInv
  BY DEF IInv
<1>n. Len(batch) \in Nat /\ DOMAIN batch = 1..Len(batch) /\ next \in Nat
  BY <1>t, LenProperties DEF TypeOK
<1>1. CASE TickLease
  <2>1. PICK n \in 0..Len(pool) : \E B \in SUBSET (1..n) :
           /\ Popped(n, B)
           /\ pc' = "idle" \/ (pc' = "validate" /\ next' = 1 /\ batch' = Keep(pool, B))
    BY <1>1 DEF TickLease, GoDown
  <2>2. PICK B \in SUBSET (1..n) :
           /\ Popped(n, B)
           /\ pc' = "idle" \/ (pc' = "validate" /\ next' = 1 /\ batch' = Keep(pool, B))
    BY <2>1
  <2>3. CASE pc' = "idle"
    BY <2>3 DEF ProposalInv
  <2>4. CASE pc' = "validate" /\ next' = 1 /\ batch' = Keep(pool, B)
    <3>1. \A i, j \in DOMAIN batch' :
              i # j => LeavesOf(batch'[i]) \cap LeavesOf(batch'[j]) = {}
      BY <1>t, <2>2, <2>4, LeasedDisjoint
    <3>2. \A i \in DOMAIN batch' : ~(i < next')
      <4>1. DOMAIN Keep(pool, B) \subseteq Nat \ {0}
        BY DEF Keep
      <4> QED BY <2>4, <4>1
    <3> QED BY <2>4, <3>1, <3>2 DEF ProposalInv, LeavesOf
  <2> QED BY <2>2, <2>3, <2>4
<1>2. CASE TickValidate
  <2>1. /\ pc = "validate" /\ next \in 1..Len(batch) /\ pc' \in {"validate", "reject"}
        /\ pc' = "validate" => next' = next + 1 /\ Fresh(batch[next])
        /\ UNCHANGED <<batch, tree>>
    BY <1>2, <1>t, <1>n DEF TickValidate, Valid, Fresh, chainVars, TypeOK
  <2>2. pc' = "validate" => \A i \in DOMAIN batch : i < next' => i < next \/ i = next
    BY <1>n, <2>1
  <2> QED BY <2>1, <2>2 DEF ProposalInv, Fresh, LeavesOf
<1>3. CASE TickValidateBlock
  <2>1. /\ pc = "validate" /\ pc' \in {"store", "reject"}
        /\ pc' = "store" => \A i \in DOMAIN batch : ~OwnFault(i)
        /\ UNCHANGED <<batch, store, height, anchor>>
    BY <1>3 DEF TickValidateBlock, chainVars
  <2>2. pc' = "store" => \A i \in DOMAIN batch : Recent(anchor[batch[i]], Target)
    BY <2>1 DEF OwnFault
  <2>3. pc' = "store" => \A i \in DOMAIN batch' : Recent(anchor[batch[i]], Target)'
    BY <2>1, <2>2 DEF Recent, RootAt, Target
  <2> QED BY <2>1, <2>3 DEF ProposalInv, LeavesOf
<1>4. CASE pc' \in {"validate", "store"} /\ ~TickLease /\ ~TickValidate /\ ~TickValidateBlock
  <2>1. UNCHANGED <<pc, batch, next, bad, tree, store, height>>
    BY <1>4, ProposalFrame
  <2>2. pc = "store" => \A i \in DOMAIN batch : anchor'[batch[i]] = anchor[batch[i]]
    <3> SUFFICES ASSUME pc = "store", NEW i \in DOMAIN batch
                 PROVE  anchor'[batch[i]] = anchor[batch[i]]
      OBVIOUS
    <3>1. batch[i] \in txns /\ batch[i] \in Txn
      BY <1>t DEF LeaseInv, Held, Keys, TypeOK, MempoolTypeOK
    <3>2. batch[i] \in Anchored => anchor[batch[i]] # NoRoot
      BY <3>1 DEF AnchorInv
    <3> QED BY <3>1, <3>2, AnchorStep
  <2>3. pc' = "store" => \A i \in DOMAIN batch' : Recent(anchor[batch[i]], Target)'
    BY <2>1, <2>2 DEF Recent, RootAt, Target, ProposalInv
  <2> QED BY <2>1, <2>3 DEF ProposalInv, Fresh, LeavesOf
<1>5. CASE pc' \notin {"validate", "store"}
  BY <1>5 DEF ProposalInv
<1> QED BY <1>1, <1>2, <1>3, <1>4, <1>5
\* A root that is too old for the cache is too old for the next block.
LEMMA OlderIsOlder ==
    ASSUME IInv, proc = "up", ~Stored, NEW root, ~Recent(root, height)
    PROVE  ~Recent(root, Target)
<1>1. Len(store) = height /\ height \in Nat /\ DOMAIN store = 1..Len(store)
  BY LenProperties DEF IInv, ChainInv, TypeOK
<1>2. RootCount \in Nat
  BY ValidatorAssumption
<1>3. \A i \in DOMAIN store : i > Target - RootCount => i > height - RootCount /\ i <= height
  BY <1>1, <1>2 DEF Target
<1> QED BY <1>3 DEF Recent

\* The root of a transaction for which it is too old does not change.
LEMMA OldRootStays ==
    ASSUME IInv, [Next]_vars, NEW k \in Txn, NEW h, ~Recent(anchor[k], h)
    PROVE  anchor'[k] = anchor[k]
    BY AnchorStep DEF Recent

\* A single validator rejects no transaction that could still be committed.
LEMMA NoInnocentStep ==
    ASSUME IInv, ProposalInv, NoInnocentRejected, NumValidators = 1, [Next]_vars
    PROVE  NoInnocentRejected'
<1>t. TypeOK /\ LeaseInv
  BY DEF IInv
<1>n. Len(batch) \in Nat /\ DOMAIN batch = 1..Len(batch) /\ next \in Nat
  BY <1>t, LenProperties DEF TypeOK
<1> SUFFICES ASSUME pc' = "reject"
             PROVE  \A k \in bad' : \/ k \in MintBurn
                                    \/ LeavesOf(k) \cap tree' # {}
                                    \/ ~Recent(anchor[k], Target)'
  BY DEF NoInnocentRejected, LeavesOf
<1>1. CASE TickLease
  BY <1>1 DEF TickLease, GoDown
<1>2. CASE TickValidate \/ TickValidateBlock
  <2>1. UNCHANGED <<store, tree, height, anchor, batch>> /\ proc = "up" /\ pc = "validate"
    BY <1>2 DEF TickValidate, TickValidateBlock, chainVars
  <2>2. \A k \in Txn : Recent(anchor[k], Target)' <=> Recent(anchor[k], Target)
    BY <2>1 DEF Recent, RootAt, Target
  <2>3. ASSUME NEW k \in bad', TickValidate
        PROVE  k \in MintBurn \/ LeavesOf(k) \cap tree # {} \/ ~Recent(anchor[k], Target)
    <3>1. k \in MintBurn \/ ~Valid(k, anchor[k])
      BY <2>3 DEF TickValidate
    <3>2. k \in MintBurn \/ LeavesOf(k) \cap tree # {} \/ ~Recent(anchor[k], height)
      BY <3>1 DEF Valid
    <3> QED BY <2>1, <3>2, OlderIsOlder DEF Stored
  <2>4. ASSUME NEW k \in bad', TickValidateBlock
        PROVE  ~Recent(anchor[k], Target)
    <3>1. next > Len(batch)
      BY <2>4 DEF TickValidateBlock
    <3>2. \A i \in DOMAIN batch : Fresh(batch[i])
      BY <1>n, <2>1, <3>1 DEF ProposalInv
    <3>3. \A i \in DOMAIN batch : ~OutputExists(i) /\ InputsOf[batch[i]] \cap tree = {}
      BY <3>2 DEF OutputExists, Fresh, LeavesOf
    <3>4. \A i \in DOMAIN batch : ~LeafTwice(i)
      <4>1. \A i \in DOMAIN batch : \A j \in 1..(i - 1) : j \in DOMAIN batch /\ i # j
        BY <1>n
      <4> QED BY <2>1, <4>1 DEF LeafTwice, ProposalInv
    <3>5. PICK i \in DOMAIN batch : FirstFault(i) /\ bad' = IF OwnFault(i) THEN {batch[i]} ELSE Keys(batch)
      BY <2>4, SingleLeads DEF TickValidateBlock
    <3>6. OwnFault(i) /\ k = batch[i]
      BY <2>4, <3>3, <3>5 DEF FirstFault
    <3> QED BY <3>3, <3>4, <3>6 DEF OwnFault
  <2>5. bad' \subseteq Txn
    <3>1. \A i \in DOMAIN batch : batch[i] \in Txn
      BY <1>t, <1>n, ElementOfSeq DEF TypeOK
    <3>2. TickValidate => next \in DOMAIN batch
      BY <1>t, <1>n DEF TickValidate, TypeOK
    <3>3. bad \subseteq Txn
      BY <1>t DEF TypeOK
    <3> QED BY <1>2, <3>1, <3>2, <3>3 DEF TickValidate, TickValidateBlock, Keys
  <2> QED BY <1>2, <2>1, <2>2, <2>3, <2>4, <2>5
<1>3. CASE ~TickLease /\ ~TickValidate /\ ~TickValidateBlock
  <2>1. UNCHANGED <<pc, bad, tree, store, height>>
    BY <1>3, ProposalFrame
  <2>2. ASSUME NEW k \in bad', ~Recent(anchor[k], Target)
        PROVE  ~Recent(anchor[k], Target)'
    <3>1. k \in Txn
      BY <1>t, <2>1 DEF TypeOK
    <3>2. anchor'[k] = anchor[k]
      BY <2>2, <3>1, OldRootStays
    <3> QED BY <2>1, <2>2, <3>2 DEF Recent, RootAt, Target
  <2> QED BY <2>1, <2>2 DEF NoInnocentRejected
<1> QED BY <1>1, <1>2, <1>3

\* At the start there is no proposal, and no transaction that would need a root.
LEMMA ProposalInit == Init => AnchorInv /\ ProposalInv /\ NoInnocentRejected
<1>1. Init => \A k : k \notin txns /\ net \notin Txn /\ \A c \in Client : asked[c] = NoTxn
  BY ValidatorAssumption DEF Init, MempoolInit
<1>2. Anchored \subseteq Txn /\ NoTxn \notin Txn
  BY ValidatorAssumption
<1> QED BY <1>1, <1>2 DEF Init, AnchorInv, ProposalInv, NoInnocentRejected

\* A single validator, as in the deployment, rejects no transaction that could still
\* become part of the chain: what lease_batch took shares no leaf, and nothing enters
\* the tree between the two validations.
THEOREM NoInnocentRejectedHolds ==
    ASSUME EveryHeight, NumValidators = 1
    PROVE  Spec => []NoInnocentRejected
<1>1. Init => AnchorInv /\ ProposalInv /\ NoInnocentRejected
  BY ProposalInit
<1>2. IInv /\ AnchorInv /\ ProposalInv /\ NoInnocentRejected /\ [Next]_vars
        => AnchorInv' /\ ProposalInv' /\ NoInnocentRejected'
  BY AnchorInvStep, ProposalStep, NoInnocentStep
<1> QED BY <1>1, <1>2, TypeCorrect, PTL DEF Spec
-----------------------------------------------------------------------------
\* A root that left the window does not come back with a new block: if the block
\* had the same root again, so had the one before it.
LEMMA WindowMoves ==
    ASSUME NEW n \in Nat, NEW B, store \in Seq(SUBSET Txn),
           DOMAIN store = 1..n, DOMAIN store' = 1..(n + 1), Len(store) = n,
           \A i \in 1..n : store'[i] = store[i], store'[n + 1] = B,
           NEW a, a = NoRoot \/ \E i \in 1..n : a = RootAt(i),
           ~Recent(a, n + 1)
    PROVE  ~Recent(a, n + 2)' /\ RootAt(n) \subseteq RootAt(n + 1)'
<1>1. /\ \A h \in 0..n : RootAt(h)' = RootAt(h)
      /\ RootAt(n + 1)' = RootAt(n) \cup BlockLeaves(B)
  BY RootsOfPrefix
<1>2. RootCount \in Nat
  BY ValidatorAssumption
<1>3. a # NoRoot /\ \A i \in 1..n : i > (n + 1) - RootCount => RootAt(i) # a
  <2>1. \A i \in 1..n : i <= n + 1
    OBVIOUS
  <2> QED BY <2>1 DEF Recent
<1>4. PICK j \in 1..n : a = RootAt(j)
  BY <1>3
<1>5. ASSUME NEW i \in 1..(n + 1), i > (n + 2) - RootCount, RootAt(i)' = a PROVE FALSE
  <2>1. CASE i \in 1..n
    <3>1. i \in 0..n /\ i > (n + 1) - RootCount
      BY <1>2, <1>5, <2>1
    <3> QED BY <1>1, <1>3, <1>5, <2>1, <3>1
  <2>2. CASE i = n + 1
    <3>1. RootAt(n) \subseteq a
      BY <1>1, <1>5, <2>2
    <3>2. RootAt(j) \subseteq RootAt(n)
      <4>1. n \in 0..Len(store) /\ j \in 0..n
        OBVIOUS
      <4> QED BY <4>1, RootsGrow
    <3>3. RootAt(n) = a
      BY <1>4, <3>1, <3>2
    <3>4. n \in 1..n /\ n > (n + 1) - RootCount
      BY <1>2, <1>5, <2>2
    <3> QED BY <1>3, <3>3, <3>4
  <2> QED BY <2>1, <2>2
<1>6. ~Recent(a, n + 2)'
  <2>1. \A i \in DOMAIN store' : ~(i > (n + 2) - RootCount /\ RootAt(i)' = a)
    BY <1>5
  <2> QED BY <1>3, <2>1 DEF Recent
<1>7. n \in 0..n
  OBVIOUS
<1> QED BY <1>1, <1>6, <1>7

\* A transaction that cannot be committed can never be: its leaf stays in the tree,
\* and the window of recent roots only moves on.
LEMMA DeadStays ==
    ASSUME IInv, AnchorInv, [Next]_vars, NEW k \in Txn, Dead(k)
    PROVE  Dead(k)'
<1>1. store \in Seq(SUBSET Txn) /\ DOMAIN store = 1..Len(store) /\ Len(store) \in Nat
  BY LenProperties DEF IInv, TypeOK
<1>2. CASE store' = store
  <2>1. CASE LeavesOf(k) \cap RootAt(Len(store)) # {}
    <3>1. RootAt(Len(store))' = RootAt(Len(store))
      BY <1>2 DEF RootAt
    <3> QED BY <2>1, <3>1 DEF Dead, LeavesOf
  <2>2. CASE ~Recent(anchor[k], Len(store) + 1)
    <3>1. anchor'[k] = anchor[k]
      BY <2>2, OldRootStays
    <3>2. ~Recent(anchor[k], Len(store) + 1)'
      BY <1>2, <2>2, <3>1 DEF Recent, RootAt
    <3> QED BY <3>2 DEF Dead
  <2> QED BY <2>1, <2>2 DEF Dead
<1>3. CASE Appends
  <2>1. PICK n \in Nat : n = Len(store)
    BY <1>1
  <2>2. PICK B : B = Keys(batch)
    OBVIOUS
  <2>3. PICK a : a = anchor[k]
    OBVIOUS
  <2>4. /\ Len(store') = n + 1 /\ store'[n + 1] = B
        /\ \A i \in 1..n : store'[i] = store[i]
        /\ anchor'[k] = a
    BY <1>3, <2>1, <2>2, <2>3 DEF Appends
  <2>5. DOMAIN store' = 1..(n + 1)
    <3>1. store' \in Seq(SUBSET Txn)
      BY <1>1, <1>3, AppendProperties DEF Appends
    <3> QED BY <2>4, <3>1, LenProperties
  <2>6. a = NoRoot \/ \E i \in 1..n : a = RootAt(i)
    BY <1>1, <2>1, <2>3 DEF AnchorInv
  <2>7. CASE LeavesOf(k) \cap RootAt(Len(store)) # {}
    <3>1. RootAt(n) \subseteq RootAt(n + 1)'
      BY <1>1, <2>1, <2>4, RootsOfPrefix
    <3>2. LeavesOf(k) \cap RootAt(n + 1)' # {}
      BY <2>1, <2>7, <3>1
    <3> QED BY <2>4, <3>2 DEF Dead, LeavesOf
  <2>8. CASE ~Recent(anchor[k], Len(store) + 1)
    <3>1. ~Recent(a, n + 1)
      BY <2>1, <2>3, <2>8
    <3>2. ~Recent(a, n + 2)'
      BY <1>1, <2>1, <2>4, <2>5, <2>6, <3>1, WindowMoves
    <3>3. n + 2 = Len(store') + 1
      BY <2>4
    <3> QED BY <2>4, <3>2, <3>3 DEF Dead
  <2> QED BY <2>7, <2>8 DEF Dead
<1> QED BY <1>2, <1>3, StoreStep

\* Who is told "err" by a single validator has a transaction that cannot be
\* committed any more, or a mint or burn, which the contract may confirm later.
LEMMA ErrStep ==
    ASSUME IInv, SenderInv, AnchorInv, NoInnocentRejected, ErrInv, [Next]_vars
    PROVE  ErrInv'
<1> SUFFICES ASSUME NEW c \in Client, reply'[c] = "err"
             PROVE  asked'[c] \in MintBurn \/ Dead(asked[c])'
  BY DEF ErrInv
<1>1. asked'[c] = asked[c]
  BY AnswerStep
<1>2. PICK k : k = asked[c]
  OBVIOUS
<1>3. k \in MintBurn \/ (k \in Txn /\ Dead(k))
  <2>1. CASE reply[c] = "err"
    <3>1. asked[c] \in Txn
      <4>1. rpc[c] # "idle"
        BY <2>1 DEF SenderInv
      <4> QED BY <4>1 DEF IInv, TypeOK, AskedInv
    <3> QED BY <1>2, <2>1, <3>1 DEF ErrInv
  <2>2. CASE TickReject /\ asked[c] \in bad
    <3>1. proc = "up" /\ pc = "reject" /\ k \in bad /\ k \in Txn
      BY <1>2, <2>2 DEF TickReject, IInv, TypeOK
    <3>2. tree = RootAt(Len(store)) /\ Target = Len(store) + 1
      BY <3>1 DEF IInv, ChainInv, Stored, Target
    <3>3. k \in MintBurn \/ LeavesOf(k) \cap tree # {} \/ ~Recent(anchor[k], Target)
      BY <3>1 DEF NoInnocentRejected
    <3> QED BY <3>1, <3>2, <3>3 DEF Dead
  <2> QED BY <2>1, <2>2, AnswerStep
<1>4. k \in MintBurn \/ Dead(k)'
  BY <1>3, DeadStays
<1>5. asked'[c] = k
  BY <1>1, <1>2
<1> QED BY <1>4, <1>5 DEF Dead, LeavesOf
-----------------------------------------------------------------------------
\* A new block is one that the ledger allows.
LEMMA LedgerExtends ==
    ASSUME IInv, BatchInv, AnchorInv, ProposalInv, ErrInv, Appends
    PROVE  Promise!Extend(Keys(batch))
<1> DEFINE B == Keys(batch)
<1>1. /\ store \in Seq(SUBSET Txn) /\ DOMAIN store = 1..Len(store) /\ Len(store) \in Nat
      /\ \A i \in DOMAIN store : store[i] \in SUBSET Txn
  BY LenProperties, ElementOfSeq DEF IInv, TypeOK
<1>2. /\ pc = "store" /\ tree = RootAt(Len(store)) /\ Target = Len(store) + 1
      /\ B \in SUBSET Txn /\ store' = Append(store, B)
      /\ UNCHANGED <<asked, rpc, reply>>
  BY DEF Appends, Target, inputs, mempool
<1>3. \A k \in B : Fresh(k) /\ Recent(anchor[k], Target)
  BY <1>2 DEF BatchInv, ProposalInv, Keys
<1>4. \A k, m \in B : k # m => LeavesOf(k) \cap LeavesOf(m) = {}
  BY <1>2 DEF BatchInv, Keys
<1>5. \A m \in Promise!Members : m \in Txn /\ LeavesOf(m) \subseteq tree
  <2>1. \A i \in DOMAIN store : Len(store) \in i..Len(store)
    BY <1>1
  <2>2. \A i \in DOMAIN store : \A m \in store[i] : LeavesOf(m) \subseteq tree
    BY <1>1, <1>2, <2>1, RootsGrow
  <2> QED BY <1>1, <2>2 DEF Promise!Members
<1> HIDE DEF B
<1>6. \A k \in B : \A m \in B \cup Promise!Members : k # m => Promise!Disjoint(k, m)
  <2>1. \A k \in B : \A m \in Promise!Members : LeavesOf(k) \cap LeavesOf(m) = {}
    BY <1>3, <1>5 DEF Fresh
  <2> QED BY <1>2, <1>4, <1>5, <2>1 DEF Promise!Disjoint
<1>7. B \cap Promise!Members \subseteq {k \in Txn : [m \in Txn |-> LeavesOf(m)][k] = {}}
  BY <1>2, <1>3, <1>5 DEF Fresh
<1>8. B \cap Promise!Failed \subseteq MintBurn
  <2>1. ASSUME NEW c \in Client, Told[c] = "err", asked[c] \in B, asked[c] \notin MintBurn
        PROVE  FALSE
    <3>1. reply[c] = "err"
      BY <2>1 DEF Told
    <3>2. Dead(asked[c])
      BY <2>1, <3>1 DEF ErrInv
    <3> QED BY <1>2, <1>3, <2>1, <3>2 DEF Dead, Fresh
  <2> QED BY <2>1 DEF Promise!Failed
<1>9. UNCHANGED <<asked, Told>>
  BY <1>2 DEF Told
<1>10. Promise!Extend(B)
  BY <1>2, <1>6, <1>7, <1>8, <1>9 DEF Promise!Extend
<1> QED BY <1>10 DEF B

\* An answer of commit is one that the ledger allows.
LEMMA LedgerTells ==
    ASSUME IInv, SenderInv, NEW l, NEW K, NEW answer \in {"ok", "err"},
           Commit(l, K, answer), UNCHANGED <<store, asked, rpc>>,
           answer = "ok" => K \subseteq Promise!Members
    PROVE  \E C \in SUBSET Client : Promise!Tell(C, answer)
<1> DEFINE C == {c \in Client : \E k \in K \cap txns : sender[k] = c}
<1>1. \A c \in C : /\ reply[c] = "waiting" /\ rpc[c] = "done"
                   /\ asked[c] \in K /\ asked[c] # NoTxn
  <2> SUFFICES ASSUME NEW c \in Client, NEW k \in K \cap txns, sender[k] = c
               PROVE  /\ reply[c] = "waiting" /\ rpc[c] = "done"
                      /\ asked[c] \in K /\ asked[c] # NoTxn
    OBVIOUS
  <2>1. reply[c] = "waiting" /\ asked[c] = k /\ rpc[c] = "done"
    BY MempoolAssumption DEF SenderInv
  <2> QED BY <2>1 DEF IInv, AskedInv
<1>2. \A c \in Client : reply'[c] = IF c \in C THEN answer ELSE reply[c]
  BY DEF Commit
<1>3. C \in SUBSET Client
  OBVIOUS
<1> HIDE DEF C
<1>4. \A c \in C : asked[c] # NoTxn /\ Told[c] = "open"
  BY <1>1, <1>3 DEF Told
<1>5. Told' = [c \in Client |-> IF c \in C THEN answer ELSE Told[c]]
  <2>1. \A c \in Client : IF c \in C THEN Told'[c] = answer ELSE Told'[c] = Told[c]
    BY <1>1, <1>2 DEF Told
  <2> QED BY <2>1 DEF Told
<1>6. answer = "ok" => \A c \in C : asked[c] \in Promise!Members
  BY <1>1
<1> QED BY <1>3, <1>4, <1>5, <1>6 DEF Promise!Tell

\* A crash closes every request that is still open, and tells no one anything else.
LEMMA LedgerCloses ==
    ASSUME IInv, SenderInv, NEW why, GoDown(why)
    PROVE  \E C \in SUBSET Client : Promise!Tell(C, "closed")
<1> DEFINE C == {c \in Client : reply[c] = "waiting" \/ rpc[c] = "validated"}
<1>1. \A c \in C : /\ reply[c] \in {"none", "waiting"}
                   /\ rpc[c] \in {"validated", "done"} /\ asked[c] # NoTxn
  BY DEF SenderInv, IInv, AskedInv
<1>2. /\ \A c \in Client : /\ reply'[c] = IF c \in C THEN "closed" ELSE reply[c]
                           /\ rpc'[c] = IF rpc[c] = "validated" THEN "done" ELSE rpc[c]
      /\ UNCHANGED <<store, asked>>
  BY DEF GoDown
<1>3. C \in SUBSET Client /\ \A c \in Client : rpc[c] = "validated" => c \in C
  OBVIOUS
<1> HIDE DEF C
<1>4. \A c \in C : asked[c] # NoTxn /\ Told[c] = "open"
  BY <1>1, <1>3 DEF Told
<1>5. Told' = [c \in Client |-> IF c \in C THEN "closed" ELSE Told[c]]
  <2>1. \A c \in Client : IF c \in C THEN Told'[c] = "closed" ELSE Told'[c] = Told[c]
    BY <1>1, <1>2, <1>3 DEF Told
  <2> QED BY <2>1 DEF Told
<1> QED BY <1>2, <1>3, <1>4, <1>5 DEF Promise!Tell
\* Every step of the node is one of the ledger, or changes nothing a client sees.
LEMMA LedgerStep ==
    ASSUME IInv, SenderInv, BatchInv, AnchorInv, ProposalInv, ErrInv, [Next]_vars
    PROVE  [Promise!Next]_<<store, asked, Told>>
<1>t. TypeOK /\ AskedInv /\ MempoolTypeOK
  BY DEF IInv, TypeOK
<1>1. ASSUME NEW c \in Client, NEW k \in Txn, Submit(c, k) PROVE Promise!Next
  <2>1. /\ rpc[c] = "idle" /\ asked' = [asked EXCEPT ![c] = k]
        /\ \/ rpc' = [rpc EXCEPT ![c] = "validated"]
           \/ rpc' = [rpc EXCEPT ![c] = "refused"]
        /\ UNCHANGED <<store, reply>>
    BY <1>1 DEF Submit, mempool
  <2>2. asked[c] = NoTxn /\ reply[c] = "none"
    BY <1>t, <2>1 DEF AskedInv, SenderInv
  <2>3. CASE rpc' = [rpc EXCEPT ![c] = "validated"]
    <3>1. \A d \in Client : Told'[d] = Told[d]
      BY <1>t, <2>1, <2>2, <2>3 DEF Told, TypeOK
    <3>2. Told' = Told
      BY <3>1 DEF Told
    <3>3. Promise!Ask(c, k)
      BY <2>1, <2>2, <3>2 DEF Promise!Ask
    <3> QED BY <3>3 DEF Promise!Next
  <2>4. CASE rpc' = [rpc EXCEPT ![c] = "refused"]
    <3>1. \A d \in Client : Told'[d] = IF d = c THEN "refused" ELSE Told[d]
      BY <1>t, <2>1, <2>2, <2>4 DEF Told, TypeOK
    <3>2. Told' = [Told EXCEPT ![c] = "refused"]
      BY <3>1 DEF Told
    <3>3. Promise!Ask(c, k)
      BY <2>1, <2>2, <3>2 DEF Promise!Ask
    <3> QED BY <3>3 DEF Promise!Next
  <2> QED BY <2>1, <2>3, <2>4
<1>2. ASSUME NEW c \in Client, SubmitWait(c)
      PROVE  Promise!Next \/ UNCHANGED <<store, asked, Told>>
  <2>1. /\ rpc[c] = "validated" /\ rpc' = [rpc EXCEPT ![c] = "done"]
        /\ UNCHANGED <<store, asked>>
        /\ \/ reply' = [reply EXCEPT ![c] = "closed"]
           \/ reply' = [reply EXCEPT ![c] = "waiting"]
    BY <1>2 DEF SubmitWait, AddWait, chainVars
  <2>2. reply[c] = "none" /\ asked[c] # NoTxn
    BY <1>t, <2>1 DEF AskedInv, SenderInv
  <2>3. CASE reply' = [reply EXCEPT ![c] = "closed"]
    <3>1. \A d \in Client : Told'[d] = IF d \in {c} THEN "closed" ELSE Told[d]
      BY <1>t, <2>1, <2>3 DEF Told, TypeOK, MempoolTypeOK
    <3>2. Told' = [d \in Client |-> IF d \in {c} THEN "closed" ELSE Told[d]]
      BY <3>1 DEF Told
    <3>3. Told[c] = "open"
      BY <2>1, <2>2 DEF Told
    <3>4. Promise!Tell({c}, "closed")
      BY <2>1, <2>2, <3>2, <3>3 DEF Promise!Tell
    <3> QED BY <3>4 DEF Promise!Next
  <2>4. CASE reply' = [reply EXCEPT ![c] = "waiting"]
    <3>1. \A d \in Client : Told'[d] = Told[d]
      BY <1>t, <2>1, <2>2, <2>4 DEF Told, TypeOK, MempoolTypeOK
    <3> QED BY <2>1, <3>1 DEF Told
  <2> QED BY <2>1, <2>3, <2>4
<1>3. ASSUME NEW why, GoDown(why) PROVE Promise!Next
  <2>1. \E C \in SUBSET Client : Promise!Tell(C, "closed")
    BY <1>3, LedgerCloses
  <2> QED BY <2>1 DEF Promise!Next
<1>4. CASE TickReject
  <2>1. Commit(Target, bad, "err") /\ UNCHANGED <<store, asked, rpc>>
    BY <1>4 DEF TickReject, inputs, chainVars
  <2>2. \E C \in SUBSET Client : Promise!Tell(C, "err")
    BY <2>1, LedgerTells
  <2> QED BY <2>2 DEF Promise!Next
<1>5. CASE TickAccept
  <2>1. Commit(Target, Keys(batch), "ok") /\ UNCHANGED <<store, asked, rpc>>
    BY <1>5 DEF TickAccept, inputs, chainVars
  <2>2. store[Target] = Keys(batch) /\ Target = Len(store)
    BY <1>5 DEF TickAccept, IInv, ChainInv, Stored
  <2>3. Target \in DOMAIN store
    <3>1. Target \in Nat \ {0} /\ DOMAIN store = 1..Len(store)
      BY <1>t, LenProperties DEF TypeOK, Target
    <3> QED BY <2>2, <3>1
  <2>4. Keys(batch) \subseteq Promise!Members
    BY <2>2, <2>3 DEF Promise!Members
  <2>5. \E C \in SUBSET Client : Promise!Tell(C, "ok")
    BY <2>1, <2>4, LedgerTells
  <2> QED BY <2>5 DEF Promise!Next
<1>6. CASE Appends
  <2>1. Keys(batch) \in SUBSET Txn /\ Promise!Extend(Keys(batch))
    BY <1>6, LedgerExtends DEF Appends
  <2> QED BY <2>1 DEF Promise!Next
<1>7. CASE \/ \E k \in Txn : ReceiveTransaction(k)
           \/ ReceiveAdd \/ TickLease \/ TickValidate \/ TickValidateBlock
           \/ TickFreeRejected \/ TickStore \/ TickTree \/ TickFreeAccepted \/ TickConfirm
           \/ Load \/ Crash \/ UNCHANGED vars
  <2>1. (\E why : GoDown(why)) \/ UNCHANGED <<rpc, reply, asked>>
    BY <1>7 DEF ReceiveTransaction, ReceiveAdd, TickLease, TickValidate, TickValidateBlock,
                TickFreeRejected, TickStore, TickTree, TickFreeAccepted, TickConfirm, Load,
                Crash, vars, mempool, inputs, Free, LeaseBatch, Add
  <2>2. UNCHANGED <<rpc, reply>> => Told' = Told
    BY DEF Told
  <2> QED BY <1>3, <1>6, <2>1, <2>2, StoreStep
<1> QED BY <1>1, <1>2, <1>4, <1>5, <1>7 DEF Next, Tick

\* The node of a single validator implements the ledger, for any number of clients,
\* transactions, blocks and crashes: the chain only grows and repeats no leaf, an
\* "ok" is in the chain, and what was told "err" never enters it (mint and burn
\* excepted, for which the contract may change its answer).
THEOREM ImplementsLedgerHolds ==
    ASSUME EveryHeight, NumValidators = 1
    PROVE  Spec => ImplementsLedger
<1>1. Init => Promise!Init
  BY DEF Init, MempoolInit, Promise!Init, Told
<1>2. Init => SenderInv /\ BatchInv /\ ErrInv
  BY DEF Init, MempoolInit, SenderInv, BatchInv, ErrInv
<1>3. Init => AnchorInv /\ ProposalInv /\ NoInnocentRejected
  BY ProposalInit
<1>4. IInv /\ SenderInv /\ BatchInv /\ AnchorInv /\ ProposalInv /\ NoInnocentRejected
        /\ ErrInv /\ [Next]_vars
        => /\ SenderInv' /\ BatchInv' /\ AnchorInv' /\ ProposalInv'
           /\ NoInnocentRejected' /\ ErrInv'
  BY SenderStep, BatchStep, AnchorInvStep, ProposalStep, NoInnocentStep, ErrStep
<1>5. IInv /\ SenderInv /\ BatchInv /\ AnchorInv /\ ProposalInv /\ ErrInv /\ [Next]_vars
        => [Promise!Next]_<<store, asked, Told>>
  BY LedgerStep
<1> QED BY <1>1, <1>2, <1>3, <1>4, <1>5, TypeCorrect, PTL
        DEF Spec, ImplementsLedger, Promise!Spec
=============================================================================
