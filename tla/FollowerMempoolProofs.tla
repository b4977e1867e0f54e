------------------------ MODULE FollowerMempoolProofs ------------------------
(***************************************************************************)
(* Proofs about FollowerMempool for any transactions, clients and number   *)
(* of blocks. Unlike a validator's, a follower's pool may hold a key twice *)
(* and keys that are no longer transactions: lease_txns takes what a block *)
(* names, known or not, and free puts it into the pool.                    *)
(***************************************************************************)
EXTENDS FollowerMempool, MempoolLemmas

(* What a client asked for is known from its first call on.                *)
AskedInv == \A c \in Client : rpc[c] = "idle" <=> asked[c] = NoTxn

(* Blocks, and leases, are made of transactions that were sent: finitely   *)
(* many at any time, so that free meets every key of a lease.              *)
SentInv ==
    /\ IsFiniteSet(sent)
    /\ \A i \in DOMAIN chain : chain[i] \subseteq sent
    /\ \A l \in Lease : leased[l] \subseteq sent

(* The cache has blocks of the chain, the node has confirmed no others.    *)
CacheInv ==
    /\ cached \subseteq DOMAIN chain
    /\ height <= Len(chain)
    /\ pc = "free" => height \in Lease

(* A request waits for the transaction it brought, which is there.         *)
SenderInv ==
    /\ \A c \in Client : /\ reply[c] # "none" => rpc[c] = "done"
                         /\ reply[c] = "waiting" => \E k \in txns : sender[k] = c
    /\ \A k \in txns : sender[k] # NoClient =>
            /\ asked[sender[k]] = k /\ rpc[sender[k]] = "done"
            /\ reply[sender[k]] = "waiting"

(* A key of the mempool is in the pool or in a lease.                      *)
Kept == \A k \in txns : k \in Keys(pool) \/ \E l \in Lease : k \in leased[l]

IInv == TypeOK /\ AskedInv /\ SentInv /\ CacheInv /\ SenderInv /\ Kept
-----------------------------------------------------------------------------
\* What a request or a peer brings: one new key, at most, at the end of the pool.
LEMMA InsertStep ==
    ASSUME TypeOK, NEW k \in Txn, NEW c \in Client \cup {NoClient}, Insert(k, c)
    PROVE  /\ txns' \subseteq Txn /\ pool' \in Seq(Txn)
           /\ sender' \in [Txn -> Client \cup {NoClient}] /\ leased' = leased
           /\ Kept => Kept'
<1>t. MempoolTypeOK
  BY DEF TypeOK
<1>1. pool' = Append(pool, k) /\ txns' = txns \cup {k} /\ leased' = leased
  BY DEF Insert
<1>2. pool \in Seq(Txn) /\ Len(pool) \in Nat /\ DOMAIN pool = 1..Len(pool)
  BY <1>t, LenProperties DEF MempoolTypeOK
<1>3. /\ pool' \in Seq(Txn) /\ Len(pool') = Len(pool) + 1
      /\ \A i \in 1..Len(pool) : pool'[i] = pool[i]
      /\ pool'[Len(pool) + 1] = k
  BY <1>1, <1>2, AppendProperties
<1>4. DOMAIN pool' = 1..(Len(pool) + 1)
  BY <1>3, LenProperties
<1>5. Keys(pool) \cup {k} \subseteq Keys(pool')
  BY <1>2, <1>3, <1>4 DEF Keys
<1> QED BY <1>t, <1>1, <1>3, <1>5 DEF Insert, Kept, MempoolTypeOK

\* The requests keep the types and lose no key.
LEMMA InputStep ==
    ASSUME IInv,
           \/ \E c \in Client : \E k \in Txn : Submit(c, k)
           \/ \E c \in Client : SubmitSend(c)
           \/ \E c \in Client : SubmitWait(c)
           \/ \E k \in Txn : ReceiveTransaction(k)
           \/ ReceiveAdd
    PROVE  TypeOK' /\ Kept' /\ SentInv' /\ CacheInv'
<1> USE DEF TypeOK, MempoolTypeOK
<1>t. TypeOK /\ AskedInv /\ SentInv /\ CacheInv /\ Kept
  BY DEF IInv
<1>1. ASSUME NEW c \in Client, NEW k \in Txn, Submit(c, k)
      PROVE  TypeOK' /\ Kept' /\ SentInv' /\ CacheInv'
  BY <1>1, <1>t DEF Submit, mempool, Kept, SentInv, CacheInv
<1>s. ASSUME NEW k \in Txn, sent' = sent \cup {k}, UNCHANGED <<chain, leased>>
      PROVE  sent' \subseteq Txn /\ SentInv'
  <2>1. IsFiniteSet(sent')
    BY <1>s, <1>t, FS_AddElement DEF SentInv
  <2> QED BY <1>s, <1>t, <2>1 DEF SentInv
<1>2. ASSUME NEW c \in Client, SubmitSend(c)
      PROVE  TypeOK' /\ Kept' /\ SentInv' /\ CacheInv'
  <2>1. asked[c] \in Txn
    BY <1>t, <1>2 DEF SubmitSend, AskedInv
  <2>2. /\ sent' = sent \cup {asked[c]} /\ rpc' = [rpc EXCEPT ![c] = "sent"]
        /\ UNCHANGED <<txns, sender, pool, leased, reply, chain, height, cached, asked, net, pc>>
    BY <1>2 DEF SubmitSend, mempool
  <2>3. sent' \subseteq Txn /\ SentInv'
    BY <1>s, <2>1, <2>2
  <2> QED BY <1>t, <2>2, <2>3 DEF Kept, CacheInv
<1>3. ASSUME NEW c \in Client, SubmitWait(c)
      PROVE  TypeOK' /\ Kept' /\ SentInv' /\ CacheInv'
  <2>1. asked[c] \in Txn
    BY <1>t, <1>3 DEF SubmitWait, AskedInv
  <2>2. /\ AddWait(c, asked[c]) /\ rpc' = [rpc EXCEPT ![c] = "done"]
        /\ UNCHANGED <<chain, height, cached, sent, asked, net, pc>>
    BY <1>3 DEF SubmitWait
  <2>3. MempoolTypeOK' /\ Kept' /\ leased' = leased
    BY <1>t, <2>1, <2>2, InsertStep DEF AddWait, Reply, Kept
  <2> QED BY <1>t, <2>2, <2>3 DEF SentInv, CacheInv
<1>4. ASSUME NEW k \in Txn, ReceiveTransaction(k)
      PROVE  TypeOK' /\ Kept' /\ SentInv' /\ CacheInv'
  <2>1. /\ sent' = sent \cup {k} /\ net' = k
        /\ UNCHANGED <<txns, sender, pool, leased, reply, chain, height, cached, rpc, asked, pc>>
    BY <1>4 DEF ReceiveTransaction, mempool
  <2>2. sent' \subseteq Txn /\ SentInv'
    BY <1>s, <2>1
  <2> QED BY <1>t, <2>1, <2>2 DEF Kept, CacheInv
<1>5. ASSUME ReceiveAdd PROVE TypeOK' /\ Kept' /\ SentInv' /\ CacheInv'
  <2>1. /\ net \in Txn /\ net' = NoTxn /\ Add(net)
        /\ UNCHANGED <<chain, height, cached, sent, rpc, asked, pc>>
    BY <1>t, <1>5 DEF ReceiveAdd
  <2>2. MempoolTypeOK' /\ Kept' /\ leased' = leased
    <3>1. CASE UNCHANGED <<txns, sender, pool, leased, reply>>
      BY <1>t, <3>1 DEF Kept
    <3>2. CASE Insert(net, NoClient) /\ reply' = reply
      BY <1>t, <2>1, <3>2, InsertStep
    <3> QED BY <2>1, <3>1, <3>2 DEF Add
  <2> QED BY <1>t, <2>1, <2>2 DEF SentInv, CacheInv
<1> QED BY <1>1, <1>2, <1>3, <1>4, <1>5
\* So do the blocks, whatever order they arrive in: a key that leaves the pool is in
\* the lease of the block that named it, or is no transaction any more.
LEMMA BlockStep ==
    ASSUME IInv,
           \/ \E K \in SUBSET Txn : Produce(K)
           \/ \E h \in Lease : ReceiveProposal(h)
           \/ TickCommit \/ TickFree
    PROVE  TypeOK' /\ Kept' /\ SentInv' /\ CacheInv'
<1> USE DEF TypeOK, MempoolTypeOK
<1>t. TypeOK /\ AskedInv /\ SentInv /\ CacheInv /\ Kept
  BY DEF IInv
<1>c. /\ Len(chain) \in 0..MaxBlocks /\ DOMAIN chain = 1..Len(chain)
      /\ \A i \in DOMAIN chain : chain[i] \in SUBSET Txn
  BY <1>t, LenProperties, ElementOfSeq
<1>l. Lease = 1..MaxBlocks /\ MaxBlocks \in Nat
  BY FollowerAssumption
<1>1. ASSUME NEW K \in SUBSET Txn, Produce(K)
      PROVE  TypeOK' /\ Kept' /\ SentInv' /\ CacheInv'
  <2>1. /\ chain' = Append(chain, K) /\ Len(chain) < MaxBlocks /\ K \subseteq sent
        /\ UNCHANGED <<txns, sender, pool, leased, reply, height, cached, sent, rpc, asked, net, pc>>
    BY <1>1 DEF Produce, mempool
  <2>2. /\ chain' \in Seq(SUBSET Txn) /\ Len(chain') = Len(chain) + 1
        /\ \A i \in 1..Len(chain) : chain'[i] = chain[i]
        /\ chain'[Len(chain) + 1] = K
    BY <1>t, <2>1, AppendProperties
  <2>3. DOMAIN chain' = 1..(Len(chain) + 1)
    BY <2>2, LenProperties
  <2>4. /\ Len(chain') <= MaxBlocks /\ DOMAIN chain \subseteq DOMAIN chain'
        /\ height <= Len(chain')
        /\ \A i \in DOMAIN chain' : i = Len(chain) + 1 \/ i \in DOMAIN chain
    BY <1>c, <1>l, <1>t, <2>1, <2>2, <2>3 DEF CacheInv
  <2>5. SentInv'
    BY <1>c, <1>t, <2>1, <2>2, <2>4 DEF SentInv
  <2>6. CacheInv'
    BY <1>t, <2>1, <2>4 DEF CacheInv
  <2> QED BY <1>t, <2>1, <2>2, <2>4, <2>5, <2>6 DEF Kept
<1>2. ASSUME NEW h \in Lease, ReceiveProposal(h)
      PROVE  TypeOK' /\ Kept' /\ SentInv' /\ CacheInv'
  <2>1. /\ h \in DOMAIN chain /\ LeaseTxns(h, chain[h])
        /\ cached' \in {cached \cup {h}, cached}
        /\ leased' = [leased EXCEPT ![h] = @ \cup chain[h]]
        /\ UNCHANGED <<txns, sender, reply, chain, height, sent, rpc, asked, net, pc>>
    BY <1>2 DEF ReceiveProposal, LeaseTxns
  <2>2. pool' \in Seq(Txn) /\ Keys(pool) \ chain[h] \subseteq Keys(pool')
    BY <1>t, <2>1, LeaseTxnsPool
  <2>3. leased' \in [Lease -> SUBSET Txn]
    BY <1>c, <1>t, <2>1
  <2>4. SentInv'
    BY <1>t, <2>1 DEF SentInv
  <2>5. CacheInv'
    BY <1>t, <2>1 DEF CacheInv
  <2>6. Kept'
    <3> SUFFICES ASSUME NEW k \in txns', k \notin Keys(pool')
                 PROVE  \E l \in Lease : k \in leased'[l]
      BY DEF Kept
    <3>1. CASE k \in chain[h]
      BY <1>t, <2>1, <3>1
    <3>2. CASE k \notin chain[h]
      <4>1. PICK l \in Lease : k \in leased[l]
        BY <1>t, <2>1, <2>2, <3>2 DEF Kept
      <4> QED BY <1>t, <2>1, <4>1
    <3> QED BY <3>1, <3>2
  <2> QED BY <1>t, <2>1, <2>2, <2>3, <2>4, <2>5, <2>6
<1>3. ASSUME TickCommit PROVE TypeOK' /\ Kept' /\ SentInv' /\ CacheInv'
  <2> DEFINE K == chain[height + 1]
  <2>1. /\ height + 1 \in cached /\ height' = height + 1 /\ pc' = "free"
        /\ cached' = {h \in cached : h > height} /\ Commit(height + 1, K, "ok")
        /\ UNCHANGED <<chain, sent, rpc, asked, net>>
    BY <1>3 DEF TickCommit
  <2>2. height + 1 \in DOMAIN chain /\ height + 1 \in Lease
    BY <1>t, <1>c, <1>l, <2>1 DEF CacheInv
  <2> HIDE DEF K
  <2>3. pool' \in Seq(Txn) /\ Keys(pool) \ K \subseteq Keys(pool')
    BY <1>t, <2>1, CommitPool
  <2>4. /\ txns' = txns \ K /\ leased' = [leased EXCEPT ![height + 1] = @ \ K]
        /\ sender' \in [Txn -> Client \cup {NoClient}] /\ reply' \in [Client -> Reply]
    BY <1>t, <2>1 DEF Commit, Reply
  <2>5. SentInv'
    BY <1>t, <2>1, <2>2, <2>4 DEF SentInv
  <2>6. CacheInv'
    BY <1>c, <1>t, <2>1, <2>2 DEF CacheInv
  <2>7. Kept'
    <3> SUFFICES ASSUME NEW k \in txns', k \notin Keys(pool')
                 PROVE  \E l \in Lease : k \in leased'[l]
      BY DEF Kept
    <3>1. k \in txns /\ k \notin K /\ k \notin Keys(pool)
      BY <2>3, <2>4
    <3>2. PICK l \in Lease : k \in leased[l]
      BY <1>t, <3>1 DEF Kept
    <3> QED BY <1>t, <2>2, <2>4, <3>1, <3>2
  <2>8. height' \in 0..MaxBlocks /\ leased' \in [Lease -> SUBSET Txn]
    BY <1>l, <1>t, <2>1, <2>2, <2>4
  <2> QED BY <1>t, <2>1, <2>3, <2>4, <2>5, <2>6, <2>7, <2>8
<1>4. ASSUME TickFree PROVE TypeOK' /\ Kept' /\ SentInv' /\ CacheInv'
  <2>1. /\ Free(height) /\ height \in Lease /\ pc' = "idle"
        /\ leased' = [leased EXCEPT ![height] = {}]
        /\ UNCHANGED <<txns, sender, reply, chain, height, cached, sent, rpc, asked, net>>
    BY <1>4, <1>t DEF TickFree, Free, CacheInv
  <2>2. IsFiniteSet(leased[height]) /\ leased[height] \subseteq Txn
    BY <1>t, <2>1, FS_Subset DEF SentInv
  <2>3. pool' \in Seq(Txn) /\ Keys(pool') = Keys(pool) \cup leased[height]
    BY <1>t, <2>1, <2>2, FreePool
  <2>4. SentInv' /\ CacheInv'
    BY <1>t, <2>1 DEF SentInv, CacheInv
  <2>5. Kept'
    BY <1>t, <2>1, <2>3 DEF Kept
  <2> QED BY <1>t, <2>1, <2>3, <2>4, <2>5
<1> QED BY <1>1, <1>2, <1>3, <1>4
-----------------------------------------------------------------------------
\* Requests wait for the transaction they brought.
LEMMA SenderStep ==
    ASSUME IInv, [Next]_vars
    PROVE  AskedInv' /\ SenderInv'
<1> USE DEF TypeOK, MempoolTypeOK
<1>t. TypeOK /\ AskedInv /\ SenderInv /\ CacheInv
  BY DEF IInv
<1>n. NoTxn \notin Txn /\ NoClient \notin Client
  BY FollowerAssumption, MempoolAssumption
<1>1. ASSUME NEW c \in Client, NEW k \in Txn, Submit(c, k) PROVE AskedInv' /\ SenderInv'
  <2>1. /\ rpc[c] = "idle" /\ asked' = [asked EXCEPT ![c] = k]
        /\ \/ rpc' = [rpc EXCEPT ![c] = "validated"]
           \/ rpc' = [rpc EXCEPT ![c] = "refused"]
        /\ UNCHANGED <<txns, sender, reply>>
    BY <1>1 DEF Submit, mempool
  <2>2. AskedInv'
    BY <1>n, <1>t, <2>1 DEF AskedInv
  <2>3. SenderInv'
    BY <1>t, <2>1 DEF SenderInv
  <2> QED BY <2>2, <2>3
<1>2. ASSUME NEW c \in Client, SubmitSend(c) PROVE AskedInv' /\ SenderInv'
  <2>1. /\ rpc[c] = "validated" /\ rpc' = [rpc EXCEPT ![c] = "sent"]
        /\ UNCHANGED <<txns, sender, reply, asked>>
    BY <1>2 DEF SubmitSend, mempool
  <2> QED BY <1>t, <2>1 DEF AskedInv, SenderInv
<1>3. ASSUME NEW c \in Client, SubmitWait(c) PROVE AskedInv' /\ SenderInv'
  <2>1. /\ rpc[c] = "sent" /\ rpc' = [rpc EXCEPT ![c] = "done"]
        /\ AddWait(c, asked[c]) /\ asked' = asked
    BY <1>3 DEF SubmitWait
  <2>2. AskedInv' /\ asked[c] \in Txn
    BY <1>t, <2>1 DEF AskedInv
  <2>3. \A k \in txns : sender[k] # c
    <3> SUFFICES ASSUME NEW k \in txns, sender[k] = c PROVE FALSE
      OBVIOUS
    <3>1. c # NoClient
      BY <1>n
    <3>2. rpc[sender[k]] = "done"
      BY <1>t, <3>1 DEF SenderInv
    <3> QED BY <2>1, <3>2
  <2>4. CASE reply' = [reply EXCEPT ![c] = "closed"] /\ UNCHANGED <<txns, sender>>
    BY <1>t, <2>1, <2>2, <2>3, <2>4 DEF SenderInv
  <2>5. CASE /\ asked[c] \notin txns /\ Insert(asked[c], c)
             /\ reply' = [reply EXCEPT ![c] = "waiting"]
    <3>1. txns' = txns \cup {asked[c]} /\ sender' = [sender EXCEPT ![asked[c]] = c]
      BY <2>5 DEF Insert
    <3> QED BY <1>t, <2>1, <2>2, <2>3, <2>5, <3>1 DEF SenderInv
  <2> QED BY <2>1, <2>4, <2>5 DEF AddWait
<1>4. ASSUME ReceiveAdd PROVE AskedInv' /\ SenderInv'
  <2>1. net \in Txn /\ Add(net) /\ UNCHANGED <<rpc, asked, reply>>
    BY <1>t, <1>4 DEF ReceiveAdd, Add
  <2>2. CASE UNCHANGED <<txns, sender>>
    BY <1>t, <2>1, <2>2 DEF AskedInv, SenderInv
  <2>3. CASE net \notin txns /\ txns' = txns \cup {net}
             /\ sender' = [sender EXCEPT ![net] = NoClient]
    BY <1>n, <1>t, <2>1, <2>3 DEF AskedInv, SenderInv
  <2> QED BY <2>1, <2>2, <2>3 DEF Add, Insert
<1>5. ASSUME TickCommit PROVE AskedInv' /\ SenderInv'
  <2>1. PICK K : Commit(height + 1, K, "ok")
    BY <1>5 DEF TickCommit
  <2>2. UNCHANGED <<rpc, asked>>
    BY <1>5 DEF TickCommit
  <2>3. /\ txns' = txns \ K
        /\ \A k \in txns' : sender'[k] = sender[k]
        /\ \A c \in Client : reply'[c] =
              IF \E k \in K \cap txns : sender[k] = c THEN "ok" ELSE reply[c]
    BY <1>t, <2>1 DEF Commit
  <2>4. ASSUME NEW c \in Client, reply'[c] # "none" PROVE rpc'[c] = "done"
    BY <1>n, <1>t, <2>2, <2>3, <2>4 DEF SenderInv
  <2>5. ASSUME NEW c \in Client, reply'[c] = "waiting"
        PROVE  \E k \in txns' : sender'[k] = c
    <3>1. reply[c] = "waiting" /\ ~\E k \in K \cap txns : sender[k] = c
      BY <2>3, <2>5
    <3> QED BY <1>t, <2>3, <3>1 DEF SenderInv
  <2>6. ASSUME NEW k \in txns', sender'[k] # NoClient
        PROVE  /\ asked'[sender'[k]] = k /\ rpc'[sender'[k]] = "done"
               /\ reply'[sender'[k]] = "waiting"
    <3>1. k \in txns \ K /\ sender'[k] = sender[k] /\ sender[k] \in Client
      BY <1>t, <2>3, <2>6
    <3>2. ~\E m \in K \cap txns : sender[m] = sender[k]
      BY <1>t, <1>n, <3>1 DEF SenderInv
    <3> QED BY <1>t, <1>n, <2>2, <2>3, <3>1, <3>2 DEF SenderInv
  <2> QED BY <1>t, <2>2, <2>4, <2>5, <2>6 DEF AskedInv, SenderInv
<1>6. ASSUME \/ \E k \in Txn : ReceiveTransaction(k)
             \/ \E K \in SUBSET Txn : Produce(K)
             \/ \E h \in Lease : ReceiveProposal(h)
             \/ TickFree \/ UNCHANGED vars
      PROVE  AskedInv' /\ SenderInv'
  <2>1. UNCHANGED <<txns, sender, reply, rpc, asked>>
    BY <1>6 DEF ReceiveTransaction, Produce, ReceiveProposal, LeaseTxns, TickFree, Free, vars,
                mempool, follower
  <2> QED BY <1>t, <2>1 DEF AskedInv, SenderInv
<1> QED BY <1>1, <1>2, <1>3, <1>4, <1>5, <1>6 DEF Next

\* A follower that starts with nothing.
LEMMA IInvInit == Init => IInv
<1> SUFFICES ASSUME Init PROVE IInv
  OBVIOUS
<1>1. chain = <<>> /\ chain \in Seq(SUBSET Txn) /\ Len(chain) = 0 /\ DOMAIN chain = {}
  BY DEF Init
<1>2. MaxBlocks \in Nat /\ Lease = 1..MaxBlocks /\ NoTxn \notin Txn
  BY FollowerAssumption
<1>3. TypeOK
  BY <1>1, <1>2 DEF Init, MempoolInit, TypeOK, MempoolTypeOK, Reply
<1>4. IsFiniteSet(sent)
  BY FS_EmptySet DEF Init
<1> QED BY <1>1, <1>2, <1>3, <1>4
        DEF Init, MempoolInit, IInv, AskedInv, SentInv, CacheInv, SenderInv, Kept

\* Every request, block and tick keeps the invariant.
LEMMA IInvStep ==
    ASSUME IInv, [Next]_vars
    PROVE  IInv'
<1>1. CASE Next
  <2>1. TypeOK' /\ Kept' /\ SentInv' /\ CacheInv'
    BY <1>1, InputStep, BlockStep DEF Next
  <2> QED BY <2>1, SenderStep DEF IInv
<1>2. CASE UNCHANGED vars
  BY <1>2, SenderStep DEF IInv, TypeOK, MempoolTypeOK, Kept, SentInv, CacheInv, vars, mempool, follower
<1> QED BY <1>1, <1>2

\* The mempool of a follower loses no transaction, whatever order blocks arrive in
\* and however often: lease_txns moves it to the lease of a block, free moves it back.
THEOREM NothingLostHolds == Spec => []NothingLost
<1>1. Init => IInv
  BY IInvInit
<1>2. IInv /\ [Next]_vars => IInv'
  BY IInvStep
<1>3. IInv => NothingLost
  BY DEF IInv, Kept, NothingLost
<1> QED BY <1>1, <1>2, <1>3, PTL DEF Spec
-----------------------------------------------------------------------------
\* What a node has confirmed it has confirmed for good.
LEMMA CommittedGrows ==
    ASSUME IInv, [Next]_vars
    PROVE  /\ CommittedTo(height) \subseteq CommittedTo(height)'
           /\ height' # height => TickCommit
           /\ height' = height => CommittedTo(height)' = CommittedTo(height)
<1>t. TypeOK /\ CacheInv
  BY DEF IInv
<1>c. /\ DOMAIN chain = 1..Len(chain) /\ Len(chain) \in Nat
      /\ height \in Nat /\ height <= Len(chain)
  BY <1>t, LenProperties, FollowerAssumption DEF TypeOK, CacheInv
<1>1. height' = height \/ (TickCommit /\ height' = height + 1 /\ chain' = chain)
  BY DEF Next, Submit, SubmitSend, SubmitWait, ReceiveTransaction, ReceiveAdd, Produce,
         ReceiveProposal, TickCommit, TickFree, vars, follower
<1>2. \A i \in 1..height : chain'[i] = chain[i]
  <2>1. CASE \E K \in SUBSET Txn : chain' = Append(chain, K)
    <3>1. PICK K \in SUBSET Txn : chain' = Append(chain, K)
      BY <2>1
    <3>2. \A i \in 1..Len(chain) : chain'[i] = chain[i]
      BY <1>t, <3>1, AppendProperties DEF TypeOK
    <3> QED BY <1>c, <3>2
  <2>2. CASE chain' = chain
    BY <2>2
  <2>3. chain' = chain \/ \E K \in SUBSET Txn : chain' = Append(chain, K)
    BY DEF Next, Submit, SubmitSend, SubmitWait, ReceiveTransaction, ReceiveAdd, Produce,
           ReceiveProposal, TickCommit, TickFree, vars, follower
  <2> QED BY <2>1, <2>2, <2>3
<1>3. 1..height \subseteq 1..height'
  BY <1>1, <1>c
<1>4. CommittedTo(height) \subseteq CommittedTo(height)'
  BY <1>2, <1>3 DEF CommittedTo
<1>5. height' = height => CommittedTo(height)' = CommittedTo(height)
  BY <1>2 DEF CommittedTo
<1> QED BY <1>1, <1>4, <1>5

\* The tick worker tells those who wait for the block, and no one else, "ok".
LEMMA OkStep ==
    ASSUME IInv, [Next]_vars, NEW c \in Client
    PROVE  /\ reply'[c] = "ok" =>
                \/ reply[c] = "ok"
                \/ TickCommit /\ asked[c] \in chain[height + 1]
           /\ reply'[c] = "ok" => asked'[c] = asked[c]
           /\ TickCommit /\ reply[c] = "waiting" /\ asked[c] \in chain[height + 1]
                => reply'[c] = "ok"
<1>t. TypeOK /\ MempoolTypeOK /\ SenderInv
  BY DEF IInv, TypeOK
<1>n. NoClient \notin Client
  BY MempoolAssumption
<1>1. CASE TickCommit
  <2> DEFINE K == chain[height + 1]
  <2>1. Commit(height + 1, K, "ok") /\ asked' = asked
    BY <1>1 DEF TickCommit
  <2> HIDE DEF K
  <2>2. reply'[c] = IF \E k \in K \cap txns : sender[k] = c THEN "ok" ELSE reply[c]
    BY <2>1 DEF Commit
  <2>3. ASSUME NEW k \in K \cap txns, sender[k] = c PROVE asked[c] \in K
    BY <1>n, <1>t, <2>3 DEF SenderInv
  <2>4. ASSUME reply[c] = "waiting", asked[c] \in K
        PROVE  \E k \in K \cap txns : sender[k] = c
    BY <1>n, <1>t, <2>4 DEF SenderInv
  <2>5. /\ reply'[c] = "ok" => reply[c] = "ok" \/ asked[c] \in K
        /\ reply[c] = "waiting" /\ asked[c] \in K => reply'[c] = "ok"
    BY <2>2, <2>3, <2>4
  <2> QED BY <1>1, <2>1, <2>5 DEF K
<1>2. CASE ~TickCommit
  <2>1. ASSUME NEW d \in Client, NEW k \in Txn, Submit(d, k)
        PROVE  reply' = reply /\ (reply[c] # "none" => asked'[c] = asked[c])
    <3>1. rpc[d] = "idle" /\ asked' = [asked EXCEPT ![d] = k] /\ reply' = reply
      BY <2>1 DEF Submit, mempool
    <3> QED BY <1>t, <3>1 DEF SenderInv, TypeOK
  <2>2. ASSUME NEW d \in Client, SubmitWait(d)
        PROVE  asked' = asked /\ (reply'[c] = "ok" => reply[c] = "ok")
    BY <1>t, <2>2 DEF SubmitWait, AddWait, MempoolTypeOK
  <2>3. \/ \E d \in Client : \E k \in Txn : Submit(d, k)
        \/ \E d \in Client : SubmitWait(d)
        \/ UNCHANGED <<asked, reply>>
    BY <1>2 DEF Next, SubmitSend, ReceiveTransaction, ReceiveAdd, Add, Produce, ReceiveProposal,
                LeaseTxns, TickFree, Free, vars, mempool, follower
  <2> QED BY <1>2, <2>1, <2>2, <2>3
<1> QED BY <1>1, <1>2

\* A follower's "ok" means that the node has confirmed the transaction's block.
THEOREM OkIsCommittedHolds == Spec => []OkIsCommitted
<1>1. Init => OkIsCommitted
  BY DEF Init, MempoolInit, OkIsCommitted
<1>2. IInv /\ OkIsCommitted /\ [Next]_vars => OkIsCommitted'
  <2> SUFFICES ASSUME IInv, OkIsCommitted, [Next]_vars, NEW c \in Client, reply'[c] = "ok"
               PROVE  asked'[c] \in CommittedTo(height)'
    BY DEF OkIsCommitted
  <2>1. asked'[c] = asked[c]
    BY OkStep
  <2>2. CASE reply[c] = "ok"
    BY <2>1, <2>2, CommittedGrows DEF OkIsCommitted
  <2>3. CASE TickCommit /\ asked[c] \in chain[height + 1]
    <3>1. height' = height + 1 /\ chain' = chain /\ height \in Nat
      BY <2>3, FollowerAssumption DEF TickCommit, IInv, TypeOK
    <3>2. height' \in 1..height'
      BY <3>1
    <3> QED BY <2>1, <2>3, <3>1, <3>2 DEF CommittedTo
  <2> QED BY <2>2, <2>3, OkStep
<1> QED BY <1>1, <1>2, IInvInit, IInvStep, PTL DEF Spec

\* The step that confirms a block answers every request that waits for one of its
\* transactions, wherever lease_txns and free have put the key.
THEOREM ReleasedByCommitHolds == Spec => ReleasedByCommit
<1> DEFINE Released(c) ==
        /\ reply[c] = "waiting"
        /\ asked[c] \in UNION {chain'[i] : i \in 1..height'}
        /\ asked[c] \notin CommittedTo(height)
        => reply'[c] = "ok"
<1>1. ASSUME IInv, [Next]_vars, NEW c \in Client PROVE Released(c)
  <2> SUFFICES ASSUME reply[c] = "waiting", asked[c] \in CommittedTo(height)',
                      asked[c] \notin CommittedTo(height)
               PROVE  reply'[c] = "ok"
    <3>1. CommittedTo(height)' = UNION {chain'[i] : i \in 1..height'}
      BY DEF CommittedTo
    <3> QED BY <3>1
  <2>1. TickCommit
    BY <1>1, CommittedGrows
  <2>2. height' = height + 1 /\ chain' = chain /\ height \in Nat
    BY <1>1, <2>1, FollowerAssumption DEF TickCommit, IInv, TypeOK
  <2>3. \A i \in 1..height' : i = height + 1 \/ i \in 1..height
    BY <2>2
  <2>4. asked[c] \in chain[height + 1]
    BY <2>2, <2>3 DEF CommittedTo
  <2> QED BY <1>1, <2>1, <2>4, OkStep
<1>2. IInv /\ [Next]_vars => \A c \in Client : Released(c)
  BY <1>1
<1> QED BY <1>2, IInvInit, IInvStep, PTL DEF Spec, ReleasedByCommit
=============================================================================
