--------------------------- MODULE FollowerMempool ---------------------------
(***************************************************************************)
(* The mempool of a node that does not produce blocks: clients submit      *)
(* transactions to it, it passes them on to the validator, and it learns   *)
(* what became of them from the validator's blocks. Blocks may arrive out  *)
(* of order and more than once.                                            *)
(***************************************************************************)
EXTENDS Mempool

CONSTANTS NoTxn,
          MaxBlocks   \* bound: number of blocks the validator produces

ASSUME FollowerAssumption ==
    /\ NoTxn \notin Txn
    /\ MaxBlocks \in Nat
    /\ Lease = 1..MaxBlocks

VARIABLES
    chain,      \* the validator's blocks, each a set of transactions
    height,     \* block_cache.height of this node
    cached,     \* heights of the blocks in block_cache
    sent,       \* transactions the validator may have heard of
    rpc, asked, \* the submit_txn handler of each client
    net,        \* the transaction the network handler has validated, if any
    pc          \* the tick worker

follower == <<chain, height, cached, sent, rpc, asked, net, pc>>
vars == <<mempool, follower>>

CommittedTo(h) == UNION {chain[i] : i \in 1..h}

(* validate_txn: no leaf of the transaction is in the tree after block h.  *)
Unspent(k, h) ==
    \A m \in CommittedTo(h) : ChangesOf[k] \cap ChangesOf[m] = {}

TypeOK ==
    /\ MempoolTypeOK
    /\ chain \in Seq(SUBSET Txn) /\ Len(chain) <= MaxBlocks
    /\ height \in 0..MaxBlocks
    /\ cached \subseteq Lease
    /\ sent \subseteq Txn
    /\ rpc \in [Client -> {"idle", "validated", "sent", "refused", "done"}]
    /\ asked \in [Client -> Txn \cup {NoTxn}]
    /\ net \in Txn \cup {NoTxn}
    /\ pc \in {"idle", "free"}

Init ==
    /\ MempoolInit
    /\ chain = <<>> /\ height = 0 /\ cached = {} /\ sent = {}
    /\ rpc = [c \in Client |-> "idle"]
    /\ asked = [c \in Client |-> NoTxn]
    /\ net = NoTxn /\ pc = "idle"
-----------------------------------------------------------------------------
(* submit_transaction_and_wait: validate_transaction, send_all, add_wait.  *)
Submit(c, k) ==
    /\ rpc[c] = "idle"
    /\ asked' = [asked EXCEPT ![c] = k]
    /\ rpc' = [rpc EXCEPT ![c] =
                  IF Unspent(k, height) THEN "validated" ELSE "refused"]
    /\ UNCHANGED <<mempool, chain, height, cached, sent, net, pc>>

SubmitSend(c) ==
    /\ rpc[c] = "validated"
    /\ sent' = sent \cup {asked[c]}
    /\ rpc' = [rpc EXCEPT ![c] = "sent"]
    /\ UNCHANGED <<mempool, chain, height, cached, asked, net, pc>>

SubmitWait(c) ==
    /\ rpc[c] = "sent"
    /\ AddWait(c, asked[c])
    /\ rpc' = [rpc EXCEPT ![c] = "done"]
    /\ UNCHANGED <<chain, height, cached, sent, asked, net, pc>>

(* receive_transaction: a peer passes on a transaction it also sent to the *)
(* validator; it is validated, then added.                                 *)
ReceiveTransaction(k) ==
    /\ net = NoTxn
    /\ Unspent(k, height)
    /\ sent' = sent \cup {k}
    /\ net' = k
    /\ UNCHANGED <<mempool, chain, height, cached, rpc, asked, pc>>

ReceiveAdd ==
    /\ net # NoTxn
    /\ Add(net)
    /\ net' = NoTxn
    /\ UNCHANGED <<chain, height, cached, sent, rpc, asked, pc>>

(* The validator's next block (ValidatorNode): some of the transactions it *)
(* heard of, without conflicts.                                            *)
Produce(K) ==
    /\ Len(chain) < MaxBlocks
    /\ K \subseteq sent
    /\ \A k \in K : Unspent(k, Len(chain))
    /\ \A k, m \in K : k # m => ChangesOf[k] \cap ChangesOf[m] = {}
    /\ chain' = Append(chain, K)
    /\ UNCHANGED <<mempool, height, cached, sent, rpc, asked, net, pc>>

(* Mutation of ReceiveProposal: the mempool commits before the chain does. *)
ReceiveProposalCommits(h) ==
    /\ h \in DOMAIN chain
    /\ cached' = IF h >= height THEN cached \cup {h} ELSE cached
    /\ Commit(h, chain[h], "ok")
    /\ UNCHANGED <<chain, height, sent, rpc, asked, net, pc>>

(* receive_proposal: the cache ignores an old block, lease_txns does not.  *)
ReceiveProposal(h) ==
    /\ h \in DOMAIN chain
    /\ cached' = IF h >= height THEN cached \cup {h} ELSE cached
    /\ LeaseTxns(h, chain[h])
    /\ UNCHANGED <<chain, height, sent, rpc, asked, net, pc>>

(* tick: the next cached block is confirmed and committed; mempool.commit  *)
(* answers those who wait for its transactions.                            *)
TickCommit ==
    /\ pc = "idle" /\ height + 1 \in cached
    /\ height' = height + 1
    /\ cached' = {h \in cached : h > height}
    /\ Commit(height + 1, chain[height + 1], "ok")
    /\ pc' = "free"
    /\ UNCHANGED <<chain, sent, rpc, asked, net>>

TickFree ==
    /\ pc = "free"
    /\ Free(height)
    /\ pc' = "idle"
    /\ UNCHANGED <<chain, height, cached, sent, rpc, asked, net>>

Next ==
    \/ \E c \in Client : \E k \in Txn : Submit(c, k)
    \/ \E c \in Client : SubmitSend(c)
    \/ \E c \in Client : SubmitWait(c)
    \/ \E k \in Txn : ReceiveTransaction(k)
    \/ ReceiveAdd
    \/ \E K \in SUBSET Txn : Produce(K)
    \/ \E h \in Lease : ReceiveProposal(h)
    \/ TickCommit
    \/ TickFree

Spec == Init /\ [][Next]_vars
-----------------------------------------------------------------------------
(* Whatever order blocks arrive in, and however often, a transaction of    *)
(* the mempool never drops out of both the pool and the leases: it stays   *)
(* available until a block commits it.                                     *)
NothingLost ==
    /\ TypeOK
    /\ \A k \in txns : k \in Keys(pool) \/ \E l \in Lease : k \in leased[l]

(* A request is told "ok" only for a transaction that this node committed. *)
OkIsCommitted ==
    \A c \in Client : reply[c] = "ok" => asked[c] \in CommittedTo(height)

(* commit_proposal answers every request that waits for a transaction of   *)
(* the block, also when the transaction was leased to another height or    *)
(* never leased.                                                           *)
ReleasedByCommit ==
    [][\A c \in Client :
        /\ reply[c] = "waiting"
        /\ asked[c] \in UNION {chain'[i] : i \in 1..height'}
        /\ asked[c] \notin CommittedTo(height)
        => reply'[c] = "ok"]_vars
=============================================================================
