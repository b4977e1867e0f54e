------------------------------- MODULE Mempool -------------------------------
(***************************************************************************)
(* The mempool of a node (mempool.rs): transactions waiting for a block,   *)
(* keyed by their hash, and leased to the height of the block they may     *)
(* become part of. Every operation that takes the lock once is one action; *)
(* commit takes it twice (commit, then free) and is two.                   *)
(*                                                                         *)
(* The module has no Next of its own: a validator and a follower use       *)
(* different operations (ValidatorNode, FollowerMempool).                  *)
(***************************************************************************)
EXTENDS Integers, Sequences, FiniteSets

CONSTANTS
    Txn,        \* transactions, by hash
    Client,     \* requests waiting in add_wait
    NoClient,   \* a transaction that nobody waits for
    Lease,      \* block heights
    ChangesOf,  \* the leaves of a transaction, the zero padding included
    MaxCount    \* config.block_txns_count

ASSUME MempoolAssumption ==
    /\ NoClient \notin Client
    /\ DOMAIN ChangesOf = Txn
    /\ MaxCount \in Nat \ {0}

VARIABLES
    txns,    \* keys of the map from keys to transactions
    sender,  \* the request waiting for each key, if any
    pool,    \* VecDeque of keys that are free to be leased
    leased,  \* the keys of each lease
    reply    \* what each request was told

mempool == <<txns, sender, pool, leased, reply>>

Reply == {"none", "waiting", "ok", "err", "closed"}

MempoolTypeOK ==
    /\ txns \subseteq Txn
    /\ sender \in [Txn -> Client \cup {NoClient}]
    /\ pool \in Seq(Txn)
    /\ leased \in [Lease -> SUBSET Txn]
    /\ reply \in [Client -> Reply]

MempoolInit ==
    /\ txns = {} /\ pool = <<>>
    /\ sender = [k \in Txn |-> NoClient]
    /\ leased = [l \in Lease |-> {}]
    /\ reply = [c \in Client |-> "none"]

Keys(s) == {s[i] : i \in DOMAIN s}

(* The subsequence of s at the positions in I.                             *)
Keep(s, I) ==
    [j \in 1..Cardinality(I) |->
        s[CHOOSE i \in I : Cardinality({x \in I : x <= i}) = j]]

(* s without the first occurrence of each key in K.                        *)
DropFirst(s, K) ==
    Keep(s, {i \in DOMAIN s : s[i] \in K => \E j \in 1..(i - 1) : s[j] = s[i]})

(* _add: a key that is already there is left alone.                        *)
Insert(k, c) ==
    /\ txns' = txns \cup {k}
    /\ sender' = [sender EXCEPT ![k] = c]
    /\ pool' = Append(pool, k)
    /\ UNCHANGED leased

(* add: a transaction received from another node.                          *)
Add(k) ==
    /\ \/ k \in txns /\ UNCHANGED <<txns, sender, pool, leased>>
       \/ k \notin txns /\ Insert(k, NoClient)
    /\ UNCHANGED reply

(* add_wait: when the key is already there the sender is dropped, and the  *)
(* receiver fails with "recv error".                                       *)
AddWait(c, k) ==
    \/ /\ k \in txns
       /\ reply' = [reply EXCEPT ![c] = "closed"]
       /\ UNCHANGED <<txns, sender, pool, leased>>
    \/ /\ k \notin txns
       /\ Insert(k, c)
       /\ reply' = [reply EXCEPT ![c] = "waiting"]

(* Mutations of Commit: only keys found in the pool are answered; everyone *)
(* is answered.                                                            *)
CommitPooled(l, K, result) ==
    /\ txns' = txns \ K
    /\ sender' = [k \in Txn |-> IF k \in K THEN NoClient ELSE sender[k]]
    /\ reply' = [c \in Client |->
                    IF \E k \in K \cap Keys(pool) : sender[k] = c THEN result
                    ELSE reply[c]]
    /\ leased' = [leased EXCEPT ![l] = @ \ K]
    /\ pool' = DropFirst(pool, K)

CommitAnswersAll(l, K, result) ==
    /\ txns' = txns \ K
    /\ sender' = [k \in Txn |-> NoClient]
    /\ reply' = [c \in Client |->
                    IF reply[c] = "waiting" THEN result ELSE reply[c]]
    /\ leased' = [leased EXCEPT ![l] = @ \ K]
    /\ pool' = DropFirst(pool, K)

(* commit, first half: the keys leave the mempool, whoever waits for one   *)
(* of them gets its result.                                                *)
Commit(l, K, result) ==
    /\ txns' = txns \ K
    /\ sender' = [k \in Txn |-> IF k \in K THEN NoClient ELSE sender[k]]
    /\ reply' = [c \in Client |->
                    IF \E k \in K \cap txns : sender[k] = c THEN result
                    ELSE reply[c]]
    /\ leased' = [leased EXCEPT ![l] = @ \ K]
    /\ pool' = DropFirst(pool, K)

(* Mutations of Free: the lease stays; its keys do not return.             *)
FreeKeepsLease(l) ==
    /\ \E front \in [1..Cardinality(leased[l]) -> leased[l]] :
        /\ \A i, j \in DOMAIN front : i # j => front[i] # front[j]
        /\ pool' = front \o pool
    /\ UNCHANGED <<txns, sender, leased, reply>>

FreeDrops(l) ==
    /\ leased' = [leased EXCEPT ![l] = {}]
    /\ UNCHANGED <<txns, sender, pool, reply>>

(* commit, second half: what is left of the lease goes to the front of the *)
(* pool, in the order in which a HashSet happens to iterate.               *)
Free(l) ==
    /\ \E front \in [1..Cardinality(leased[l]) -> leased[l]] :
        /\ \A i, j \in DOMAIN front : i # j => front[i] # front[j]
        /\ pool' = front \o pool
    /\ leased' = [leased EXCEPT ![l] = {}]
    /\ UNCHANGED <<txns, sender, reply>>

(* lease_txns: the keys of a received block, known to the node or not.     *)
LeaseTxns(l, K) ==
    /\ pool' = DropFirst(pool, K)
    /\ leased' = [leased EXCEPT ![l] = @ \cup K]
    /\ UNCHANGED <<txns, sender, reply>>

(* Mutation of Popped: no conflict check.                                  *)
PoppedAll(n, B) ==
    /\ B = 1..n
    /\ n <= MaxCount
    /\ n < Len(pool) => n = MaxCount

(* lease_batch pops the first n keys of the pool: it takes (positions B)   *)
(* those that share no change with one taken before, until MaxCount are    *)
(* taken or the pool is empty, and returns the others to the back.         *)
Popped(n, B) ==
    /\ \A i \in 1..n :
        i \in B <=> \A j \in B : j < i =>
                        ChangesOf[pool[i]] \cap ChangesOf[pool[j]] = {}
    /\ Cardinality(B) <= MaxCount
    /\ n < Len(pool) => Cardinality(B) = MaxCount
    /\ Cardinality(B) = MaxCount => n \in B

LeaseBatch(l, n, B) ==
    /\ leased' = [leased EXCEPT ![l] = @ \cup {pool[i] : i \in B}]
    /\ pool' = SubSeq(pool, n + 1, Len(pool)) \o Keep(pool, (1..n) \ B)
    /\ UNCHANGED <<txns, sender, reply>>

(* lease_batch looks up every key it pops: "key not found in txns".        *)
LookupFails(n) == \E i \in 1..n : pool[i] \notin txns
=============================================================================
