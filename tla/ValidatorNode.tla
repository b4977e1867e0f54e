---------------------------- MODULE ValidatorNode ----------------------------
(***************************************************************************)
(* A node in mode Validator: clients and peers put transactions into the   *)
(* mempool while the tick worker turns them into blocks (create_proposal,  *)
(* commit_proposal), and the process may crash between any two steps.      *)
(*                                                                         *)
(* A root is represented by the set of leaves below it. Write errors are   *)
(* left to FollowerStorage.                                                *)
(***************************************************************************)
EXTENDS Mempool

CONSTANTS
    InputsOf, OutputsOf, \* the non-zero leaves of each transaction
    MintBurn,      \* transactions whose validation also asks the contract
    Anchored,      \* transactions with a non-zero recent_root
    NoRoot, NoTxn,
    RootCount,     \* RECENT_ROOT_COUNT
    NumValidators, \* size of the contract's validator set
    SelfIndex,     \* this node's place in it
    MaxEmpty,      \* bound: number of empty blocks
    MaxReceived,   \* bound: number of transactions received from peers
    MaxCrashes     \* bound: number of crashes

ASSUME ValidatorAssumption ==
    /\ MintBurn \subseteq Txn /\ Anchored \subseteq Txn
    /\ RootCount \in Nat \ {0}
    /\ NumValidators \in Nat \ {0}
    /\ SelfIndex \in 0..(NumValidators - 1)
    /\ NoTxn \notin Txn
    /\ \A k \in Txn : InputsOf[k] \cup OutputsOf[k] \subseteq ChangesOf[k]
    /\ \A root \in SUBSET UNION {InputsOf[k] \cup OutputsOf[k] : k \in Txn} :
          root # NoRoot
    /\ MaxEmpty \in Nat /\ MaxReceived \in Nat /\ MaxCrashes \in Nat

VARIABLES
    store,     \* block_store: the transactions of block 1, 2, ...
    disk,      \* the leaves in the tree's database
    tree,      \* notes_tree: the leaves in memory
    height,    \* block_cache.height
    anchor,    \* the recent_root of each transaction, once it exists
    rpc, asked, \* the submit_txn handler of each client
    net,       \* the transaction the network handler has validated, if any
    proc,      \* "up" or "down"
    pc,        \* the tick worker
    batch,     \* the transactions it leased
    next,      \* position of the next one to validate
    bad,       \* the transactions it rejects
    panic,     \* the panic that took the process down, if one did
    received, crashes

chainVars == <<store, disk, tree, height, anchor>>
inputs    == <<rpc, asked, net, received>>
worker    == <<pc, batch, next, bad>>
process   == <<proc, panic, crashes>>
vars      == <<mempool, chainVars, inputs, worker, process>>

LeavesOf(k) == InputsOf[k] \cup OutputsOf[k]

(* Mutation of BlockLeaves: the nullifiers are forgotten.                  *)
BlockOutputs(b) == UNION {OutputsOf[k] : k \in b}

BlockLeaves(b) == UNION {LeavesOf(k) : k \in b}
RootAt(h) == UNION {BlockLeaves(store[i]) : i \in 1..h}
Committed == UNION {store[i] : i \in DOMAIN store}
Target == height + 1

PC == {"idle", "validate", "reject", "freeRejected", "store", "tree",
       "accept", "freeAccepted", "confirm"}

TypeOK ==
    /\ MempoolTypeOK
    /\ store \in Seq(SUBSET Txn)
    /\ disk \subseteq BlockLeaves(Txn) /\ tree \subseteq BlockLeaves(Txn)
    /\ height \in Nat
    /\ anchor \in [Txn -> (SUBSET BlockLeaves(Txn)) \cup {NoRoot}]
    /\ rpc \in [Client -> {"idle", "validated", "refused", "done"}]
    /\ asked \in [Client -> Txn \cup {NoTxn}]
    /\ net \in Txn \cup {NoTxn}
    /\ proc \in {"up", "down"}
    /\ pc \in PC
    /\ batch \in Seq(Txn) /\ next \in Nat \ {0} /\ bad \subseteq Txn
    /\ panic \in {"none", "mempool", "double_spend", "load"}
    /\ received \in 0..MaxReceived /\ crashes \in 0..MaxCrashes

Init ==
    /\ MempoolInit
    /\ store = <<>> /\ disk = {} /\ tree = {} /\ height = 0
    /\ anchor = [k \in Txn |-> NoRoot]
    /\ rpc = [c \in Client |-> "idle"]
    /\ asked = [c \in Client |-> NoTxn]
    /\ net = NoTxn /\ received = 0
    /\ proc = "up" /\ panic = "none" /\ crashes = 0
    /\ pc = "idle" /\ batch = <<>> /\ next = 1 /\ bad = {}
-----------------------------------------------------------------------------
(* validate_txn for height h: the roots of the stored blocks above         *)
(* h - RootCount and up to h are recent.                                   *)
Recent(root, h) ==
    \/ root = NoRoot
    \/ \E i \in DOMAIN store :
        i > h - RootCount /\ i <= h /\ RootAt(i) = root

(* validate_transaction: the root is recent, no leaf is in the tree yet.   *)
Valid(k, root) == Recent(root, height) /\ LeavesOf(k) \cap tree = {}

(* A wallet builds a transaction on the root of some block.                *)
Roots(k) ==
    IF k \in Anchored /\ anchor[k] = NoRoot
    THEN {RootAt(i) : i \in DOMAIN store}
    ELSE {anchor[k]}

(* submit_transaction_and_wait: validate_transaction. The contract may     *)
(* refuse or fail to answer for a mint or a burn.                          *)
Submit(c, k) ==
    /\ proc = "up" /\ rpc[c] = "idle"
    /\ asked' = [asked EXCEPT ![c] = k]
    /\ \E root \in Roots(k) :
        /\ anchor' = [anchor EXCEPT ![k] = root]
        /\ \/ /\ Valid(k, root)
              /\ rpc' = [rpc EXCEPT ![c] = "validated"]
           \/ /\ ~Valid(k, root) \/ k \in MintBurn
              /\ rpc' = [rpc EXCEPT ![c] = "refused"]
    /\ UNCHANGED <<mempool, store, disk, tree, height, net, received, worker,
                   process>>

(* submit_transaction_and_wait: send_all, then add_wait.                   *)
SubmitWait(c) ==
    /\ proc = "up" /\ rpc[c] = "validated"
    /\ AddWait(c, asked[c])
    /\ rpc' = [rpc EXCEPT ![c] = "done"]
    /\ UNCHANGED <<chainVars, asked, net, received, worker, process>>

(* receive_transaction: validate_transaction; what fails is dropped.       *)
ReceiveTransaction(k) ==
    /\ proc = "up" /\ net = NoTxn /\ received < MaxReceived
    /\ received' = received + 1
    /\ \E root \in Roots(k) :
        /\ anchor' = [anchor EXCEPT ![k] = root]
        /\ Valid(k, root)
    /\ net' = k
    /\ UNCHANGED <<mempool, store, disk, tree, height, rpc, asked, worker,
                   process>>

(* receive_transaction: mempool.add                                        *)
ReceiveAdd ==
    /\ proc = "up" /\ net # NoTxn
    /\ Add(net)
    /\ net' = NoTxn
    /\ UNCHANGED <<chainVars, rpc, asked, received, worker, process>>
-----------------------------------------------------------------------------
(* Everything that is not on disk is gone; open requests are cut off.      *)
GoDown(why) ==
    /\ proc' = "down" /\ panic' = why
    /\ txns' = {} /\ pool' = <<>>
    /\ sender' = [k \in Txn |-> NoClient]
    /\ leased' = [l \in Lease |-> {}]
    /\ reply' = [c \in Client |->
                    IF reply[c] = "waiting" \/ rpc[c] = "validated"
                    THEN "closed" ELSE reply[c]]
    /\ rpc' = [c \in Client |-> IF rpc[c] = "validated" THEN "done" ELSE rpc[c]]
    /\ net' = NoTxn
    /\ tree' = {} /\ height' = 0
    /\ pc' = "idle" /\ batch' = <<>> /\ next' = 1 /\ bad' = {}
    /\ UNCHANGED <<store, disk, anchor, asked, received>>

Crash ==
    /\ proc = "up" /\ crashes < MaxCrashes
    /\ crashes' = crashes + 1
    /\ GoDown("none")

(* load_db_and_smirk (FollowerStorage has its steps). A validator stores   *)
(* every block, so only block 1 has no predecessor in the store.           *)
Load ==
    /\ proc = "down" /\ panic # "load"
    /\ \/ /\ disk = RootAt(Len(store))
          /\ disk' = disk /\ tree' = disk
          /\ proc' = "up" /\ height' = Len(store) /\ panic' = "none"
       \/ /\ disk # RootAt(Len(store)) /\ Len(store) > 1
          /\ disk = RootAt(Len(store) - 1)
          /\ disk' = disk \cup BlockLeaves(store[Len(store)]) /\ tree' = disk'
          /\ proc' = "up" /\ height' = Len(store) /\ panic' = "none"
       \/ /\ disk # RootAt(Len(store)) /\ Len(store) = 1
          /\ panic' = "load"
          /\ UNCHANGED <<disk, tree, proc, height>>
    /\ UNCHANGED <<mempool, store, anchor, inputs, worker, crashes>>
-----------------------------------------------------------------------------
(* create_proposal: lease a batch. An empty batch gives an empty block.    *)
TickLease ==
    /\ proc = "up" /\ pc = "idle"
    /\ pool = <<>> => Len(store) < MaxEmpty + Cardinality(Committed)
    /\ \E n \in 0..Len(pool) : \E B \in SUBSET (1..n) :
        /\ Popped(n, B)
        /\ \/ LookupFails(n) /\ GoDown("mempool")
           \/ /\ ~LookupFails(n)
              /\ LeaseBatch(Target, n, B)
              /\ batch' = Keep(pool, B)
              /\ pc' = "validate" /\ next' = 1 /\ bad' = {}
              /\ UNCHANGED <<chainVars, inputs, proc, panic>>
    /\ UNCHANGED crashes

(* create_proposal: the first transaction that fails is the only one that  *)
(* is rejected, the others return to the pool.                             *)
TickValidate ==
    /\ proc = "up" /\ pc = "validate" /\ next <= Len(batch)
    /\ \/ /\ Valid(batch[next], anchor[batch[next]])
          /\ next' = next + 1
          /\ UNCHANGED <<pc, bad>>
       \/ /\ ~Valid(batch[next], anchor[batch[next]]) \/ batch[next] \in MintBurn
          /\ bad' = {batch[next]} /\ pc' = "reject"
          /\ UNCHANGED next
    /\ UNCHANGED <<mempool, chainVars, inputs, process, batch>>

(* BlockContent::validate of the i-th transaction, whose window of recent  *)
(* roots ends at the height of the block itself.                           *)
LeafTwice(i)    == \E j \in 1..(i - 1) :
                       LeavesOf(batch[i]) \cap LeavesOf(batch[j]) # {}
OwnFault(i)     == \/ LeafTwice(i)
                   \/ ~Recent(anchor[batch[i]], Target)
                   \/ InputsOf[batch[i]] \cap tree # {}
OutputExists(i) == OutputsOf[batch[i]] \cap tree # {}
FirstFault(i)   == /\ OwnFault(i) \/ OutputExists(i)
                   /\ \A j \in 1..(i - 1) : ~OwnFault(j) /\ ~OutputExists(j)

(* get_leader_for_block_height: validate_block accepts only its signature. *)
IsLeader(h) == h % NumValidators = SelfIndex

(* create_proposal: validate_block of the block just signed. An error that *)
(* names no transaction is sent to all of them.                            *)
TickValidateBlock ==
    /\ proc = "up" /\ pc = "validate" /\ next > Len(batch)
    /\ \/ /\ IsLeader(Target)
          /\ \A i \in DOMAIN batch : ~OwnFault(i) /\ ~OutputExists(i)
          /\ pc' = "store"
          /\ UNCHANGED bad
       \/ /\ IsLeader(Target)
          /\ \E i \in DOMAIN batch :
                /\ FirstFault(i)
                /\ bad' = IF OwnFault(i) THEN {batch[i]} ELSE Keys(batch)
          /\ pc' = "reject"
       \/ /\ ~IsLeader(Target)
          /\ bad' = Keys(batch) /\ pc' = "reject"
    /\ UNCHANGED <<mempool, chainVars, inputs, process, batch, next>>

(* Mutation of TickReject: the rejected are told they are committed.       *)
TickRejectAsOk ==
    /\ proc = "up" /\ pc = "reject"
    /\ Commit(Target, bad, "ok")
    /\ pc' = "freeRejected"
    /\ UNCHANGED <<chainVars, inputs, process, batch, next, bad>>

TickReject ==
    /\ proc = "up" /\ pc = "reject"
    /\ Commit(Target, bad, "err")
    /\ pc' = "freeRejected"
    /\ UNCHANGED <<chainVars, inputs, process, batch, next, bad>>

TickFreeRejected ==
    /\ proc = "up" /\ pc = "freeRejected"
    /\ Free(Target)
    /\ pc' = "idle" /\ batch' = <<>> /\ bad' = {} /\ next' = 1
    /\ UNCHANGED <<chainVars, inputs, process>>

(* commit_proposal: check the leaves, then block_store.set                 *)
TickStore ==
    /\ proc = "up" /\ pc = "store"
    /\ \/ /\ BlockLeaves(Keys(batch)) \cap tree # {}
          /\ GoDown("double_spend")
       \/ /\ BlockLeaves(Keys(batch)) \cap tree = {}
          /\ store' = [i \in 1..Target \cup DOMAIN store |->
                          IF i = Target THEN Keys(batch) ELSE store[i]]
          /\ pc' = "tree"
          /\ UNCHANGED <<mempool, disk, tree, height, anchor, inputs, proc,
                         panic, batch, next, bad>>
    /\ UNCHANGED crashes

(* commit_proposal: apply_block_to_tree                                    *)
TickTree ==
    /\ proc = "up" /\ pc = "tree"
    /\ tree' = tree \cup BlockLeaves(Keys(batch))
    /\ disk' = disk \cup BlockLeaves(Keys(batch))
    /\ pc' = "accept"
    /\ UNCHANGED <<mempool, store, height, anchor, inputs, process, batch,
                   next, bad>>

TickAccept ==
    /\ proc = "up" /\ pc = "accept"
    /\ Commit(Target, Keys(batch), "ok")
    /\ pc' = "freeAccepted"
    /\ UNCHANGED <<chainVars, inputs, process, batch, next, bad>>

TickFreeAccepted ==
    /\ proc = "up" /\ pc = "freeAccepted"
    /\ Free(Target)
    /\ pc' = "confirm"
    /\ UNCHANGED <<chainVars, inputs, process, batch, next, bad>>

(* create_proposal: block_cache.insert and confirm, then send_all          *)
TickConfirm ==
    /\ proc = "up" /\ pc = "confirm"
    /\ height' = Target
    /\ pc' = "idle" /\ batch' = <<>> /\ next' = 1
    /\ UNCHANGED <<mempool, store, disk, tree, anchor, inputs, process, bad>>

Tick ==
    \/ TickLease
    \/ TickValidate
    \/ TickValidateBlock
    \/ TickReject
    \/ TickFreeRejected
    \/ TickStore
    \/ TickTree
    \/ TickAccept
    \/ TickFreeAccepted
    \/ TickConfirm

Next ==
    \/ \E c \in Client : \E k \in Txn : Submit(c, k)
    \/ \E c \in Client : SubmitWait(c)
    \/ \E k \in Txn : ReceiveTransaction(k)
    \/ ReceiveAdd
    \/ Tick
    \/ Crash
    \/ Load

Spec == Init /\ [][Next]_vars

(* The ticker is rescheduled one second after every proposal.              *)
FairSpec == Spec /\ WF_vars(Tick)
-----------------------------------------------------------------------------
(* The mempool a validator keeps is coherent at every step, also between   *)
(* the two critical sections of commit: a key is in the pool or in one     *)
(* lease, exactly once, and it is one of the transactions; lease_batch     *)
(* cannot meet an unknown key. Leases do not outlive the proposal they     *)
(* were taken for, and a request waits for a transaction that is there.    *)
MempoolCoherent ==
    /\ TypeOK
    /\ panic # "mempool"
    /\ \A i, j \in DOMAIN pool : i # j => pool[i] # pool[j]
    /\ txns = Keys(pool) \cup UNION {leased[l] : l \in Lease}
    /\ \A l \in Lease : leased[l] \cap Keys(pool) = {}
    /\ \A l \in Lease : leased[l] # {} => pc # "idle" /\ l = Target
    /\ \A c \in Client :
        reply[c] = "waiting" <=> \E k \in txns : sender[k] = c

(* No leaf enters the chain twice, neither in one block nor in two, over   *)
(* crashes, restarts and resubmissions (utxo.rs, block.rs).                *)
NoDoubleSpend ==
    /\ panic # "double_spend"
    /\ \A i, j \in DOMAIN store :
        \A k \in store[i] : \A m \in store[j] :
            k # m \/ i # j => LeavesOf(k) \cap LeavesOf(m) = {}

(* A client that was told its transaction is committed finds it in a       *)
(* stored block, also after a crash.                                       *)
OkIsDurable ==
    \A c \in Client : reply[c] = "ok" => asked[c] \in Committed

(* create_proposal rejects no transaction that could still be committed:   *)
(* it is spent, or its root is too old for the block, or the contract does *)
(* not confirm it.                                                         *)
NoInnocentRejected ==
    pc = "reject" =>
        \A k \in bad :
            \/ k \in MintBurn
            \/ LeavesOf(k) \cap tree # {}
            \/ ~Recent(anchor[k], Target)

(* Every request that waits in add_wait is answered, or cut off by the    *)
(* crash that ends its process.                                            *)
EveryRequestAnswered ==
    \A c \in Client : reply[c] = "waiting" ~> reply[c] # "waiting"

(* What the validator promises to its clients.                             *)
Told == [c \in Client |->
            IF rpc[c] = "refused" THEN "refused"
            ELSE IF reply[c] \in {"none", "waiting"} THEN "open" ELSE reply[c]]

Promise == INSTANCE Ledger WITH
               chain <- store, request <- asked, told <- Told,
               Leaves <- [k \in Txn |-> LeavesOf(k)], Retriable <- MintBurn

(* Every step of the mempool, of the tick worker, of a crash and of a      *)
(* start is one that the ledger allows, or changes nothing a client sees:  *)
(* block_store.set only ever appends, no leaf enters the chain twice, and  *)
(* an answer of commit agrees with the chain then and ever after (for mint *)
(* and burn the contract may change its answer after an "err").            *)
ImplementsLedger == Promise!Spec
=============================================================================
