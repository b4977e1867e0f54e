--------------------------- MODULE FollowerStorage ---------------------------
(***************************************************************************)
(* The durable state of a node that follows the chain (modes Node and      *)
(* Prover of node.rs): the block store and the notes tree, the block being *)
(* committed by the tick worker, the fast sync of a prover, and the        *)
(* recovery that load_db_and_smirk performs after a crash.                 *)
(*                                                                         *)
(* A root hash is represented by the set of leaves below it (the hash is   *)
(* taken to be injective), a block by its height: the network only carries *)
(* the blocks of one chain, chosen in the initial state.                   *)
(***************************************************************************)
EXTENDS Integers, FiniteSets

CONSTANTS
    Leaf,         \* the note commitments and nullifiers
    MaxHeight,    \* bound: number of blocks of the chain
    BadBlocks,    \* config.bad_blocks: heights whose validation is skipped
    Prover,       \* TRUE for the modes in which fast sync is used
    ChunkSize,    \* config.sync_chunk_size
    MaxCrashes,   \* bound: number of crashes
    MaxIoErrors   \* bound: number of failed writes

Height == 1..MaxHeight

ASSUME StorageAssumption ==
    /\ MaxHeight \in Nat \ {0}
    /\ BadBlocks \subseteq Height
    /\ Prover \in BOOLEAN
    /\ ChunkSize \in Nat
    /\ MaxCrashes \in Nat
    /\ MaxIoErrors \in Nat

VARIABLES
    chain,     \* the leaves inserted by each block of the network's chain
    store,     \* block_store: the heights of the stored blocks
    disk,      \* the leaves in the tree's database
    tree,      \* notes_tree: the leaves of the tree in memory
    height,    \* block_cache.height
    cached,    \* heights of the blocks in block_cache
    proc,      \* "up", "down", or "reset" between the two renames of a reset
    pc, blk,   \* the tick worker and the block it is committing
    fast,      \* the sync worker: target of the fast sync under way, or 0
    fastPc,    \* "none", "asked", "deliver"
    panic,     \* the panic that took the process down, if one did
    trouble,   \* since the last start a write failed or fast sync overtook
    crashes, ioErrors

durable  == <<store, disk>>
syncer   == <<fast, fastPc>>
budget   == <<crashes, ioErrors>>
vars     == <<chain, store, disk, tree, height, cached, proc, pc, blk,
              fast, fastPc, panic, trouble, crashes, ioErrors>>

PC == {"idle", "fetched", "validated", "confirmed", "checked", "stored"}

(* The leaves below the root of block h of a chain; block 0 is genesis.    *)
Root(c, h) == {l \in Leaf : \E i \in 1..h : l \in c[i]}
RootAt(h)  == Root(chain, h)

(* block_store.get_max_height: the highest stored block, 0 for None.       *)
MaxStored == CHOOSE h \in store \cup {0} : \A i \in store : i <= h

(* A leaf is inserted once, except by a block of config.bad_blocks.        *)
IsChain(c) ==
    \A h \in Height \ BadBlocks :
        \A i \in 1..(h - 1) : c[i] \cap c[h] = {}

TypeOK ==
    /\ chain \in [Height -> SUBSET Leaf] /\ IsChain(chain)
    /\ store \subseteq Height
    /\ disk \subseteq Leaf
    /\ tree \subseteq Leaf
    /\ height \in 0..MaxHeight
    /\ cached \subseteq Height
    /\ proc \in {"up", "down", "reset"}
    /\ pc \in PC
    /\ blk \in 0..MaxHeight
    /\ fast \in 0..MaxHeight
    /\ fastPc \in {"none", "asked", "deliver"}
    /\ panic \in {"none", "double_spend", "load"}
    /\ trouble \in {"none", "write", "race"}
    /\ crashes \in 0..MaxCrashes
    /\ ioErrors \in 0..MaxIoErrors

(* Node::new on an empty directory: no blocks, genesis, an empty tree.     *)
Init ==
    /\ chain \in {c \in [Height -> SUBSET Leaf] : IsChain(c)}
    /\ store = {} /\ disk = {} /\ tree = {}
    /\ height = 0 /\ cached = {}
    /\ proc = "up" /\ pc = "idle" /\ blk = 0
    /\ fast = 0 /\ fastPc = "none"
    /\ panic = "none" /\ trouble = "none"
    /\ crashes = 0 /\ ioErrors = 0
-----------------------------------------------------------------------------
(* The volatile state is gone; what is on disk stays.                      *)
GoDown(why) ==
    /\ proc' = "down"
    /\ panic' = why
    /\ tree' = {} /\ height' = 0 /\ cached' = {}
    /\ pc' = "idle" /\ blk' = 0 /\ fast' = 0 /\ fastPc' = "none"
    /\ trouble' = "none"

Crash ==
    /\ proc \in {"up", "reset"}
    /\ crashes < MaxCrashes
    /\ crashes' = crashes + 1
    /\ GoDown("none")
    /\ UNCHANGED <<chain, store, disk, ioErrors>>

(* receive_proposal, from the network or from a slow snapshot chunk: the   *)
(* cache ignores blocks below the confirmed height.                        *)
ReceiveProposal(h) ==
    /\ proc = "up"
    /\ h >= height /\ h \notin cached
    /\ cached' = cached \cup {h}
    /\ UNCHANGED <<chain, durable, tree, height, proc, pc, blk, syncer,
                   panic, trouble, budget>>

(* block_cache.confirm sets the height, whatever it was before.            *)
Confirm(h) ==
    /\ height' = h
    /\ cached' = {i \in cached : i >= h}

(* Mutation of TickFetch: any later block, not only the next one.          *)
TickFetchLater ==
    /\ proc = "up" /\ pc = "idle"
    /\ \E h \in cached : h > height /\ blk' = h
    /\ pc' = "fetched"
    /\ UNCHANGED <<chain, durable, tree, height, cached, proc, syncer, panic,
                   trouble, budget>>

(* tick: get_next_commit_block                                             *)
TickFetch ==
    /\ proc = "up" /\ pc = "idle"
    /\ height + 1 \in cached
    /\ pc' = "fetched" /\ blk' = height + 1
    /\ UNCHANGED <<chain, durable, tree, height, cached, proc, syncer, panic,
                   trouble, budget>>

(* Mutation of ValidBlock: the promised root is not compared.              *)
ValidLeaves(h) == h \in BadBlocks \/ chain[h] \cap tree = {}

(* validate_block on a block of the chain: its leaves are new to the tree  *)
(* and the root it promises is the one the tree would get.                 *)
ValidBlock(h) ==
    \/ h \in BadBlocks
    \/ /\ chain[h] \cap tree = {}
       /\ tree \cup chain[h] = RootAt(h)

TickValidate ==
    /\ proc = "up" /\ pc = "fetched"
    /\ \/ /\ ValidBlock(blk)
          /\ pc' = "validated"
          /\ UNCHANGED <<blk, cached>>
       \/ /\ ~ValidBlock(blk)
          /\ pc' = "idle" /\ blk' = 0
          /\ cached' = cached \ {blk}
    /\ UNCHANGED <<chain, durable, tree, height, proc, syncer, panic,
                   trouble, budget>>

(* tick confirms the height before commit_proposal makes it durable.       *)
TickConfirm ==
    /\ proc = "up" /\ pc = "validated"
    /\ Confirm(blk)
    /\ pc' = "confirmed"
    /\ trouble' = IF height # blk - 1 THEN "race" ELSE trouble
    /\ UNCHANGED <<chain, durable, tree, proc, blk, syncer, panic, budget>>

Collides(h) == h \notin BadBlocks /\ chain[h] \cap tree # {}

(* commit_proposal: the leaves are checked once more, a collision panics.  *)
CommitCheck ==
    /\ proc = "up" /\ pc = "confirmed"
    /\ \/ /\ Collides(blk)
          /\ GoDown("double_spend")
       \/ /\ ~Collides(blk)
          /\ pc' = "checked"
          /\ UNCHANGED <<tree, height, cached, proc, blk, syncer, panic,
                         trouble>>
    /\ UNCHANGED <<chain, durable, budget>>

(* commit_proposal: block_store.set, one atomic batch. When the write      *)
(* fails the tick returns; the height stays confirmed.                     *)
CommitStore ==
    /\ proc = "up" /\ pc = "checked"
    /\ \/ /\ store' = store \cup {blk}
          /\ pc' = "stored"
          /\ UNCHANGED <<blk, trouble, ioErrors>>
       \/ /\ ioErrors < MaxIoErrors
          /\ ioErrors' = ioErrors + 1
          /\ pc' = "idle" /\ blk' = 0
          /\ trouble' = "write"
          /\ UNCHANGED store
    /\ UNCHANGED <<chain, disk, tree, height, cached, proc, syncer, panic,
                   crashes>>

(* commit_proposal: apply_block_to_tree. The tree in memory is changed     *)
(* before its database is written, so a failed write separates the two.    *)
CommitTree ==
    /\ proc = "up" /\ pc = "stored"
    /\ \/ /\ Collides(blk)
          /\ GoDown("double_spend")
          /\ UNCHANGED <<disk, ioErrors>>
       \/ /\ ~Collides(blk)
          /\ tree' = tree \cup chain[blk]
          /\ pc' = "idle" /\ blk' = 0
          /\ \/ /\ disk' = disk \cup (chain[blk] \ tree)
                /\ UNCHANGED <<trouble, ioErrors>>
             \/ /\ chain[blk] \ tree # {}
                /\ ioErrors < MaxIoErrors
                /\ ioErrors' = ioErrors + 1
                /\ trouble' = "write"
                /\ UNCHANGED disk
          /\ UNCHANGED <<height, cached, proc, syncer, panic>>
    /\ UNCHANGED <<chain, store, crashes>>
-----------------------------------------------------------------------------
(* SyncWorker::handle_out_of_sync: a node that misses a block asks for a   *)
(* fast snapshot when the height h in the contract lies beyond the chunk a *)
(* slow request would cover. The greatest height it has seen may be any.   *)
FastRequest(h) ==
    /\ Prover /\ proc = "up" /\ fastPc = "none"
    /\ \E i \in Height : i > height /\ i \notin cached
    /\ h > height + 1 + ChunkSize
    /\ fast' = h /\ fastPc' = "asked"
    /\ UNCHANGED <<chain, durable, tree, height, cached, proc, pc, blk,
                   panic, trouble, budget>>

(* No offer or no chunk in time, a chunk without its block, or a chunk     *)
(* whose elements do not give the block's root or do not hold its leaves.  *)
FastAbandon ==
    /\ proc = "up" /\ fastPc = "asked"
    /\ fast' = 0 /\ fastPc' = "none"
    /\ UNCHANGED <<chain, durable, tree, height, cached, proc, pc, blk,
                   panic, trouble, budget>>

(* Mutation of FastInsert: the target block's leaves are inserted too.     *)
FastInsertAll ==
    LET missing == RootAt(fast) \ tree IN
    /\ proc = "up" /\ fastPc = "asked"
    /\ tree \subseteq RootAt(fast)
    /\ chain[fast] \subseteq missing
    /\ tree' = tree \cup missing
    /\ disk' = disk \cup missing
    /\ Confirm(fast - 1)
    /\ fastPc' = "deliver"
    /\ trouble' = IF pc \in {"idle", "fetched"} THEN trouble ELSE "race"
    /\ UNCHANGED <<chain, store, proc, pc, blk, fast, panic, budget>>

(* handle_snapshot_chunk_fast, under the tree's write lock: every missing  *)
(* leaf except the target block's own is inserted, the height below the    *)
(* target is confirmed.                                                    *)
FastInsert ==
    LET missing == RootAt(fast) \ tree IN
    /\ proc = "up" /\ fastPc = "asked"
    /\ tree \subseteq RootAt(fast)
    /\ chain[fast] \subseteq missing
    /\ tree' = tree \cup (missing \ chain[fast])
    /\ disk' = disk \cup (missing \ chain[fast])
    /\ Confirm(fast - 1)
    /\ fastPc' = "deliver"
    /\ trouble' = IF pc \in {"idle", "fetched"} THEN trouble ELSE "race"
    /\ UNCHANGED <<chain, store, proc, pc, blk, fast, panic, budget>>

(* insert_batch fails to write: the error ends the sync worker and, with   *)
(* it, Node::run.                                                          *)
FastInsertFails ==
    LET missing == RootAt(fast) \ tree IN
    /\ proc = "up" /\ fastPc = "asked"
    /\ tree \subseteq RootAt(fast)
    /\ chain[fast] \subseteq missing
    /\ missing # chain[fast]
    /\ ioErrors < MaxIoErrors
    /\ ioErrors' = ioErrors + 1
    /\ GoDown("none")
    /\ UNCHANGED <<chain, durable, crashes>>

FastDeliver ==
    /\ proc = "up" /\ fastPc = "deliver"
    /\ cached' = IF fast >= height THEN cached \cup {fast} ELSE cached
    /\ fast' = 0 /\ fastPc' = "none"
    /\ UNCHANGED <<chain, durable, tree, height, proc, pc, blk, panic,
                   trouble, budget>>
-----------------------------------------------------------------------------
(* Node::new on the directories the last process left behind.              *)
Start(h) ==
    /\ proc' = "up"
    /\ height' = h
    /\ cached' = {h} \cap Height
    /\ panic' = "none"
    /\ UNCHANGED <<pc, blk, fast, fastPc, trouble>>

(* No blocks: the tree is moved away and the node starts from genesis.     *)
LoadEmpty ==
    /\ proc = "down" /\ store = {}
    /\ disk' = {} /\ tree' = {}
    /\ Start(0)
    /\ UNCHANGED <<chain, store, budget>>

LoadInSync ==
    /\ proc = "down" /\ store # {}
    /\ disk = RootAt(MaxStored)
    /\ tree' = disk
    /\ Start(MaxStored)
    /\ UNCHANGED <<chain, durable, budget>>

(* The tree does not match the highest block, and there is no block below  *)
(* it to compare with: block_store.get(max_height - 1) is unwrapped.       *)
LoadPanic ==
    /\ proc = "down" /\ store # {} /\ panic # "load"
    /\ disk # RootAt(MaxStored)
    /\ MaxStored - 1 \notin store
    /\ panic' = "load"
    /\ UNCHANGED <<chain, durable, tree, height, cached, proc, pc, blk,
                   syncer, trouble, budget>>

(* Mutations of LoadRecover: the block is not applied; the node starts     *)
(* from the block before it.                                               *)
LoadRecoverUnapplied ==
    /\ proc = "down" /\ store # {}
    /\ disk # RootAt(MaxStored)
    /\ MaxStored - 1 \in store
    /\ disk = RootAt(MaxStored - 1)
    /\ tree' = disk
    /\ Start(MaxStored)
    /\ UNCHANGED <<chain, durable, budget>>

LoadRecoverPrevious ==
    /\ proc = "down" /\ store # {}
    /\ disk # RootAt(MaxStored)
    /\ MaxStored - 1 \in store
    /\ disk = RootAt(MaxStored - 1)
    /\ disk' = disk \cup chain[MaxStored]
    /\ tree' = disk'
    /\ Start(MaxStored - 1)
    /\ UNCHANGED <<chain, store, budget>>

(* The tree is one block behind: the highest block is applied to it.       *)
LoadRecover ==
    /\ proc = "down" /\ store # {}
    /\ disk # RootAt(MaxStored)
    /\ MaxStored - 1 \in store
    /\ disk = RootAt(MaxStored - 1)
    /\ disk' = disk \cup chain[MaxStored]
    /\ tree' = disk'
    /\ Start(MaxStored)
    /\ UNCHANGED <<chain, store, budget>>

(* Mutation of LoadResetDb: also when the tree is one block behind.        *)
LoadResetAnyway ==
    /\ proc = "down" /\ store # {}
    /\ disk # RootAt(MaxStored)
    /\ MaxStored - 1 \in store
    /\ store' = {}
    /\ proc' = "reset"
    /\ UNCHANGED <<chain, disk, tree, height, cached, pc, blk, syncer, panic,
                   trouble, budget>>

(* Anything else: the block store is moved away first, then the tree.      *)
LoadResetDb ==
    /\ proc = "down" /\ store # {}
    /\ disk # RootAt(MaxStored)
    /\ MaxStored - 1 \in store
    /\ disk # RootAt(MaxStored - 1)
    /\ store' = {}
    /\ proc' = "reset"
    /\ UNCHANGED <<chain, disk, tree, height, cached, pc, blk, syncer, panic,
                   trouble, budget>>

LoadResetSmirk ==
    /\ proc = "reset"
    /\ disk' = {} /\ tree' = {}
    /\ Start(0)
    /\ UNCHANGED <<chain, store, budget>>

Load ==
    \/ LoadEmpty
    \/ LoadInSync
    \/ LoadPanic
    \/ LoadRecover
    \/ LoadResetDb
    \/ LoadResetSmirk

Tick ==
    \/ TickFetch
    \/ TickValidate
    \/ TickConfirm
    \/ CommitCheck
    \/ CommitStore
    \/ CommitTree

Next ==
    \/ \E h \in Height : ReceiveProposal(h)
    \/ Tick
    \/ \E h \in Height : FastRequest(h)
    \/ FastAbandon
    \/ FastInsert
    \/ FastInsertFails
    \/ FastDeliver
    \/ Crash
    \/ Load

Spec == Init /\ [][Next]_vars

(* What the scheduling gives: the ticker runs again after every received   *)
(* block, a node that is down is started again, and the slow sync keeps    *)
(* asking until the block above the confirmed height arrives.              *)
Fairness ==
    /\ WF_vars(Tick)
    /\ WF_vars(Load)
    /\ \A h \in Height : WF_vars(h = height + 1 /\ ReceiveProposal(h))

FairSpec == Spec /\ Fairness
-----------------------------------------------------------------------------
(* commit_proposal, load_db_and_smirk and the fast sync keep the confirmed *)
(* height, the tree in memory and the tree's database on the same block:   *)
(* between two ticks all three describe block `height`, inside a commit    *)
(* the trees are exactly one block behind. After a failed write or a fast  *)
(* sync in the middle of a commit this is promised again only by the next  *)
(* start.                                                                  *)
Agreement ==
    proc = "up" /\ trouble = "none" =>
        /\ disk = tree
        /\ tree = IF pc \in {"confirmed", "checked", "stored"}
                  THEN RootAt(height - 1)
                  ELSE RootAt(height)

(* Without config.bad_blocks, no failed write and no race between the fast *)
(* sync and a commit ever leaves a set of leaves in the node's tree that   *)
(* is not the state of the chain after some block.                         *)
TreeIsPrefix ==
    proc = "up" => \E k \in 0..MaxHeight : tree = RootAt(k)

(* When every write succeeds and fast sync is not used, the only block     *)
(* whose interrupted commit load_db_and_smirk cannot repair is the first   *)
(* one.                                                                    *)
LoadPanicsOnlyAtFirstBlock ==
    panic = "load" => store = {1} /\ chain[1] # {}

(* When every write succeeds and fast sync is not used, no restart takes   *)
(* the "too far out of sync" branch: a stored block is never given up.     *)
NoBlockLost == [][store \subseteq store']_vars

(* proposal.rs and block.rs: a double spend found while committing "should *)
(* never happen, this should have been caught before commit".              *)
DoubleSpendCaughtBeforeCommit == panic # "double_spend"

(* If the first block is empty, a node whose writes succeed ends up with   *)
(* the whole chain, however its crashes fall between the steps of a commit *)
(* or of a recovery.                                                       *)
CatchesUp ==
    chain[1] = {} =>
        <>[](height = MaxHeight /\ disk = RootAt(MaxHeight) /\ store = Height)
=============================================================================
