----------------------------- MODULE BlockCache -----------------------------
(***************************************************************************)
(* The block cache of a follower (cache.rs) between its two users: the     *)
(* network and sync tasks, which insert whatever blocks arrive, and the    *)
(* tick worker, which fetches the block above the confirmed height,        *)
(* validates it, and confirms or removes it. The lock is taken for each    *)
(* operation, not for the whole tick.                                      *)
(*                                                                         *)
(* A block's hash is the block. The store and the tree are abstracted to   *)
(* the set Good of blocks that validate_block accepts.                     *)
(***************************************************************************)
EXTENDS Integers, FiniteSets

CONSTANTS
    Block,         \* the blocks that may arrive
    HeightOf,      \* their heights
    Good,          \* those that validate_block accepts
    NoBlock,
    MaxHeight,     \* bound: greatest height of a block
    MaxCacheSize   \* max_cache_size, 10_000 in Node::new

ASSUME CacheAssumption ==
    /\ IsFiniteSet(Block) /\ Good \subseteq Block
    /\ MaxHeight \in Nat
    /\ HeightOf \in [Block -> 0..MaxHeight]
    /\ NoBlock \notin Block
    /\ MaxCacheSize \in Nat \ {0}

VARIABLES
    height,      \* the confirmed height
    maxHeight,   \* the greatest height seen
    blocks,      \* blocks by hash
    index,       \* block_hash_heights: hash by height
    pc, blk      \* the tick worker and the block it fetched

vars == <<height, maxHeight, blocks, index, pc, blk>>

Height == 0..MaxHeight
Indexed == {h \in Height : index[h] # NoBlock}

TypeOK ==
    /\ height \in Height /\ maxHeight \in Height
    /\ blocks \subseteq Block
    /\ index \in [Height -> Block \cup {NoBlock}]
    /\ pc \in {"idle", "fetched", "validated", "check", "dead"}
    /\ blk \in Block \cup {NoBlock}

(* BlockCache::new with the block that load_db_and_smirk returned.         *)
Init ==
    \E b \in Good :
        /\ height = HeightOf[b] /\ maxHeight = HeightOf[b]
        /\ blocks = {b}
        /\ index = [h \in Height |-> IF h = HeightOf[b] THEN b ELSE NoBlock]
        /\ pc = "idle" /\ blk = NoBlock
-----------------------------------------------------------------------------
(* The last entry of the index; height 0 and no hash when it is empty.     *)
LastHeight == CHOOSE h \in Indexed \cup {0} : \A i \in Indexed : i <= h

Full == Cardinality(blocks) >= MaxCacheSize

(* Mutation of IndexWithout: the entry stays.                              *)
IndexUnchanged(b) == index

(* remove: the block, and the index entry of its height.                   *)
BlocksWithout(b) == blocks \ {b}
IndexWithout(b)  == IF b \in blocks
                    THEN [index EXCEPT ![HeightOf[b]] = NoBlock]
                    ELSE index

(* Mutation of Insert: a full cache refuses every block.                   *)
InsertIfRoom(b) ==
    /\ pc # "dead" /\ HeightOf[b] >= height /\ ~Full
    /\ maxHeight' = IF HeightOf[b] > maxHeight THEN HeightOf[b] ELSE maxHeight
    /\ index' = [index EXCEPT ![HeightOf[b]] = b]
    /\ blocks' = blocks \cup {b}
    /\ UNCHANGED <<height, pc, blk>>

(* insert: an old block is ignored, one beyond a full cache is only        *)
(* counted, any other block evicts the last one when the cache is full.    *)
Insert(b) ==
    LET h     == HeightOf[b]
        evict == IF Full THEN index[LastHeight] ELSE NoBlock
    IN
    /\ pc # "dead" /\ h >= height
    /\ maxHeight' = IF h > maxHeight THEN h ELSE maxHeight
    /\ \/ /\ Full /\ h > LastHeight
          /\ UNCHANGED <<blocks, index>>
       \/ /\ ~(Full /\ h > LastHeight)
          /\ index' = [IndexWithout(evict) EXCEPT ![h] = b]
          /\ blocks' = BlocksWithout(evict) \cup {b}
    /\ UNCHANGED <<height, pc, blk>>

(* Mutations of Confirm: the confirmed block leaves the cache too; only    *)
(* the index forgets the old blocks.                                       *)
ConfirmDrops(h) ==
    /\ height' = h
    /\ blocks' = blocks \ {index[i] : i \in 0..h}
    /\ index' = [i \in Height |-> IF i <= h THEN NoBlock ELSE index[i]]

ConfirmLeaks(h) ==
    /\ height' = h
    /\ index' = [i \in Height |-> IF i < h THEN NoBlock ELSE index[i]]
    /\ UNCHANGED blocks

(* confirm: everything below the new height leaves the cache.              *)
Confirm(h) ==
    /\ height' = h
    /\ blocks' = blocks \ {index[i] : i \in 0..(h - 1)}
    /\ index' = [i \in Height |-> IF i < h THEN NoBlock ELSE index[i]]

(* get_next_commit_block                                                   *)
TickFetch ==
    /\ pc = "idle"
    /\ \/ /\ height + 1 \in Indexed
          /\ index[height + 1] \in blocks
          /\ blk' = index[height + 1]
          /\ pc' = "fetched"
       \/ /\ height + 1 \in Indexed => index[height + 1] \notin blocks
          /\ pc' = "check"
          /\ UNCHANGED blk
    /\ UNCHANGED <<height, maxHeight, blocks, index>>

(* validate_block; a block it refuses is removed                           *)
TickValidate ==
    /\ pc = "fetched"
    /\ \/ /\ blk \in Good
          /\ pc' = "validated"
          /\ UNCHANGED <<blocks, index, blk>>
       \/ /\ blk \notin Good
          /\ blocks' = BlocksWithout(blk)
          /\ index' = IndexWithout(blk)
          /\ pc' = "idle" /\ blk' = NoBlock
    /\ UNCHANGED <<height, maxHeight>>

TickConfirm ==
    /\ pc = "validated"
    /\ Confirm(HeightOf[blk])
    /\ pc' = "idle" /\ blk' = NoBlock
    /\ UNCHANGED maxHeight

(* is_out_of_sync                                                          *)
OutOfSync ==
    \/ maxHeight > LastHeight
    \/ \E h \in (height + 1)..maxHeight : h \notin Indexed

(* The tick ends with is_out_of_sync, which unwraps the last entry of the  *)
(* index: a panic of the tick worker ends Node::run.                       *)
TickCheck ==
    /\ pc = "check"
    /\ pc' = IF Indexed = {} THEN "dead" ELSE "idle"
    /\ UNCHANGED <<height, maxHeight, blocks, index, blk>>

Next ==
    \/ \E b \in Block : Insert(b)
    \/ TickFetch
    \/ TickValidate
    \/ TickConfirm
    \/ TickCheck

Spec == Init /\ [][Next]_vars

(* A block that is missing is asked for again until it arrives.            *)
CacheFair ==
    /\ WF_vars(TickFetch \/ TickValidate \/ TickConfirm \/ TickCheck)
    /\ \A b \in Good : SF_vars(HeightOf[b] = height + 1 /\ Insert(b))

FairSpec == Spec /\ CacheFair
-----------------------------------------------------------------------------
(* Whatever blocks arrive, and whatever the tick worker removes in the     *)
(* meantime: an index entry leads to a cached block of its height.         *)
IndexSound ==
    \A h \in Indexed : index[h] \in blocks /\ HeightOf[index[h]] = h

(* If no two blocks share a height: every cached block is indexed, so that *)
(* confirm and eviction can drop it again.                                 *)
NoOrphan == \A b \in blocks : index[HeightOf[b]] = b

(* If no two blocks share a height and the cache has room for three: the   *)
(* confirmed block, and the block the tick worker is about to confirm,     *)
(* cannot be evicted by blocks that arrive in between; is_out_of_sync and  *)
(* hash always find an entry, and a node that has confirmed everything it  *)
(* has seen is not out of sync.                                            *)
ConfirmedCached ==
    /\ pc # "dead"
    /\ index[height] # NoBlock
    /\ pc = "validated" => HeightOf[blk] = height + 1 /\ index[height + 1] = blk
    /\ height >= maxHeight => ~OutOfSync

(* However the cache evicts, and whatever block validate_block refuses in  *)
(* between, a follower that keeps asking for the block above its confirmed *)
(* height reaches the last good one.                                       *)
ReachesTip == <>[](\A b \in Good : height >= HeightOf[b])
=============================================================================
