------------------------------ MODULE PartsProofs ------------------------------
(***************************************************************************)
(* Proofs about the parts that MCParts runs: BlockCache for any blocks,    *)
(* any cache size and any order of arrival, and NodeSync, which uses it,   *)
(* for one chain of blocks; Circuits for a tree of any depth, any modulus  *)
(* with room for the sum of two notes, and any notes and secrets;          *)
(* SmirkTree for any elements and any number of levels.                    *)
(***************************************************************************)
EXTENDS NodeSync, Circuits, SmirkTree, BoundedSets, FiniteSetTheorems, SequenceTheorems

USE CacheAssumption DEF Height

(* The tick worker holds a block while it validates and confirms it.       *)
Holds == pc \in {"fetched", "validated"} => blk \in Block

TypeInv == TypeOK /\ Holds

\* The index after BlockCache::confirm or remove drops an entry is still a
\* function from heights to blocks.
LEMMA IndexWithoutType ==
    ASSUME TypeOK, NEW b
    PROVE  IndexWithout(b) \in [Height -> Block \cup {NoBlock}]
    BY DEF TypeOK, IndexWithout

\* Every call of the cache and every tick preserves the types of its maps.
LEMMA TypeStep ==
    ASSUME TypeInv, [Next]_vars
    PROVE  TypeInv'
<1> USE DEF TypeInv, TypeOK, Holds
<1>1. ASSUME NEW b \in Block, Insert(b) PROVE TypeInv'
  <2> DEFINE evict == IF Full THEN index[LastHeight] ELSE NoBlock
  <2>1. HeightOf[b] \in Height
    OBVIOUS
  <2>2. maxHeight' \in Height /\ UNCHANGED <<height, pc, blk>>
    BY <1>1, <2>1 DEF Insert
  <2>3. CASE UNCHANGED <<blocks, index>>
    BY <2>2, <2>3
  <2>4. CASE /\ index' = [IndexWithout(evict) EXCEPT ![HeightOf[b]] = b]
             /\ blocks' = BlocksWithout(evict) \cup {b}
    <3>1. IndexWithout(evict) \in [Height -> Block \cup {NoBlock}]
      BY IndexWithoutType
    <3> QED BY <2>1, <2>2, <2>4, <3>1 DEF BlocksWithout
  <2> QED BY <1>1, <2>3, <2>4 DEF Insert
<1>2. CASE TickFetch
    BY <1>2 DEF TickFetch, Indexed
<1>3. CASE TickValidate
    BY <1>3, IndexWithoutType DEF TickValidate, BlocksWithout
<1>4. CASE TickConfirm
    BY <1>4 DEF TickConfirm, Confirm
<1>5. CASE TickCheck
    BY <1>5 DEF TickCheck
<1>6. CASE UNCHANGED vars
    BY <1>6 DEF vars
<1> QED BY <1>1, <1>2, <1>3, <1>4, <1>5, <1>6 DEF Next

\* An empty cache has the right types.
LEMMA TypeInit == Init => TypeInv
    BY DEF Init, TypeInv, TypeOK, Holds

(* remove leaves no entry behind that leads to the removed block.          *)
LEMMA WithoutSound ==
    ASSUME TypeOK, IndexSound, NEW b, NEW h \in Height,
           IndexWithout(b)[h] # NoBlock
    PROVE  /\ IndexWithout(b)[h] = index[h]
           /\ index[h] \in BlocksWithout(b) /\ HeightOf[index[h]] = h
    BY DEF TypeOK, IndexSound, Indexed, IndexWithout, BlocksWithout

\* No call of the cache makes the height index point a height at a block of
\* another height.
LEMMA SoundStep ==
    ASSUME TypeInv, IndexSound, [Next]_vars
    PROVE  IndexSound'
<1>t. TypeOK /\ Holds
    BY DEF TypeInv
<1> USE DEF IndexSound, Indexed
<1>1. ASSUME NEW b \in Block, Insert(b) PROVE IndexSound'
  <2> DEFINE evict == IF Full THEN index[LastHeight] ELSE NoBlock
  <2>1. CASE UNCHANGED <<blocks, index>>
    BY <2>1
  <2>2. CASE /\ index' = [IndexWithout(evict) EXCEPT ![HeightOf[b]] = b]
             /\ blocks' = BlocksWithout(evict) \cup {b}
    <3> SUFFICES ASSUME NEW h \in Height, index'[h] # NoBlock
                 PROVE  index'[h] \in blocks' /\ HeightOf[index'[h]] = h
      OBVIOUS
    <3>1. IndexWithout(evict) \in [Height -> Block \cup {NoBlock}]
      BY <1>t, IndexWithoutType
    <3>2. CASE h = HeightOf[b]
      BY <2>2, <3>1, <3>2
    <3>3. CASE h # HeightOf[b]
      <4>1. index'[h] = IndexWithout(evict)[h]
        BY <2>2, <3>1, <3>3
      <4> HIDE DEF evict
      <4> QED BY <1>t, <2>2, <4>1, WithoutSound
    <3> QED BY <3>2, <3>3
  <2> QED BY <1>1, <2>1, <2>2 DEF Insert
<1>2. CASE TickFetch
    BY <1>2 DEF TickFetch
<1>3. CASE TickValidate
  <2>1. CASE UNCHANGED <<blocks, index>>
    BY <2>1
  <2>2. CASE blocks' = BlocksWithout(blk) /\ index' = IndexWithout(blk)
    BY <1>t, <2>2, WithoutSound
  <2> QED BY <1>3, <2>1, <2>2 DEF TickValidate
<1>4. CASE TickConfirm
  <2> SUFFICES ASSUME NEW h \in Height, index'[h] # NoBlock
               PROVE  index'[h] \in blocks' /\ HeightOf[index'[h]] = h
    OBVIOUS
  <2> DEFINE top == HeightOf[blk]
  <2>1. top \in Height
    BY <1>4, <1>t DEF TickConfirm, Holds
  <2>2. ~(h < top) /\ index'[h] = index[h]
    BY <1>4, <2>1 DEF TickConfirm, Confirm
  <2>3. index[h] \in blocks /\ HeightOf[index[h]] = h
    BY <2>2
  <2>4. \A i \in 0..(top - 1) : index[i] # index[h]
    BY <2>1, <2>2, <2>3
  <2> QED BY <1>4, <2>2, <2>3, <2>4 DEF TickConfirm, Confirm
<1>5. CASE TickCheck
    BY <1>5 DEF TickCheck
<1>6. CASE UNCHANGED vars
    BY <1>6 DEF vars
<1> QED BY <1>1, <1>2, <1>3, <1>4, <1>5, <1>6 DEF Next

(* Whatever blocks arrive, several of one height among them, and whatever  *)
(* is evicted, removed or confirmed between two steps of the tick worker:  *)
(* get_by_height and get_range find a block of the height they ask for.    *)
THEOREM IndexSoundHolds == Spec => []IndexSound
<1>1. Init => IndexSound
    BY DEF Init, IndexSound, Indexed
<1>2. TypeInv /\ [Next]_vars => TypeInv'
    BY TypeStep
<1>3. TypeInv /\ IndexSound /\ [Next]_vars => IndexSound'
    BY SoundStep
<1> QED BY TypeInit, <1>1, <1>2, <1>3, PTL DEF Spec

OnePerHeight == \A b, c \in Block : HeightOf[b] = HeightOf[c] => b = c

\* When a height has one block, no call of the cache drops an index entry
\* while it keeps the block.
LEMMA OrphanStep ==
    ASSUME OnePerHeight, TypeInv, NoOrphan, [Next]_vars
    PROVE  NoOrphan'
<1>t. TypeOK /\ Holds
    BY DEF TypeInv
<1>w. ASSUME NEW b, NEW c \in BlocksWithout(b)
      PROVE  IndexWithout(b)[HeightOf[c]] = c
    BY <1>w, <1>t DEF TypeOK, NoOrphan, OnePerHeight, BlocksWithout, IndexWithout
<1> USE DEF NoOrphan
<1>1. ASSUME NEW b \in Block, Insert(b) PROVE NoOrphan'
  <2> DEFINE evict == IF Full THEN index[LastHeight] ELSE NoBlock
  <2>1. CASE UNCHANGED <<blocks, index>>
    BY <2>1
  <2>2. CASE /\ index' = [IndexWithout(evict) EXCEPT ![HeightOf[b]] = b]
             /\ blocks' = BlocksWithout(evict) \cup {b}
    <3> SUFFICES ASSUME NEW c \in blocks' PROVE index'[HeightOf[c]] = c
      OBVIOUS
    <3>1. IndexWithout(evict) \in [Height -> Block \cup {NoBlock}]
      BY <1>t, IndexWithoutType
    <3> HIDE DEF evict
    <3>2. CASE c = b
      BY <2>2, <3>1, <3>2
    <3>3. CASE c # b
      <4>1. c \in BlocksWithout(evict) /\ c \in Block
        BY <2>2, <3>3, <1>t DEF BlocksWithout, TypeOK
      <4>2. HeightOf[c] # HeightOf[b]
        BY <3>3, <4>1 DEF OnePerHeight
      <4>3. IndexWithout(evict)[HeightOf[c]] = c
        BY <4>1, <1>w
      <4> QED BY <2>2, <3>1, <4>1, <4>2, <4>3
    <3> QED BY <3>2, <3>3
  <2> QED BY <1>1, <2>1, <2>2 DEF Insert
<1>2. CASE TickFetch
    BY <1>2 DEF TickFetch
<1>3. CASE TickValidate
    BY <1>3, <1>w DEF TickValidate
<1>4. CASE TickConfirm
  <2> SUFFICES ASSUME NEW c \in blocks' PROVE index'[HeightOf[c]] = c
    OBVIOUS
  <2> DEFINE top == HeightOf[blk]
  <2>1. top \in Height
    BY <1>4, <1>t DEF TickConfirm, Holds
  <2>2. c \in Block /\ index[HeightOf[c]] = c
    BY <1>4, <1>t DEF TickConfirm, Confirm, TypeOK
  <2>3. ~(HeightOf[c] \in 0..(top - 1))
    BY <1>4, <2>2 DEF TickConfirm, Confirm
  <2>4. HeightOf[c] \in Height /\ ~(HeightOf[c] < top)
    BY <2>1, <2>2, <2>3
  <2> QED BY <1>4, <2>2, <2>4 DEF TickConfirm, Confirm
<1>5. CASE TickCheck
    BY <1>5 DEF TickCheck
<1>6. CASE UNCHANGED vars
    BY <1>6 DEF vars
<1> QED BY <1>1, <1>2, <1>3, <1>4, <1>5, <1>6 DEF Next

(* As long as no two blocks of one height arrive, every cached block is    *)
(* indexed, so that confirm and eviction can drop it: the cache cannot     *)
(* fill up with blocks that nothing removes.                               *)
THEOREM NoOrphanHolds ==
    ASSUME OnePerHeight
    PROVE  Spec => []NoOrphan
<1>1. Init => NoOrphan
    BY DEF Init, NoOrphan
<1>2. TypeInv /\ [Next]_vars => TypeInv'
    BY TypeStep
<1>3. TypeInv /\ NoOrphan /\ [Next]_vars => NoOrphan'
    BY OrphanStep
<1> QED BY TypeInit, <1>1, <1>2, <1>3, PTL DEF Spec
-----------------------------------------------------------------------------
(* What no arrival may evict: the confirmed block, and the block that the  *)
(* tick worker has fetched. No cached block is below the confirmed height, *)
(* so the last of three is above both.                                     *)
KeptInv ==
    /\ pc # "dead"
    /\ index[height] # NoBlock
    /\ \A b \in blocks : HeightOf[b] >= height
    /\ pc \in {"fetched", "validated"} => HeightOf[blk] = height + 1 /\ index[height + 1] = blk

\* The last entry of an index that is not empty is one of it.
LEMMA LastIndexed ==
    ASSUME Indexed # {}
    PROVE  LastHeight \in Indexed /\ \A i \in Indexed : i <= LastHeight
<1>1. PICK x \in Indexed : \A i \in Indexed : i <= x
  BY GreatestExists DEF Indexed
<1>2. LastHeight \in Indexed \cup {0} /\ \A i \in Indexed : i <= LastHeight
  BY <1>1 DEF LastHeight
<1>3. CASE LastHeight = 0
  <2>1. \A i \in Indexed : i <= 0 /\ i \in Nat
    BY <1>2, <1>3 DEF Indexed
  <2> QED BY <1>1, <1>2, <1>3, <2>1
<1> QED BY <1>2, <1>3

\* Sets of two elements are finite, and not greater.
LEMMA PairSize ==
    ASSUME NEW x, NEW y, NEW S, S \subseteq {x, y}
    PROVE  Cardinality(S) \in Nat /\ Cardinality(S) <= 2
<1>1. IsFiniteSet({x}) /\ Cardinality({x}) = 1
  BY FS_Singleton
<1>2. {x, y} = {x} \cup {y}
  OBVIOUS
<1>3. IsFiniteSet({x, y}) /\ Cardinality({x, y}) \in Nat /\ Cardinality({x, y}) <= 2
  <2>1. IsFiniteSet({x} \cup {y}) /\ Cardinality({x} \cup {y}) = IF y \in {x} THEN 1 ELSE 1 + 1
    BY <1>1, FS_AddElement
  <2> QED BY <1>2, <2>1
<1>4. IsFiniteSet(S) /\ Cardinality(S) <= Cardinality({x, y})
  BY <1>3, FS_Subset
<1> QED BY <1>3, <1>4, FS_CardinalityType

\* A full cache with room for three evicts neither the confirmed block nor the next one.
LEMMA EvictsAbove ==
    ASSUME TypeInv, IndexSound, NoOrphan, KeptInv, MaxCacheSize >= 3, Full
    PROVE  LastHeight \in Indexed /\ LastHeight > height + 1
<1>1. height \in Indexed /\ Indexed \subseteq 0 .. MaxHeight
  BY DEF Indexed, KeptInv, TypeInv, TypeOK
<1>2. LastHeight \in Indexed /\ \A i \in Indexed : i <= LastHeight
  BY <1>1, LastIndexed
<1>3. SUFFICES ASSUME LastHeight <= height + 1 PROVE FALSE
  BY <1>1, <1>2 DEF TypeInv, TypeOK
<1>4. ASSUME NEW b \in blocks PROVE b \in {index[height], index[height + 1]}
  <2>1. b \in Block /\ HeightOf[b] \in 0 .. MaxHeight /\ index[HeightOf[b]] = b /\ HeightOf[b] >= height
    BY DEF TypeInv, TypeOK, NoOrphan, KeptInv
  <2>2. HeightOf[b] \in Indexed
    BY <2>1 DEF Indexed
  <2>3. HeightOf[b] = height \/ HeightOf[b] = height + 1
    BY <1>1, <1>2, <1>3, <2>1, <2>2
  <2> QED BY <2>1, <2>3
<1>5. Cardinality(blocks) \in Nat /\ Cardinality(blocks) <= 2
  BY <1>4, PairSize
<1> QED BY <1>5 DEF Full

\* No step of the network or of the tick worker loses the blocks that are kept.
LEMMA KeptStep ==
    ASSUME OnePerHeight, MaxCacheSize >= 3, TypeInv, IndexSound, NoOrphan, KeptInv, [Next]_vars
    PROVE  KeptInv'
<1>t. /\ TypeOK /\ height \in Nat /\ maxHeight \in Nat
      /\ pc \in {"fetched", "validated"} => blk \in Block
  BY DEF TypeInv, TypeOK, Holds
<1>1. ASSUME NEW b \in Block, Insert(b) PROVE KeptInv'
  <2> DEFINE evict == IF Full THEN index[LastHeight] ELSE NoBlock
  <2>0. HeightOf[b] \in Height /\ HeightOf[b] >= height /\ UNCHANGED <<height, pc, blk>>
    BY <1>1 DEF Insert
  <2>1. CASE UNCHANGED <<blocks, index>>
    BY <2>0, <2>1 DEF KeptInv
  <2>2. CASE /\ index' = [IndexWithout(evict) EXCEPT ![HeightOf[b]] = b]
             /\ blocks' = BlocksWithout(evict) \cup {b}
    <3>1. IndexWithout(evict) \in [Height -> Block \cup {NoBlock}]
      BY <1>t, IndexWithoutType
    <3>2. ASSUME NEW h \in Height, h <= height + 1, index[h] # NoBlock
          PROVE  IndexWithout(evict)[h] = index[h]
      <4>1. CASE Full
        <5>1. LastHeight \in Indexed /\ LastHeight > height + 1
          BY <4>1, EvictsAbove
        <5>2. evict = index[LastHeight] /\ HeightOf[evict] = LastHeight
          BY <4>1, <5>1 DEF IndexSound
        <5> HIDE DEF evict
        <5>3. HeightOf[evict] # h
          BY <1>t, <3>2, <5>1, <5>2 DEF Indexed
        <5> QED BY <1>t, <5>3 DEF IndexWithout, TypeOK
      <4>2. CASE ~Full
        BY <4>2, <1>t DEF IndexWithout, TypeOK
      <4> QED BY <4>1, <4>2
    <3> HIDE DEF evict
    <3>3. ASSUME NEW h \in Height, h <= height + 1, index[h] # NoBlock
          PROVE  index'[h] = index[h]
      <4>1. CASE h = HeightOf[b]
        <5>1. index[h] \in Block /\ HeightOf[index[h]] = h
          BY <3>3, <1>t DEF TypeOK, IndexSound, Indexed
        <5> QED BY <2>2, <3>1, <4>1, <5>1 DEF OnePerHeight
      <4>2. CASE h # HeightOf[b]
        BY <2>2, <3>1, <3>2, <3>3, <4>2
      <4> QED BY <4>1, <4>2
    <3>4. index'[height] # NoBlock
      BY <1>t, <3>3 DEF KeptInv, TypeOK
    <3>5. \A c \in blocks' : HeightOf[c] >= height
      BY <2>0, <2>2 DEF KeptInv, BlocksWithout
    <3>6. pc \in {"fetched", "validated"} => index'[height + 1] = blk
      <4> SUFFICES ASSUME pc \in {"fetched", "validated"} PROVE index'[height + 1] = blk
        OBVIOUS
      <4>1. height + 1 \in Height /\ index[height + 1] = blk /\ blk # NoBlock
        BY <1>t DEF KeptInv
      <4> QED BY <1>t, <3>3, <4>1
    <3> QED BY <2>0, <3>4, <3>5, <3>6 DEF KeptInv
  <2> QED BY <1>1, <2>1, <2>2 DEF Insert
<1>2. CASE TickFetch
  <2>1. CASE /\ height + 1 \in Indexed /\ blk' = index[height + 1] /\ pc' = "fetched"
             /\ UNCHANGED <<height, blocks, index>>
    BY <2>1 DEF KeptInv, IndexSound
  <2>2. CASE pc' = "check" /\ UNCHANGED <<height, blocks, index>>
    BY <2>2 DEF KeptInv
  <2> QED BY <1>2, <2>1, <2>2 DEF TickFetch
<1>3. CASE TickValidate
  <2>1. CASE pc' = "validated" /\ UNCHANGED <<height, blocks, index, blk>>
    BY <1>3, <2>1 DEF KeptInv, TickValidate
  <2>2. CASE /\ blocks' = BlocksWithout(blk) /\ index' = IndexWithout(blk) /\ pc' = "idle"
             /\ UNCHANGED height
    <3>1. HeightOf[blk] = height + 1
      BY <1>3 DEF KeptInv, TickValidate
    <3>2. index'[height] = index[height]
      BY <1>t, <2>2, <3>1 DEF IndexWithout, TypeOK
    <3> QED BY <2>2, <3>2 DEF KeptInv, BlocksWithout
  <2> QED BY <1>3, <2>1, <2>2 DEF TickValidate
<1>4. CASE TickConfirm
  <2>1. HeightOf[blk] = height + 1 /\ index[height + 1] = blk /\ blk \in Block
    BY <1>4, <1>t DEF KeptInv, TickConfirm
  <2>2. /\ height' = height + 1 /\ pc' = "idle"
        /\ blocks' = blocks \ {index[i] : i \in 0 .. height}
        /\ index' = [i \in Height |-> IF i < height + 1 THEN NoBlock ELSE index[i]]
    BY <1>4, <1>t, <2>1 DEF TickConfirm, Confirm
  <2>3. index'[height'] # NoBlock
    BY <1>t, <2>1, <2>2
  <2>4. ASSUME NEW c \in blocks' PROVE HeightOf[c] >= height + 1
    <3>1. c \in blocks /\ c \in Block /\ index[HeightOf[c]] = c
      BY <1>t, <2>2 DEF TypeOK, NoOrphan
    <3>2. HeightOf[c] \notin 0 .. height
      BY <2>2, <3>1
    <3> QED BY <1>t, <3>1, <3>2
  <2> QED BY <2>2, <2>3, <2>4 DEF KeptInv
<1>5. CASE TickCheck
  <2>1. height \in Indexed
    BY <1>t DEF KeptInv, Indexed, TypeOK
  <2> QED BY <1>5, <2>1 DEF TickCheck, KeptInv
<1>6. CASE UNCHANGED vars
  BY <1>6 DEF vars, KeptInv
<1> QED BY <1>1, <1>2, <1>3, <1>4, <1>5, <1>6 DEF Next

(* With one block per height and room for three, what arrives evicts       *)
(* neither the confirmed block nor the one that the tick worker has        *)
(* fetched, is_out_of_sync never finds an empty index, and a node that has *)
(* confirmed all it has seen is not out of sync.                           *)
THEOREM ConfirmedCachedHolds ==
    ASSUME OnePerHeight, MaxCacheSize >= 3
    PROVE  Spec => []ConfirmedCached
<1> DEFINE Inv == TypeInv /\ IndexSound /\ NoOrphan /\ KeptInv
<1>1. Init => Inv
  <2>1. Init => IndexSound /\ NoOrphan /\ KeptInv
    BY DEF Init, IndexSound, Indexed, NoOrphan, KeptInv
  <2> QED BY <2>1, TypeInit
<1>2. Inv /\ [Next]_vars => Inv'
  BY TypeStep, SoundStep, OrphanStep, KeptStep
<1>3. Inv => ConfirmedCached
  <2> SUFFICES ASSUME Inv PROVE ConfirmedCached
    OBVIOUS
  <2>1. height \in Indexed /\ height \in Nat /\ maxHeight \in Nat
    BY DEF TypeInv, TypeOK, KeptInv, Indexed
  <2>2. LastHeight \in Indexed /\ height <= LastHeight
    BY <2>1, LastIndexed
  <2>3. height >= maxHeight => ~OutOfSync
    BY <2>1, <2>2 DEF OutOfSync, Indexed
  <2> QED BY <2>3 DEF KeptInv, ConfirmedCached
<1> QED BY <1>1, <1>2, <1>3, PTL DEF Spec
-----------------------------------------------------------------------------
(***************************************************************************)
(* NodeSync. Its tick worker commits in one step, so it never holds a      *)
(* block; confirm is also called by the sync worker, for any height.       *)
(***************************************************************************)
Travelling ==
    [type : {"block"}, height : Height]
    \cup [type : {"request"}, id : Id, peer : Peer, from : Nat]
    \cup [type : {"accept"}, id : Id, peer : Peer, from : Nat, to : Nat, kind : {"slow"}]
    \cup [type : {"accept"}, id : Id, peer : Peer, from : Nat, to : 1..MaxHeight, kind : {"fast"}]

SlowChunks == [type : {"chunk"}, id : Id, peer : Peer, kind : {"slow"}, blocks : SUBSET Height]
FastChunks == [type : {"chunk"}, id : Id, peer : Peer, kind : {"fast"},
               blocks : SUBSET (1..MaxHeight), elements : SUBSET NonEmpty]
Answers ==
    [type : {"behind"}, id : {0}, max : Height]
    \cup [type : {"offer"}, id : Id, peer : Peer] \cup SlowChunks \cup FastChunks

(* A fast snapshot is only asked for up to a height of the contract.       *)
RequestInv ==
    /\ request.kind = "fast" => request.to \in 1..MaxHeight
    /\ request.kind \in {"slow", "fast"} /\ request.to \in Nat
    /\ sync = "offer" => request.id \in Id
    /\ sync = "chunk" => request.id \in Id

SyncTypeInv ==
    /\ TypeOK /\ pc \in {"idle", "check", "dead"}
    /\ tip \in Height /\ peerHeight \in [Peer -> Height]
    /\ net \subseteq Travelling
    /\ channel \in Seq(Answers)
    /\ DOMAIN request = {"id", "to", "kind", "peer"}
    /\ RequestInv
    /\ chunk \subseteq Height

(* The index is empty only while the sync worker, after it confirmed the   *)
(* block below its target, still has the target in hand.                   *)
WindowInv ==
    /\ Indexed = {} => sync = "deliver" /\ chunk = {height + 1}
    /\ pc = "dead" => sync = "deliver"

SyncInv == SyncTypeInv /\ NoOrphan /\ TreeAtHeight /\ WindowInv

\* A follower starts with the first block and an idle sync worker.
LEMMA SyncInitInv ==
    ASSUME OneChain, SyncInit
    PROVE  SyncInv
<1>1. TypeInv /\ height = 0 /\ pc = "idle"
  BY TypeInit DEF SyncInit, Init
<1>2. SyncTypeInv
  <2>1. net \subseteq Travelling
    BY SyncAssumption DEF SyncInit, Travelling
  <2>2. channel \in Seq(Answers) /\ chunk \subseteq Height
    BY DEF SyncInit
  <2>3. tip \in Height /\ peerHeight \in [Peer -> Height]
    BY SyncAssumption DEF SyncInit
  <2>4. DOMAIN request = {"id", "to", "kind", "peer"} /\ RequestInv
    BY DEF SyncInit, NoRequest, RequestInv
  <2> QED BY <1>1, <2>1, <2>2, <2>3, <2>4 DEF SyncTypeInv, TypeInv
<1>3. NoOrphan /\ 0 \in Indexed
  BY DEF OneChain, SyncInit, Init, NoOrphan, Indexed
<1>4. TreeAtHeight
  BY <1>1 DEF SyncInit, TreeAtHeight, StateOf
<1> QED BY <1>1, <1>2, <1>3, <1>4 DEF SyncInv, WindowInv

\* Confirming any height keeps the types, and drops a block with its entry.
LEMMA ConfirmSound ==
    ASSUME OneChain, TypeOK, NoOrphan, NEW h \in Height, Confirm(h), UNCHANGED <<maxHeight, pc, blk>>
    PROVE  TypeOK' /\ NoOrphan' /\ Indexed' = {i \in Indexed : i >= h}
<1>1. TypeOK'
  BY DEF TypeOK, Confirm
<1>2. NoOrphan'
  <2> SUFFICES ASSUME NEW c \in blocks' PROVE index'[HeightOf[c]] = c
    BY DEF NoOrphan
  <2>1. c \in blocks /\ c \in Block /\ index[HeightOf[c]] = c
    BY DEF Confirm, TypeOK, NoOrphan
  <2>2. ~(HeightOf[c] \in 0 .. (h - 1))
    BY <2>1 DEF Confirm
  <2>3. HeightOf[c] \in Height /\ ~(HeightOf[c] < h)
    BY <2>1, <2>2
  <2> QED BY <2>1, <2>3 DEF Confirm
<1>3. Indexed' = {i \in Indexed : i >= h}
  BY DEF Confirm, Indexed, TypeOK
<1> QED BY <1>1, <1>2, <1>3

\* receive_proposal on the cache keeps its maps, and leaves a block that is not old indexed.
LEMMA ReceiveSound ==
    ASSUME OneChain, TypeOK, pc \in {"idle", "check", "dead"}, NoOrphan,
           NEW h \in Height, Receive(h)
    PROVE  /\ TypeOK' /\ NoOrphan' /\ UNCHANGED <<height, pc>>
           /\ Indexed # {} \/ h >= height => Indexed' # {}
<1>0. h \in Block /\ HeightOf[h] = h /\ OnePerHeight
  BY DEF OneChain, OnePerHeight
<1>1. CASE UNCHANGED cache /\ h < height
  BY <1>1 DEF cache, TypeOK, NoOrphan, Indexed
<1>2. CASE Insert(h)
  <2>1. [Next]_vars /\ TypeInv
    BY <1>0, <1>2 DEF Next, TypeInv, Holds
  <2>2. TypeOK' /\ NoOrphan'
    BY <1>0, <2>1, TypeStep, OrphanStep DEF TypeInv
  <2>3. UNCHANGED <<height, pc>>
    BY <1>2 DEF Insert
  <2>4. Indexed' # {}
    <3>1. CASE Full /\ h > LastHeight /\ UNCHANGED <<blocks, index>>
      <4>1. blocks # {}
        <5> SUFFICES ASSUME blocks = {} PROVE FALSE
          OBVIOUS
        <5>1. Cardinality({}) = 0
          BY FS_EmptySet
        <5> QED BY <3>1, <5>1 DEF Full
      <4>2. PICK c \in blocks : TRUE
        BY <4>1
      <4>3. c \in Block /\ index[HeightOf[c]] = c
        BY <4>2 DEF TypeOK, NoOrphan
      <4>4. HeightOf[c] \in Indexed
        BY <4>3 DEF Indexed
      <4> QED BY <3>1, <4>4 DEF Indexed
    <3>2. CASE h \in Height /\ index'[h] = h
      BY <1>0, <3>2 DEF Indexed
    <3>3. \E b : index' = [IndexWithout(b) EXCEPT ![h] = h] \/ (Full /\ h > LastHeight /\ UNCHANGED <<blocks, index>>)
      BY <1>0, <1>2 DEF Insert
    <3> QED BY <3>1, <3>2, <3>3, IndexWithoutType
  <2> QED BY <2>2, <2>3, <2>4
<1>3. h >= height \/ h < height
  BY DEF TypeOK
<1> QED BY <1>1, <1>2, <1>3 DEF Receive, Insert
\* What the event handler hands to the cache fits, and the sync worker takes well-formed answers.
LEMMA PeersStep ==
    ASSUME SyncInv,
           \/ Broadcast
           \/ \E p \in Peer : PeerCommit(p) \/ Serve(p)
           \/ \E m \in net : Lose(m) \/ Unserved(m)
    PROVE  SyncInv'
<1> USE DEF SyncInv
<1>t. /\ tip \in Height /\ peerHeight \in [Peer -> Height] /\ net \subseteq Travelling
      /\ channel \in Seq(Answers)
  BY DEF SyncTypeInv
<1>k. UNCHANGED <<height, maxHeight, blocks, index, pc, blk, tree, sync, request, chunk>>
  BY DEF Broadcast, PeerCommit, Serve, ServeRequest, ServeSlow, ServeFast, Answer, Lose, Unserved,
         cache, worker, peers
<1>m. SUFFICES /\ tip' \in Height /\ peerHeight' \in [Peer -> Height]
               /\ net' \subseteq Travelling /\ channel' \in Seq(Answers)
  BY <1>k DEF SyncTypeInv, RequestInv, TypeOK, NoOrphan, TreeAtHeight, WindowInv, StateOf, Indexed
<1>1. CASE Broadcast
  <2>1. tip + 1 \in Height /\ tip' = tip + 1 /\ UNCHANGED <<peerHeight, channel>>
    BY <1>1, <1>t DEF Broadcast
  <2>2. [type |-> "block", height |-> tip + 1] \in Travelling
    BY <2>1 DEF Travelling
  <2> QED BY <1>1, <1>t, <2>1, <2>2 DEF Broadcast
<1>2. ASSUME NEW p \in Peer, PeerCommit(p)
      PROVE  /\ tip' \in Height /\ peerHeight' \in [Peer -> Height]
             /\ net' \subseteq Travelling /\ channel' \in Seq(Answers)
  BY <1>2, <1>t DEF PeerCommit
<1>3. ASSUME NEW p \in Peer, NEW m \in net, ServeRequest(p, m) \/ ServeSlow(p, m) \/ ServeFast(p, m)
      PROVE  /\ tip' \in Height /\ peerHeight' \in [Peer -> Height]
             /\ net' \subseteq Travelling /\ channel' \in Seq(Answers)
  <2>0. m \in Travelling /\ peerHeight[p] \in Height /\ FirstStored[p] \in Nat
    BY <1>t, SyncAssumption
  <2>1. UNCHANGED <<tip, peerHeight>> /\ net' \subseteq net
    BY <1>3 DEF ServeRequest, ServeSlow, ServeFast, Answer, peers
  <2>2. CASE ServeRequest(p, m)
    <3> DEFINE reply == [type |-> "offer", id |-> m.id, peer |-> p]
    <3>1. m.id \in Id
      BY <2>0, <2>2 DEF ServeRequest, Travelling
    <3>2. reply \in Answers
      BY <3>1 DEF Answers
    <3>3. channel' = channel \o <<>> \/ channel' = channel \o <<reply>>
      BY <2>2 DEF ServeRequest, Answer
    <3> HIDE DEF reply
    <3>4. channel \o <<>> \in Seq(Answers) /\ channel \o <<reply>> \in Seq(Answers)
      BY <1>t, <3>2
    <3> QED BY <1>t, <2>1, <3>3, <3>4
  <2>3. CASE ServeSlow(p, m)
    <3> DEFINE to    == Lesser(m.to, peerHeight[p] + 1)
               reply == [type |-> "chunk", id |-> m.id, peer |-> p, kind |-> "slow",
                         blocks |-> Stored(p) \cap (m.from..(to - 1))]
    <3>1. m.id \in Id
      BY <2>0, <2>3 DEF ServeSlow, Travelling
    <3>2. Stored(p) \subseteq Height
      BY <2>0 DEF Stored
    <3>3. reply \in SlowChunks
      BY <3>1, <3>2 DEF SlowChunks
    <3>4. channel' = channel \o <<>> \/ channel' = channel \o <<reply>>
      BY <2>3 DEF ServeSlow, Answer
    <3> HIDE DEF reply
    <3> QED BY <1>t, <2>1, <3>3, <3>4 DEF Answers
  <2>4. CASE ServeFast(p, m)
    <3> DEFINE reply == [type |-> "chunk", id |-> m.id, peer |-> p, kind |-> "fast",
                         blocks |-> Stored(p) \cap {m.to},
                         elements |-> StateOf(FirstStored[p] - 1)
                                      \cup StateOf(Lesser(m.to, peerHeight[p]))]
    <3>1. m.id \in Id /\ m.to \in 1..MaxHeight
      BY <2>0, <2>4 DEF ServeFast, Travelling
    <3>2. StateOf(FirstStored[p] - 1) \cup StateOf(Lesser(m.to, peerHeight[p])) \in SUBSET NonEmpty
      BY DEF StateOf
    <3>3. Stored(p) \cap {m.to} \in SUBSET (1..MaxHeight)
      BY <3>1
    <3>4. reply \in FastChunks
      BY <3>1, <3>2, <3>3 DEF FastChunks
    <3>5. channel' = channel \o <<reply>>
      BY <2>4 DEF ServeFast, Answer
    <3> HIDE DEF reply
    <3> QED BY <1>t, <2>1, <3>4, <3>5 DEF Answers
  <2> QED BY <1>3, <2>2, <2>3, <2>4
<1>4. ASSUME NEW m \in net, Lose(m) \/ Unserved(m)
      PROVE  /\ tip' \in Height /\ peerHeight' \in [Peer -> Height]
             /\ net' \subseteq Travelling /\ channel' \in Seq(Answers)
  BY <1>4, <1>t DEF Lose, Unserved, peers
<1> QED BY <1>1, <1>2, <1>3, <1>4 DEF Serve

\* A report of the tick worker or of the sync worker to itself is well formed.
LEMMA ReportedSound ==
    ASSUME channel \in Seq(Answers), maxHeight \in Height
    PROVE  Reported \in Seq(Answers)
<1> DEFINE report == [type |-> "behind", id |-> 0, max |-> maxHeight]
<1>1. report \in Answers
  BY DEF Answers
<1>2. Reported = channel \/ Reported = Append(channel, report)
  BY DEF Reported
<1> HIDE DEF report
<1> QED BY <1>1, <1>2

\* A block that arrives enters the cache and nothing else.
LEMMA DeliverStep ==
    ASSUME OneChain, SyncInv, NEW m \in net, DeliverBlock(m)
    PROVE  SyncInv'
<1>1. m.height \in Height
  BY DEF DeliverBlock, SyncInv, SyncTypeInv, Travelling
<1>2. TypeOK' /\ NoOrphan' /\ UNCHANGED <<height, pc>> /\ (Indexed # {} => Indexed' # {})
  BY <1>1, ReceiveSound DEF DeliverBlock, SyncInv, SyncTypeInv
<1>3. net' \subseteq net /\ UNCHANGED <<tree, tip, peerHeight, channel, sync, request, chunk>>
  BY DEF DeliverBlock, peers, worker
<1>4. SyncTypeInv'
  BY <1>2, <1>3 DEF SyncInv, SyncTypeInv, RequestInv
<1> QED BY <1>2, <1>3, <1>4 DEF SyncInv, TreeAtHeight, StateOf, WindowInv

\* The tick worker commits the next block to tree and cache, and dies only in the window.
LEMMA TickStep ==
    ASSUME OneChain, SyncInv, Tick
    PROVE  SyncInv'
<1> USE DEF SyncInv
<1>t. /\ TypeOK /\ height \in Height /\ channel \in Seq(Answers)
      /\ pc \in {"idle", "check", "dead"} /\ maxHeight \in Height
  BY DEF SyncTypeInv, TypeOK
<1>1. CASE TickCommit
  <2>0. height + 1 \in Indexed /\ height + 1 \in Height
    BY <1>1 DEF TickCommit, Indexed
  <2>1. Confirm(height + 1) /\ UNCHANGED <<maxHeight, pc, blk>>
    BY <1>1 DEF TickCommit
  <2>2. TypeOK' /\ NoOrphan' /\ Indexed' = {i \in Indexed : i >= height + 1}
    BY <1>t, <2>0, <2>1, ConfirmSound
  <2>3. UNCHANGED <<tip, peerHeight, net, channel, sync, request, chunk>>
    BY <1>1 DEF TickCommit, peers, worker
  <2>4. SyncTypeInv'
    BY <2>1, <2>2, <2>3 DEF SyncTypeInv, RequestInv
  <2>5. TreeAtHeight'
    <3>1. tree' = tree \cup ({height + 1} \cap NonEmpty) /\ height' = height + 1
      BY <1>1 DEF TickCommit, Confirm
    <3>2. StateOf(height + 1) = StateOf(height) \cup ({height + 1} \cap NonEmpty)
      BY <1>t DEF StateOf
    <3> QED BY <3>1, <3>2 DEF TreeAtHeight, StateOf
  <2>6. height + 1 \in Indexed' /\ pc' = "idle"
    BY <1>1, <1>t, <2>0, <2>2 DEF TickCommit
  <2> QED BY <2>2, <2>4, <2>5, <2>6 DEF WindowInv
<1>2. CASE TickLook
  <2>1. /\ UNCHANGED <<height, maxHeight, blocks, index, blk, tree, tip, peerHeight, net, channel,
                       sync, request, chunk>>
        /\ pc' = "check"
    BY <1>2 DEF TickLook, peers, worker
  <2> QED BY <2>1 DEF SyncTypeInv, RequestInv, TypeOK, NoOrphan, TreeAtHeight, StateOf, WindowInv, Indexed
<1>3. CASE TickEnd
  <2>1. /\ UNCHANGED <<height, maxHeight, blocks, index, blk, tree, tip, peerHeight, net, sync,
                       request, chunk>>
        /\ pc' = IF Indexed = {} THEN "dead" ELSE "idle"
        /\ channel' = channel \/ channel' = Reported
    BY <1>3 DEF TickEnd, TickCheck, peers, worker
  <2>2. channel' \in Seq(Answers)
    BY <1>t, <2>1, ReportedSound
  <2>3. SyncTypeInv'
    BY <2>1, <2>2 DEF SyncTypeInv, RequestInv, TypeOK
  <2> QED BY <2>1, <2>3 DEF NoOrphan, TreeAtHeight, StateOf, WindowInv, Indexed
<1>4. CASE TickTimer
  <2>1. UNCHANGED <<height, maxHeight, blocks, index, pc, blk, tree, tip, peerHeight, net, channel,
                    sync, request, chunk>>
    BY <1>4 DEF TickTimer, cache, peers, worker
  <2> QED BY <2>1 DEF SyncTypeInv, RequestInv, TypeOK, NoOrphan, TreeAtHeight, StateOf, WindowInv, Indexed
<1> QED BY <1>1, <1>2, <1>3, <1>4 DEF Tick
\* What the sync worker takes from its channel is well formed.
LEMMA TakeSound ==
    ASSUME SyncInv, Take
    PROVE  Head(channel) \in Answers /\ channel' \in Seq(Answers) /\ pc # "dead"
    BY DEF SyncInv, SyncTypeInv, Take

\* Asking, waiting and giving up change neither the tree nor the cache.
LEMMA WaitStep ==
    ASSUME SyncInv,
           \/ Skip \/ AlreadyInSync \/ Accept \/ TakeSlow \/ SlowDone \/ FastRefused \/ Timeout
           \/ \E id \in Id, c \in Contract \cup {0} : Ask(id, c)
    PROVE  SyncInv'
<1> USE DEF SyncInv
<1>t. /\ TypeOK /\ height \in Height /\ maxHeight \in Height /\ net \subseteq Travelling
      /\ channel \in Seq(Answers) /\ DOMAIN request = {"id", "to", "kind", "peer"}
      /\ RequestInv /\ chunk \subseteq Height
  BY DEF SyncTypeInv, TypeOK
<1>k. UNCHANGED <<height, maxHeight, blocks, index, pc, blk, tree, tip, peerHeight>> /\ pc # "dead"
  BY DEF Skip, AlreadyInSync, Accept, TakeSlow, SlowDone, FastRefused, Timeout, Ask, Take, cache, peers
<1>m. SUFFICES /\ net' \subseteq Travelling /\ channel' \in Seq(Answers)
               /\ (DOMAIN request)' = {"id", "to", "kind", "peer"} /\ RequestInv'
               /\ chunk' \subseteq Height
               /\ Indexed = {} => sync' = "deliver" /\ chunk' = chunk
  BY <1>k DEF SyncTypeInv, TypeOK, NoOrphan, TreeAtHeight, StateOf, WindowInv, Indexed
<1>r. Rest => (DOMAIN request)' = {"id", "to", "kind", "peer"} /\ RequestInv' /\ chunk' \subseteq Height
  BY DEF Rest, NoRequest, RequestInv
<1>w. Indexed = {} => sync = "deliver"
  BY DEF WindowInv
<1>1. CASE Skip \/ AlreadyInSync
  <2>1. UNCHANGED <<net, sync, request, chunk>> /\ Take
    BY <1>1 DEF Skip, AlreadyInSync, worker
  <2>2. RequestInv'
    BY <1>t, <2>1 DEF RequestInv
  <2> QED BY <1>t, <1>w, <2>1, <2>2, TakeSound
<1>2. CASE Accept
  <2> DEFINE p == Head(channel).peer
             accept == [type |-> "accept", id |-> request.id, peer |-> p, from |-> height + 1,
                        to |-> request.to, kind |-> request.kind]
  <2>1. /\ Take /\ sync = "offer" /\ Head(channel).type = "offer"
        /\ request' = [request EXCEPT !.peer = p] /\ net' = net \cup {accept} /\ sync' = "chunk"
        /\ UNCHANGED chunk
    BY <1>2 DEF Accept, Offered
  <2>2. p \in Peer
    BY <2>1, TakeSound DEF Answers, SlowChunks, FastChunks
  <2>3. /\ request.id \in Id /\ request.to \in Nat /\ height + 1 \in Nat
        /\ request.kind = "slow" \/ (request.kind = "fast" /\ request.to \in 1..MaxHeight)
    BY <1>t, <2>1 DEF RequestInv
  <2>4. accept \in Travelling
    BY <2>2, <2>3 DEF Travelling
  <2>5. RequestInv' /\ (DOMAIN request)' = {"id", "to", "kind", "peer"}
    BY <1>t, <2>1, <2>3 DEF RequestInv
  <2> HIDE DEF accept
  <2> QED BY <1>t, <1>w, <2>1, <2>4, <2>5, TakeSound
<1>3. CASE TakeSlow
  <2>1. /\ Take /\ sync = "chunk" /\ Head(channel).type = "chunk" /\ Head(channel).kind = "slow"
        /\ chunk' = Head(channel).blocks /\ sync' = "apply" /\ UNCHANGED <<net, request>>
    BY <1>3 DEF TakeSlow, Answered
  <2>2. chunk' \subseteq Height
    BY <2>1, TakeSound DEF Answers, SlowChunks, FastChunks
  <2>3. RequestInv'
    BY <1>t, <2>1 DEF RequestInv
  <2> QED BY <1>t, <1>w, <2>1, <2>2, <2>3, TakeSound
<1>4. CASE SlowDone
  <2>1. sync = "apply" /\ UNCHANGED net /\ Rest /\ (channel' = channel \/ channel' = Reported)
    BY <1>4 DEF SlowDone
  <2>2. channel' \in Seq(Answers)
    BY <1>t, <2>1, ReportedSound
  <2> QED BY <1>t, <1>r, <1>w, <2>1, <2>2
<1>5. CASE FastRefused
  <2>1. Take /\ sync = "chunk" /\ UNCHANGED net /\ Rest
    BY <1>5 DEF FastRefused
  <2> QED BY <1>t, <1>r, <1>w, <2>1, TakeSound
<1>6. CASE Timeout
  <2>1. sync \in {"offer", "chunk"} /\ UNCHANGED <<net, channel>> /\ Rest
    BY <1>6 DEF Timeout
  <2> QED BY <1>t, <1>r, <1>w, <2>1
<1>7. ASSUME NEW id \in Id, NEW c \in Contract \cup {0}, Ask(id, c)
      PROVE  /\ net' \subseteq Travelling /\ channel' \in Seq(Answers)
             /\ (DOMAIN request)' = {"id", "to", "kind", "peer"} /\ RequestInv'
             /\ chunk' \subseteq Height
             /\ Indexed = {} => sync' = "deliver" /\ chunk' = chunk
  <2> DEFINE to == height + 1 + ChunkSize
  <2>1. /\ Take /\ sync = "idle" /\ sync' = "offer" /\ UNCHANGED chunk
        /\ net' = net \cup {[type |-> "request", id |-> id, peer |-> p, from |-> height + 1] : p \in Peer}
        /\ \/ request' = [id |-> id, peer |-> 0, to |-> to, kind |-> "slow"]
           \/ c > to /\ request' = [id |-> id, peer |-> 0, to |-> c, kind |-> "fast"]
    BY <1>7 DEF Ask
  <2>2. \A p \in Peer : [type |-> "request", id |-> id, peer |-> p, from |-> height + 1] \in Travelling
    BY <1>t DEF Travelling
  <2>3. net' \subseteq Travelling
    BY <1>t, <2>1, <2>2
  <2>4. to \in Nat /\ to >= 1 /\ c \in 0..MaxHeight
    BY <1>t, SyncAssumption
  <2> HIDE DEF to
  <2>5. RequestInv' /\ (DOMAIN request)' = {"id", "to", "kind", "peer"}
    <3>1. CASE request' = [id |-> id, peer |-> 0, to |-> to, kind |-> "slow"]
      BY <2>1, <2>4, <3>1 DEF RequestInv
    <3>2. CASE c > to /\ request' = [id |-> id, peer |-> 0, to |-> c, kind |-> "fast"]
      BY <2>1, <2>4, <3>2 DEF RequestInv
    <3> QED BY <2>1, <3>1, <3>2
  <2> QED BY <1>t, <1>w, <2>1, <2>3, <2>5, TakeSound
<1> QED BY <1>1, <1>2, <1>3, <1>4, <1>5, <1>6, <1>7
\* The sync worker hands the blocks of a slow chunk, or the target of a fast one, to the cache.
LEMMA ApplyStep ==
    ASSUME OneChain, SyncInv, ApplySlow \/ FastDeliver
    PROVE  SyncInv'
<1> USE DEF SyncInv
<1>t. /\ TypeOK /\ height \in Height /\ pc \in {"idle", "check", "dead"} /\ NoOrphan
      /\ chunk \subseteq Height /\ RequestInv
  BY DEF SyncTypeInv, TypeOK
<1>1. CASE ApplySlow
  <2>1. PICK h \in chunk : Receive(h) /\ chunk' = chunk \ {h}
    BY <1>1 DEF ApplySlow
  <2>2. sync = "apply" /\ UNCHANGED <<tree, tip, peerHeight, net, channel, sync, request>>
    BY <1>1 DEF ApplySlow, peers
  <2>3. TypeOK' /\ NoOrphan' /\ UNCHANGED <<height, pc>> /\ (Indexed # {} => Indexed' # {})
    BY <1>t, <2>1, ReceiveSound
  <2>4. SyncTypeInv'
    BY <1>t, <2>1, <2>2, <2>3 DEF SyncTypeInv, RequestInv
  <2> QED BY <2>2, <2>3, <2>4 DEF TreeAtHeight, StateOf, WindowInv
<1>2. CASE FastDeliver
  <2>1. PICK to \in chunk : Receive(to)
    BY <1>2 DEF FastDeliver
  <2>2. /\ UNCHANGED <<tree, tip, peerHeight, net, channel>> /\ Rest /\ pc # "dead"
        /\ sync = "deliver"
    BY <1>2 DEF FastDeliver, peers
  <2>3. /\ TypeOK' /\ NoOrphan' /\ UNCHANGED <<height, pc>>
        /\ Indexed # {} \/ to >= height => Indexed' # {}
    BY <1>t, <2>1, ReceiveSound
  <2>4. Indexed' # {}
    BY <1>t, <2>1, <2>3 DEF WindowInv
  <2>5. /\ request' = [id |-> 0, to |-> 0, kind |-> "slow", peer |-> 0] /\ sync' = "idle" /\ chunk' = {}
    BY <2>2 DEF Rest, NoRequest
  <2>6. RequestInv' /\ (DOMAIN request)' = {"id", "to", "kind", "peer"}
    BY <2>5 DEF RequestInv
  <2>7. SyncTypeInv'
    BY <2>2, <2>3, <2>5, <2>6 DEF SyncTypeInv
  <2> QED BY <2>2, <2>3, <2>4, <2>7 DEF TreeAtHeight, StateOf, WindowInv
<1> QED BY <1>1, <1>2

\* A fast snapshot that fits leaves the tree at the state below its target, and the cache
\* confirmed up to there.
LEMMA FastStep ==
    ASSUME OneChain, SyncInv, FastInsert
    PROVE  SyncInv'
<1> USE DEF SyncInv
<1>t. /\ TypeOK /\ height \in Height /\ NoOrphan /\ RequestInv
      /\ DOMAIN request = {"id", "to", "kind", "peer"} /\ pc \in {"idle", "check", "dead"}
  BY DEF SyncTypeInv, TypeOK
<1>1. PICK to \in Head(channel).blocks :
         /\ Fits(to) /\ tree' = tree \cup (Missing \ {to})
         /\ Confirm(to - 1) /\ chunk' = {to}
  BY DEF FastInsert
<1>2. /\ Take /\ sync = "chunk" /\ sync' = "deliver" /\ Head(channel).type = "chunk"
      /\ Head(channel).kind = "fast"
      /\ UNCHANGED <<maxHeight, pc, blk, tip, peerHeight, net, request>>
  BY DEF FastInsert, Answered, peers
<1>3. to \in 1..MaxHeight
  BY <1>1, <1>2, TakeSound DEF Answers, SlowChunks, FastChunks
<1>4. TypeOK' /\ NoOrphan' /\ height' = to - 1
  <2>1. to - 1 \in Height
    BY <1>3
  <2> QED BY <1>t, <1>1, <1>2, <2>1, ConfirmSound DEF Confirm
<1>5. TreeAtHeight'
  <2>1. tree' = StateOf(to) \ {to}
    BY <1>1 DEF Fits, StateOf, Missing
  <2>2. StateOf(to) \ {to} = StateOf(to - 1)
    BY <1>3 DEF StateOf
  <2> QED BY <1>4, <2>1, <2>2 DEF TreeAtHeight, StateOf
<1>6. SyncTypeInv'
  <2>1. RequestInv'
    BY <1>t, <1>2 DEF RequestInv
  <2> QED BY <1>t, <1>1, <1>2, <1>3, <1>4, <2>1, TakeSound DEF SyncTypeInv
<1>7. WindowInv'
  <2>1. chunk' = {height' + 1}
    BY <1>1, <1>3, <1>4
  <2> QED BY <1>2, <2>1 DEF WindowInv
<1> QED BY <1>4, <1>5, <1>6, <1>7

\* Every step of the follower and its peers keeps the invariant.
LEMMA SyncStep ==
    ASSUME OneChain, SyncInv, [SyncNext]_syncVars
    PROVE  SyncInv'
<1>1. CASE Broadcast \/ (\E p \in Peer : PeerCommit(p) \/ Serve(p)) \/ (\E m \in net : Lose(m))
  BY <1>1, PeersStep
<1>2. CASE Deliver
  BY <1>2, PeersStep, DeliverStep DEF Deliver
<1>3. CASE Tick
  BY <1>3, TickStep
<1>4. CASE Work \/ Timeout
  BY <1>4, WaitStep, ApplyStep, FastStep DEF Work
<1>5. CASE UNCHANGED syncVars
  BY <1>5 DEF syncVars, cache, peers, worker, SyncInv, SyncTypeInv, RequestInv, TypeOK, NoOrphan,
              TreeAtHeight, StateOf, WindowInv, Indexed
<1> QED BY <1>1, <1>2, <1>3, <1>4, <1>5 DEF SyncNext

(* Whichever offers and chunks are lost, late or answered twice, whatever  *)
(* is committed or received between a request, its offer and its chunk,    *)
(* and however far back a late fast snapshot sets the height: the notes    *)
(* tree is the state of the confirmed height.                              *)
THEOREM TreeAtHeightHolds ==
    ASSUME OneChain
    PROVE  SyncSpec => []TreeAtHeight
<1>1. SyncInit => SyncInv
  BY SyncInitInv
<1>2. SyncInv /\ [SyncNext]_syncVars => SyncInv'
  BY SyncStep
<1>3. SyncInv => TreeAtHeight
  BY DEF SyncInv
<1> QED BY <1>1, <1>2, <1>3, PTL DEF SyncSpec

(* is_out_of_sync finds an empty index, and panics, only between the two   *)
(* steps of handle_snapshot_chunk_fast.                                    *)
THEOREM PanicOnlyInWindowHolds ==
    ASSUME OneChain
    PROVE  SyncSpec => []PanicOnlyInWindow
<1>1. SyncInit => SyncInv
  BY SyncInitInv
<1>2. SyncInv /\ [SyncNext]_syncVars => SyncInv'
  BY SyncStep
<1>3. SyncInv => PanicOnlyInWindow
  BY DEF SyncInv, WindowInv, PanicOnlyInWindow
<1> QED BY <1>1, <1>2, <1>3, PTL DEF SyncSpec

HIDE CacheAssumption DEF Height

-----------------------------------------------------------------------------
(* Circuits: the tree.                                                     *)

(* The nodes of a path from a leaf to the root, and from a root to a leaf. *)
IsUp(u, leaf, siblings, bits) ==
    u = [i \in 0 .. Depth |-> IF i = 0 THEN leaf ELSE Hash(bits[i], u[i - 1], siblings[i])]
IsDown(d, root, bits) ==
    d = [i \in 0 .. Depth |-> IF i = Depth THEN root ELSE d[i + 1][bits[i + 1] + 1]]

\* A path from a leaf up to a root is defined.
LEMMA UpExists ==
    ASSUME NEW leaf, NEW siblings, NEW bits
    PROVE  \E u : IsUp(u, leaf, siblings, bits) /\ MerkleRoot(leaf, siblings, bits) = u[Depth]
<1> USE CircuitsAssumption
<1> DEFINE Upto(n, u) == u = [i \in 0 .. n |-> IF i = 0 THEN leaf ELSE Hash(bits[i], u[i - 1], siblings[i])]
           Bad == {n \in Nat : ~ \E u : Upto(n, u)}
<1>1. Bad = {}
  <2> SUFFICES ASSUME Bad # {} PROVE FALSE
    OBVIOUS
  <2>1. PICK n \in Bad : \A m \in Bad : n <= m
    BY LeastExists
  <2>2. n # 0
    <3> DEFINE u == [i \in 0 .. 0 |-> leaf]
    <3>1. Upto(0, u)
      OBVIOUS
    <3> HIDE DEF Upto
    <3> QED BY <3>1
  <2>3. n \in Nat /\ n - 1 \in Nat /\ n - 1 \notin Bad
    <3>1. n \in Nat
      OBVIOUS
    <3> HIDE DEF Bad
    <3> QED BY <2>1, <2>2, <3>1
  <2>4. PICK u : Upto(n - 1, u)
    BY <2>3
  <2> DEFINE v == [i \in 0 .. n |-> IF i = n THEN Hash(bits[n], u[n - 1], siblings[n]) ELSE u[i]]
  <2>5. ASSUME NEW i \in 0 .. n
        PROVE  v[i] = IF i = 0 THEN leaf ELSE Hash(bits[i], v[i - 1], siblings[i])
    <3>1. CASE i = n
      <4>1. v[n - 1] = u[n - 1]
        BY <2>2, <2>3
      <4> QED BY <2>2, <3>1, <4>1
    <3>2. CASE i # n
      <4>1. i \in 0 .. n - 1 /\ v[i] = u[i]
        BY <2>3, <3>2
      <4>2. i # 0 => i - 1 \in 0 .. n /\ i - 1 # n /\ v[i - 1] = u[i - 1]
        BY <2>3, <4>1
      <4>3. u[i] = IF i = 0 THEN leaf ELSE Hash(bits[i], u[i - 1], siblings[i])
        BY <2>4, <4>1
      <4> HIDE DEF v
      <4> QED BY <4>1, <4>2, <4>3
    <3> QED BY <3>1, <3>2
  <2>6. v = [i \in 0 .. n |-> v[i]]
    OBVIOUS
  <2>7. Upto(n, v)
    <3> HIDE DEF v
    <3> QED BY <2>5, <2>6
  <2> HIDE DEF Upto
  <2> QED BY <2>1, <2>7
<1>2. \E u : IsUp(u, leaf, siblings, bits)
  <2>1. \E u : Upto(Depth, u)
    BY <1>1
  <2> QED BY <2>1 DEF IsUp
<1> DEFINE up == CHOOSE u : IsUp(u, leaf, siblings, bits)
<1>3. MerkleRoot(leaf, siblings, bits) = up[Depth]
  BY DEF MerkleRoot, IsUp
<1>4. IsUp(up, leaf, siblings, bits)
  BY <1>2
<1> QED BY <1>3, <1>4

\* The nodes of a path from the root down are defined too.
LEMMA DownExists ==
    ASSUME NEW root, NEW bits
    PROVE  IsDown(NodeAt(root, bits), root, bits)
<1> USE CircuitsAssumption
<1> DEFINE Upto(n, d) == d = [i \in Depth - n .. Depth |-> IF i = Depth THEN root ELSE d[i + 1][bits[i + 1] + 1]]
           Bad == {n \in 0 .. Depth : ~ \E d : Upto(n, d)}
<1>1. Bad = {}
  <2> SUFFICES ASSUME Bad # {} PROVE FALSE
    OBVIOUS
  <2>1. PICK n \in Bad : \A m \in Bad : n <= m
    <3>1. Bad \subseteq Nat
      OBVIOUS
    <3> HIDE DEF Bad
    <3> QED BY <3>1, LeastExists
  <2>2. n # 0
    <3> DEFINE d == [i \in Depth - 0 .. Depth |-> root]
    <3>1. Upto(0, d)
      OBVIOUS
    <3> HIDE DEF Upto
    <3> QED BY <3>1
  <2>3. n \in 1 .. Depth /\ n - 1 \in 0 .. Depth /\ n - 1 \notin Bad
    <3>1. n \in 0 .. Depth
      OBVIOUS
    <3> HIDE DEF Bad
    <3> QED BY <2>1, <2>2, <3>1
  <2>4. PICK d : Upto(n - 1, d)
    BY <2>3
  <2> DEFINE k == Depth - n
             e == [i \in k .. Depth |-> IF i = k THEN d[k + 1][bits[k + 1] + 1] ELSE d[i]]
  <2>5. k \in 0 .. Depth - 1 /\ Depth - (n - 1) = k + 1
    BY <2>3
  <2>6. d = [i \in k + 1 .. Depth |-> IF i = Depth THEN root ELSE d[i + 1][bits[i + 1] + 1]]
    BY <2>4, <2>5
  <2> HIDE DEF k
  <2>7. ASSUME NEW i \in k .. Depth
        PROVE  e[i] = IF i = Depth THEN root ELSE e[i + 1][bits[i + 1] + 1]
    <3>1. CASE i = k
      <4>1. e[k + 1] = d[k + 1] /\ k # Depth
        BY <2>5
      <4> QED BY <3>1, <4>1
    <3>2. CASE i # k
      <4>1. i \in k + 1 .. Depth /\ e[i] = d[i]
        BY <2>5, <3>2
      <4>2. i # Depth => i + 1 \in k .. Depth /\ i + 1 # k /\ e[i + 1] = d[i + 1]
        BY <2>5, <4>1
      <4>3. d[i] = IF i = Depth THEN root ELSE d[i + 1][bits[i + 1] + 1]
        BY <2>6, <4>1
      <4> HIDE DEF e
      <4> QED BY <4>1, <4>2, <4>3
    <3> QED BY <3>1, <3>2
  <2>8. e = [i \in k .. Depth |-> e[i]]
    OBVIOUS
  <2>9. Upto(n, e)
    <3> HIDE DEF e
    <3> QED BY <2>7, <2>8 DEF k
  <2> HIDE DEF Upto
  <2> QED BY <2>1, <2>9
<1>2. \E d : IsDown(d, root, bits)
  <2>1. \E d : Upto(Depth, d)
    <3>1. Depth \in 0 .. Depth
      OBVIOUS
    <3> HIDE DEF Upto
    <3> QED BY <1>1, <3>1
  <2>2. Depth - Depth = 0
    OBVIOUS
  <2> QED BY <2>1, <2>2 DEF IsDown
<1>3. NodeAt(root, bits) = CHOOSE d : IsDown(d, root, bits)
  BY DEF NodeAt, IsDown
<1> QED BY <1>2, <1>3

\* What lies below a node does not depend on what is above it.
LEMMA Below ==
    ASSUME NEW r1, NEW r2, NEW b1, NEW b2, NEW d \in 0 .. Depth,
           NodeAt(r1, b1)[d] = NodeAt(r2, b2)[d], \A i \in 1 .. d : b1[i] = b2[i]
    PROVE  \A i \in 0 .. d : NodeAt(r1, b1)[i] = NodeAt(r2, b2)[i]
<1> USE CircuitsAssumption
<1> DEFINE C == {i \in 0 .. d : NodeAt(r1, b1)[i] # NodeAt(r2, b2)[i]}
<1> SUFFICES ASSUME C # {} PROVE FALSE
  OBVIOUS
<1>1. PICK i \in C : \A j \in C : j <= i
  <2>1. C \subseteq 0 .. d /\ d \in Nat
    OBVIOUS
  <2> HIDE DEF C
  <2> QED BY <2>1, GreatestExists
<1>2. i \in 0 .. d - 1 /\ i + 1 \in 1 .. d
  OBVIOUS
<1>3. NodeAt(r1, b1)[i + 1] = NodeAt(r2, b2)[i + 1]
  <2>1. i + 1 \notin C
    <3> HIDE DEF C
    <3> QED BY <1>1, <1>2
  <2> QED BY <1>2, <2>1
<1>4. /\ NodeAt(r1, b1)[i] = NodeAt(r1, b1)[i + 1][b1[i + 1] + 1]
      /\ NodeAt(r2, b2)[i] = NodeAt(r2, b2)[i + 1][b2[i + 1] + 1]
  BY <1>2, DownExists DEF IsDown
<1> QED BY <1>2, <1>3, <1>4

\* The nodes of a path that is computed upwards are those found downwards.
LEMMA UpIsDown ==
    ASSUME NEW leaf, NEW siblings, NEW bits \in BitSeqs, NEW u, IsUp(u, leaf, siblings, bits)
    PROVE  \A i \in 0 .. Depth : NodeAt(u[Depth], bits)[i] = u[i]
<1> USE CircuitsAssumption
<1> DEFINE C == {i \in 0 .. Depth : NodeAt(u[Depth], bits)[i] # u[i]}
<1> SUFFICES ASSUME C # {} PROVE FALSE
  OBVIOUS
<1>1. PICK i \in C : \A j \in C : j <= i
  <2>1. C \subseteq 0 .. Depth /\ Depth \in Nat
    OBVIOUS
  <2> HIDE DEF C
  <2> QED BY <2>1, GreatestExists
<1>2. NodeAt(u[Depth], bits)[Depth] = u[Depth]
  BY DownExists DEF IsDown
<1>3. i \in 0 .. Depth - 1 /\ i + 1 \in 1 .. Depth
  BY <1>2
<1>4. NodeAt(u[Depth], bits)[i + 1] = u[i + 1]
  <2>1. i + 1 \notin C
    <3> HIDE DEF C
    <3> QED BY <1>1, <1>3
  <2> QED BY <1>3, <2>1
<1>5. u[i + 1] = Hash(bits[i + 1], u[i], siblings[i + 1])
  <2>1. \A k \in 1 .. Depth : u[k] = Hash(bits[k], u[k - 1], siblings[k])
    BY DEF IsUp
  <2>2. (i + 1) - 1 = i
    BY <1>3
  <2> QED BY <1>3, <2>1, <2>2
<1>6. bits[i + 1] \in {0, 1}
  BY <1>3 DEF BitSeqs
<1>7. u[i + 1][bits[i + 1] + 1] = u[i]
  BY <1>5, <1>6 DEF Hash
<1>8. NodeAt(u[Depth], bits)[i] = NodeAt(u[Depth], bits)[i + 1][bits[i + 1] + 1]
  BY <1>3, DownExists DEF IsDown
<1> QED BY <1>4, <1>7, <1>8

\* A path of siblings and the root it leads to.
LEMMA PathOf ==
    ASSUME NEW leaf, NEW siblings, NEW bits \in BitSeqs
    PROVE  /\ LeafAt(MerkleRoot(leaf, siblings, bits), bits) = leaf
           /\ \A i \in 1 .. Depth :
                 NodeAt(MerkleRoot(leaf, siblings, bits), bits)[i][2 - bits[i]] = siblings[i]
<1> USE CircuitsAssumption
<1>1. PICK u : IsUp(u, leaf, siblings, bits) /\ MerkleRoot(leaf, siblings, bits) = u[Depth]
  BY UpExists
<1>2. \A i \in 0 .. Depth : NodeAt(MerkleRoot(leaf, siblings, bits), bits)[i] = u[i]
  BY <1>1, UpIsDown
<1>3. u[0] = leaf /\ \A i \in 1 .. Depth : u[i] = Hash(bits[i], u[i - 1], siblings[i])
  BY <1>1 DEF IsUp
<1>4. \A i \in 1 .. Depth : u[i][2 - bits[i]] = siblings[i]
  <2> SUFFICES ASSUME NEW i \in 1 .. Depth PROVE u[i][2 - bits[i]] = siblings[i]
    OBVIOUS
  <2>1. bits[i] \in {0, 1}
    BY DEF BitSeqs
  <2>2. u[i] = Hash(bits[i], u[i - 1], siblings[i])
    BY <1>3
  <2>3. CASE bits[i] = 0
    BY <2>2, <2>3 DEF Hash
  <2>4. CASE bits[i] = 1
    BY <2>2, <2>4 DEF Hash
  <2> QED BY <2>1, <2>3, <2>4
<1> QED BY <1>2, <1>3, <1>4 DEF LeafAt

(* On the path b of two trees: above d the nodes of the path bits of the   *)
(* new tree, below those of the old tree.                                  *)
SplitsAt(d, root, new, bits, b) ==
    /\ \A i \in 0 .. d - 1 : NodeAt(new, b)[i] = NodeAt(root, b)[i]
    /\ \A i \in d .. Depth : NodeAt(new, b)[i] = NodeAt(new, bits)[i]

\* A path that is recomputed leaves what is off it.
LEMMA OffPath ==
    ASSUME NEW root, NEW bits \in BitSeqs, NEW leaf, NEW b \in BitSeqs \ {bits}
    PROVE  \E d \in 1 .. Depth :
              SplitsAt(d, root, MerkleRoot(leaf, Siblings(root, bits), bits), bits, b)
<1> USE CircuitsAssumption
<1> DEFINE sib == Siblings(root, bits)
           new == MerkleRoot(leaf, sib, bits)
<1> DEFINE D == {i \in 1 .. Depth : b[i] # bits[i]}
<1>1. D # {}
  BY DEF BitSeqs
<1>2. PICK d \in D : \A i \in D : i <= d
  <2>1. D \subseteq 0 .. Depth /\ Depth \in Nat
    OBVIOUS
  <2> HIDE DEF D
  <2> QED BY <1>1, <2>1, GreatestExists
<1>3. d \in 1 .. Depth /\ d \in 0 .. Depth /\ d - 1 \in 0 .. Depth /\ (d - 1) + 1 = d /\ d - 1 # Depth
  OBVIOUS
<1>4. \A i \in d + 1 .. Depth : b[i] = bits[i]
  <2>1. \A i \in d + 1 .. Depth : i \in 1 .. Depth /\ ~(i <= d)
    BY <1>3
  <2> QED BY <1>2, <2>1
<1>5. ASSUME NEW r PROVE \A i \in d .. Depth : NodeAt(r, b)[i] = NodeAt(r, bits)[i]
  <2> DEFINE C == {i \in d .. Depth : NodeAt(r, b)[i] # NodeAt(r, bits)[i]}
  <2> SUFFICES ASSUME C # {} PROVE FALSE
    OBVIOUS
  <2>1. PICK i \in C : \A j \in C : j <= i
    <3>1. C \subseteq 0 .. Depth /\ Depth \in Nat
      BY <1>3
    <3> HIDE DEF C
    <3> QED BY <3>1, GreatestExists
  <2>2. NodeAt(r, b)[Depth] = r /\ NodeAt(r, bits)[Depth] = r
    BY DownExists DEF IsDown
  <2>3. i \in d .. Depth - 1 /\ i \in 0 .. Depth - 1 /\ i + 1 \in d + 1 .. Depth
    BY <1>3, <2>2
  <2>4. NodeAt(r, b)[i + 1] = NodeAt(r, bits)[i + 1]
    <3>1. i + 1 \notin C
      <4> HIDE DEF C
      <4> QED BY <2>1, <2>3
    <3>2. i + 1 \in d .. Depth
      BY <2>3, <1>3
    <3> QED BY <3>1, <3>2
  <2>5. /\ NodeAt(r, b)[i] = NodeAt(r, b)[i + 1][b[i + 1] + 1]
        /\ NodeAt(r, bits)[i] = NodeAt(r, bits)[i + 1][bits[i + 1] + 1]
    <3>1. i \in 0 .. Depth /\ i # Depth
      BY <2>3
    <3>2. IsDown(NodeAt(r, b), r, b) /\ IsDown(NodeAt(r, bits), r, bits)
      BY DownExists
    <3> HIDE DEF C
    <3> QED BY <3>1, <3>2 DEF IsDown
  <2> QED BY <1>4, <2>3, <2>4, <2>5
<1>6. ASSUME NEW r PROVE NodeAt(r, b)[d - 1] = NodeAt(r, bits)[d][2 - bits[d]]
  <2>1. NodeAt(r, b)[d - 1] = NodeAt(r, b)[d][b[d] + 1]
    <3>1. NodeAt(r, b)[d - 1] = NodeAt(r, b)[(d - 1) + 1][b[(d - 1) + 1] + 1]
      BY <1>3, DownExists DEF IsDown
    <3> QED BY <1>3, <3>1
  <2>2. b[d] \in {0, 1} /\ bits[d] \in {0, 1} /\ b[d] # bits[d]
    BY <1>3 DEF BitSeqs
  <2>3. b[d] + 1 = 2 - bits[d]
    BY <2>2
  <2> QED BY <1>5, <2>1, <2>3
<1>7. sib[d] = NodeAt(root, bits)[d][2 - bits[d]]
  BY <1>3 DEF Siblings
<1>8. NodeAt(new, bits)[d][2 - bits[d]] = sib[d]
  BY <1>3, PathOf
<1>9. NodeAt(new, b)[d - 1] = NodeAt(root, b)[d - 1]
  BY <1>6, <1>7, <1>8
<1>10. \A i \in 0 .. d - 1 : NodeAt(new, b)[i] = NodeAt(root, b)[i]
  <2> HIDE DEF new
  <2> QED BY <1>3, <1>9, Below
<1>11. \A i \in d .. Depth : NodeAt(new, b)[i] = NodeAt(new, bits)[i]
  BY <1>5
<1> HIDE DEF new, sib
<1>12. SplitsAt(d, root, new, bits, b)
  BY <1>10, <1>11 DEF SplitsAt
<1> QED BY <1>3, <1>12 DEF new, sib

\* An insertion along a path changes the leaf at its end and no other.
LEMMA PathInsert ==
    ASSUME NEW root, NEW bits \in BitSeqs, NEW leaf,
           MerkleRoot(Zero, Siblings(root, bits), bits) = root
    PROVE  /\ LeafAt(root, bits) = Zero
           /\ LeafAt(MerkleRoot(leaf, Siblings(root, bits), bits), bits) = leaf
           /\ \A b \in BitSeqs \ {bits} :
                 LeafAt(MerkleRoot(leaf, Siblings(root, bits), bits), b) = LeafAt(root, b)
<1> USE CircuitsAssumption
<1> DEFINE new == MerkleRoot(leaf, Siblings(root, bits), bits)
<1>1. LeafAt(root, bits) = Zero /\ LeafAt(new, bits) = leaf
  BY PathOf
<1>2. ASSUME NEW b \in BitSeqs \ {bits} PROVE LeafAt(new, b) = LeafAt(root, b)
  <2>1. PICK d \in 1 .. Depth : SplitsAt(d, root, new, bits, b)
    BY OffPath
  <2>2. 0 \in 0 .. d - 1
    BY <2>1
  <2> HIDE DEF new
  <2> QED BY <2>1, <2>2 DEF LeafAt, SplitsAt
<1> QED BY <1>1, <1>2

(* Every node above the leaves has two children.                           *)
Paired(root) == \A b \in BitSeqs : \A i \in 1 .. Depth :
                 NodeAt(root, b)[i] = <<NodeAt(root, b)[i][1], NodeAt(root, b)[i][2]>>

\* The path of a full tree leads from a leaf to its root.
LEMMA PathBack ==
    ASSUME NEW root, Paired(root), NEW b \in BitSeqs
    PROVE  MerkleRoot(LeafAt(root, b), Siblings(root, b), b) = root
<1> USE CircuitsAssumption
<1> DEFINE leaf == LeafAt(root, b)
           sib == Siblings(root, b)
<1>1. PICK u : IsUp(u, leaf, sib, b) /\ MerkleRoot(leaf, sib, b) = u[Depth]
  BY UpExists
<1> DEFINE C == {i \in 0 .. Depth : u[i] # NodeAt(root, b)[i]}
<1>2. C = {}
  <2> SUFFICES ASSUME C # {} PROVE FALSE
    OBVIOUS
  <2>1. PICK i \in C : \A j \in C : i <= j
    <3>1. C \subseteq Nat
      OBVIOUS
    <3> HIDE DEF C
    <3> QED BY <3>1, LeastExists
  <2>2. u[0] = NodeAt(root, b)[0]
    BY <1>1 DEF IsUp, LeafAt
  <2>3. i \in 1 .. Depth /\ i - 1 \in 0 .. Depth /\ i - 1 # Depth /\ (i - 1) + 1 = i
    BY <2>2
  <2>4. u[i - 1] = NodeAt(root, b)[i - 1]
    <3>1. i - 1 \notin C
      <4> HIDE DEF C
      <4> QED BY <2>1, <2>3
    <3> QED BY <2>3, <3>1
  <2>5. u[i] = Hash(b[i], u[i - 1], sib[i])
    BY <1>1, <2>3 DEF IsUp
  <2>6. sib[i] = NodeAt(root, b)[i][2 - b[i]]
    BY <2>3 DEF Siblings
  <2>7. NodeAt(root, b)[i - 1] = NodeAt(root, b)[i][b[i] + 1]
    <3>1. NodeAt(root, b)[i - 1] = NodeAt(root, b)[(i - 1) + 1][b[(i - 1) + 1] + 1]
      BY <2>3, DownExists DEF IsDown
    <3> QED BY <2>3, <3>1
  <2>8. NodeAt(root, b)[i] = <<NodeAt(root, b)[i][1], NodeAt(root, b)[i][2]>>
    BY <2>3 DEF Paired
  <2>9. b[i] \in {0, 1}
    BY <2>3 DEF BitSeqs
  <2> HIDE DEF sib, leaf
  <2>10. CASE b[i] = 0
    BY <2>4, <2>5, <2>6, <2>7, <2>8, <2>10 DEF Hash
  <2>11. CASE b[i] = 1
    BY <2>4, <2>5, <2>6, <2>7, <2>8, <2>11 DEF Hash
  <2> QED BY <2>9, <2>10, <2>11
<1>3. u[Depth] = NodeAt(root, b)[Depth]
  BY <1>2
<1>4. NodeAt(root, b)[Depth] = root
  BY DownExists DEF IsDown
<1> QED BY <1>1, <1>3, <1>4

\* A full tree stays full when a path of it is recomputed.
LEMMA FullAfter ==
    ASSUME NEW root, Paired(root), NEW bits \in BitSeqs, NEW leaf
    PROVE  Paired(MerkleRoot(leaf, Siblings(root, bits), bits))
<1> USE CircuitsAssumption
<1> DEFINE sib == Siblings(root, bits)
           new == MerkleRoot(leaf, sib, bits)
<1>1. PICK u : IsUp(u, leaf, sib, bits) /\ new = u[Depth]
  BY UpExists
<1>2. \A i \in 0 .. Depth : NodeAt(new, bits)[i] = u[i]
  BY <1>1, UpIsDown
<1>3. ASSUME NEW i \in 1 .. Depth
      PROVE  NodeAt(new, bits)[i] = <<NodeAt(new, bits)[i][1], NodeAt(new, bits)[i][2]>>
  <2>1. u[i] = Hash(bits[i], u[i - 1], sib[i])
    BY <1>1 DEF IsUp
  <2>2. u[i] = <<u[i][1], u[i][2]>>
    BY <2>1 DEF Hash
  <2> HIDE DEF new
  <2> QED BY <1>2, <2>2
<1>4. ASSUME NEW b \in BitSeqs, NEW i \in 1 .. Depth
      PROVE  NodeAt(new, b)[i] = <<NodeAt(new, b)[i][1], NodeAt(new, b)[i][2]>>
  <2>1. CASE b = bits
    BY <1>3, <2>1
  <2>2. CASE b # bits
    <3>1. PICK d \in 1 .. Depth : SplitsAt(d, root, new, bits, b)
      BY <2>2, OffPath
    <3>2. i \in 0 .. d - 1 \/ i \in d .. Depth
      BY <3>1
    <3> HIDE DEF new
    <3> QED BY <1>3, <3>1, <3>2 DEF Paired, SplitsAt
  <2> QED BY <2>1, <2>2
<1> HIDE DEF new
<1> QED BY <1>4 DEF Paired, new

\* The empty tree is full and has no leaf.
LEMMA EmptyLeaves ==
    Paired(EmptyRoot) /\ \A b \in BitSeqs : LeafAt(EmptyRoot, b) = Zero
<1> USE CircuitsAssumption
<1> DEFINE Upto(n, e) == e = [i \in 0 .. n |-> IF i = 0 THEN Zero ELSE <<e[i - 1], e[i - 1]>>]
           Bad == {n \in Nat : ~ \E e : Upto(n, e)}
<1>1. Bad = {}
  <2> SUFFICES ASSUME Bad # {} PROVE FALSE
    OBVIOUS
  <2>1. PICK n \in Bad : \A m \in Bad : n <= m
    BY LeastExists
  <2>2. n # 0
    <3> DEFINE e == [i \in 0 .. 0 |-> Zero]
    <3>1. Upto(0, e)
      OBVIOUS
    <3> HIDE DEF Upto
    <3> QED BY <3>1
  <2>3. n \in Nat /\ n - 1 \in Nat /\ n - 1 \notin Bad
    <3>1. n \in Nat
      OBVIOUS
    <3> HIDE DEF Bad
    <3> QED BY <2>1, <2>2, <3>1
  <2>4. PICK e : Upto(n - 1, e)
    BY <2>3
  <2> DEFINE v == [i \in 0 .. n |-> IF i = n THEN <<e[n - 1], e[n - 1]>> ELSE e[i]]
  <2>5. ASSUME NEW i \in 0 .. n
        PROVE  v[i] = IF i = 0 THEN Zero ELSE <<v[i - 1], v[i - 1]>>
    <3>1. CASE i = n
      <4>1. v[n - 1] = e[n - 1]
        BY <2>2, <2>3
      <4> QED BY <2>2, <3>1, <4>1
    <3>2. CASE i # n
      <4>1. i \in 0 .. n - 1 /\ v[i] = e[i]
        BY <2>3, <3>2
      <4>2. i # 0 => i - 1 \in 0 .. n /\ i - 1 # n /\ v[i - 1] = e[i - 1]
        BY <2>3, <4>1
      <4>3. e[i] = IF i = 0 THEN Zero ELSE <<e[i - 1], e[i - 1]>>
        BY <2>4, <4>1
      <4> HIDE DEF v
      <4> QED BY <4>1, <4>2, <4>3
    <3> QED BY <3>1, <3>2
  <2>6. v = [i \in 0 .. n |-> v[i]]
    OBVIOUS
  <2>7. Upto(n, v)
    <3> HIDE DEF v
    <3> QED BY <2>5, <2>6
  <2> HIDE DEF Upto
  <2> QED BY <2>1, <2>7
<1> DEFINE empty == CHOOSE e : Upto(Depth, e)
<1>2. EmptyRoot = empty[Depth]
  BY DEF EmptyRoot
<1>3. Upto(Depth, empty)
  <2>1. \E e : Upto(Depth, e)
    BY <1>1
  <2> HIDE DEF Upto
  <2> QED BY <2>1
<1> HIDE DEF empty
<1> SUFFICES ASSUME NEW b \in BitSeqs
             PROVE  /\ LeafAt(EmptyRoot, b) = Zero
                    /\ \A i \in 1 .. Depth : NodeAt(EmptyRoot, b)[i]
                          = <<NodeAt(EmptyRoot, b)[i][1], NodeAt(EmptyRoot, b)[i][2]>>
  BY DEF Paired
<1> DEFINE sib == [i \in 1 .. Depth |-> empty[i - 1]]
<1>4. ASSUME NEW i \in 0 .. Depth
      PROVE  empty[i] = IF i = 0 THEN Zero ELSE Hash(b[i], empty[i - 1], sib[i])
  <2>1. empty[i] = IF i = 0 THEN Zero ELSE <<empty[i - 1], empty[i - 1]>>
    BY <1>3
  <2>2. i # 0 => i \in 1 .. Depth
    OBVIOUS
  <2> QED BY <2>1, <2>2 DEF Hash
<1>5. empty = [i \in 0 .. Depth |-> empty[i]]
  BY <1>3
<1>6. IsUp(empty, Zero, sib, b)
  <2> HIDE DEF sib, Upto
  <2> QED BY <1>4, <1>5 DEF IsUp
<1>7. \A i \in 0 .. Depth : NodeAt(EmptyRoot, b)[i] = empty[i]
  <2> HIDE DEF sib
  <2> QED BY <1>2, <1>6, UpIsDown
<1>8. empty[0] = Zero
  BY <1>3
<1>9. \A i \in 1 .. Depth : empty[i] = <<empty[i][1], empty[i][2]>>
  <2>1. ASSUME NEW i \in 1 .. Depth PROVE empty[i] = <<empty[i - 1], empty[i - 1]>>
    <3>1. i \in 0 .. Depth /\ i # 0
      OBVIOUS
    <3>2. empty[i] = IF i = 0 THEN Zero ELSE <<empty[i - 1], empty[i - 1]>>
      BY <1>3, <3>1
    <3> QED BY <3>1, <3>2
  <2> HIDE DEF Upto
  <2> QED BY <2>1
<1> HIDE DEF Upto, sib
<1> QED BY <1>7, <1>8, <1>9 DEF LeafAt

(* Every leaf is at its position; so it is in the tree once.               *)
Placed(root) == \A b \in BitSeqs : LeafAt(root, b) # Zero => b = Position(LeafAt(root, b))

\* The circuit proves the insertion of new leaves only.
LEMMA InsertLeafIs ==
    ASSUME NEW root, Placed(root), NEW leaf, leaf # Zero => Position(leaf) \in BitSeqs,
           NEW new \in InsertLeaf(root, leaf)
    PROVE  /\ Placed(new) /\ Leaves(new) = Leaves(root) \cup ({leaf} \ {Zero})
           /\ leaf \notin Leaves(root)
<1>1. CASE leaf = Zero
  BY <1>1 DEF InsertLeaf, Leaves
<1>2. CASE leaf # Zero
  <2> DEFINE p == Position(leaf)
  <2>1. p \in BitSeqs
    BY <1>2
  <2>2. MerkleRoot(Zero, Siblings(root, p), p) = root /\ new = MerkleRoot(leaf, Siblings(root, p), p)
    BY <1>2 DEF InsertLeaf, InsertOldRoot, InsertNewRoot
  <2>3. /\ LeafAt(root, p) = Zero /\ LeafAt(new, p) = leaf
        /\ \A b \in BitSeqs \ {p} : LeafAt(new, b) = LeafAt(root, b)
    <3> HIDE DEF p
    <3> QED BY <2>1, <2>2, PathInsert
  <2>4. Leaves(new) = Leaves(root) \cup {leaf}
    <3> HIDE DEF p
    <3>1. \A b \in BitSeqs : LeafAt(new, b) = LeafAt(root, b) \/ b = p
      BY <2>3
    <3>2. Leaves(new) \subseteq Leaves(root) \cup {leaf}
      BY <2>3, <3>1 DEF Leaves
    <3>3. Leaves(root) \subseteq Leaves(new)
      BY <2>3, <3>1 DEF Leaves
    <3>4. leaf \in Leaves(new)
      BY <1>2, <2>1, <2>3 DEF Leaves
    <3> QED BY <3>2, <3>3, <3>4
  <2>5. leaf \notin Leaves(root)
    BY <1>2, <2>3 DEF Leaves, Placed
  <2>6. Placed(new)
    BY <2>3 DEF Placed
  <2> QED BY <1>2, <2>4, <2>5, <2>6
<1> QED BY <1>1, <1>2

IsBatch(rs, root, leaves) ==
    rs = [i \in 0 .. Len(leaves) |->
            IF i = 0 THEN {root} ELSE UNION {InsertLeaf(r, leaves[i]) : r \in rs[i - 1]}]

\* The roots after each of the batch's leaves are defined.
LEMMA BatchExists ==
    ASSUME NEW root, NEW leaves, Len(leaves) \in Nat
    PROVE  \E rs : IsBatch(rs, root, leaves) /\ BatchInsert(root, leaves) = rs[Len(leaves)]
<1> DEFINE All(l, s) == UNION {InsertLeaf(r, l) : r \in s}
           Upto(n, rs) == rs = [i \in 0 .. n |-> IF i = 0 THEN {root} ELSE All(leaves[i], rs[i - 1])]
           Bad == {n \in Nat : ~ \E rs : Upto(n, rs)}
<1>1. Bad = {}
  <2> HIDE DEF All
  <2> SUFFICES ASSUME Bad # {} PROVE FALSE
    OBVIOUS
  <2>1. PICK n \in Bad : \A m \in Bad : n <= m
    BY LeastExists
  <2>2. n # 0
    <3> DEFINE rs == [i \in 0 .. 0 |-> {root}]
    <3>1. Upto(0, rs)
      OBVIOUS
    <3> HIDE DEF Upto
    <3> QED BY <3>1
  <2>3. n \in Nat /\ n - 1 \in Nat /\ n - 1 \notin Bad
    <3>1. n \in Nat
      OBVIOUS
    <3> HIDE DEF Bad
    <3> QED BY <2>1, <2>2, <3>1
  <2>4. PICK rs : Upto(n - 1, rs)
    BY <2>3
  <2> DEFINE v == [i \in 0 .. n |-> IF i = n THEN All(leaves[n], rs[n - 1]) ELSE rs[i]]
  <2>5. ASSUME NEW i \in 0 .. n
        PROVE  v[i] = IF i = 0 THEN {root} ELSE All(leaves[i], v[i - 1])
    <3>1. CASE i = n
      <4>1. v[n - 1] = rs[n - 1]
        BY <2>2, <2>3
      <4> QED BY <2>2, <3>1, <4>1
    <3>2. CASE i # n
      <4>1. i \in 0 .. n - 1 /\ v[i] = rs[i]
        BY <2>3, <3>2
      <4>2. i # 0 => i - 1 \in 0 .. n /\ i - 1 # n /\ v[i - 1] = rs[i - 1]
        BY <2>3, <4>1
      <4>3. rs[i] = IF i = 0 THEN {root} ELSE All(leaves[i], rs[i - 1])
        BY <2>4, <4>1
      <4> HIDE DEF v
      <4> QED BY <4>1, <4>2, <4>3
    <3> QED BY <3>1, <3>2
  <2>6. v = [i \in 0 .. n |-> v[i]]
    OBVIOUS
  <2>7. Upto(n, v)
    <3> HIDE DEF v
    <3> QED BY <2>5, <2>6
  <2> HIDE DEF Upto
  <2> QED BY <2>1, <2>7
<1>2. \E rs : IsBatch(rs, root, leaves)
  <2>1. \E rs : Upto(Len(leaves), rs)
    BY <1>1
  <2> QED BY <2>1 DEF IsBatch
<1> DEFINE batch == CHOOSE rs : IsBatch(rs, root, leaves)
<1>3. BatchInsert(root, leaves) = batch[Len(leaves)]
  BY DEF BatchInsert, IsBatch
<1>4. IsBatch(batch, root, leaves)
  BY <1>2
<1> QED BY <1>3, <1>4

\* A batch inserts each of its leaves that is not padding, all new and different.
LEMMA BatchIs ==
    ASSUME NEW root, Placed(root), NEW leaves, Len(leaves) \in Nat,
           \A i \in 1 .. Len(leaves) : leaves[i] # Zero => Position(leaves[i]) \in BitSeqs,
           NEW new \in BatchInsert(root, leaves)
    PROVE  /\ Placed(new)
           /\ Leaves(new) = Leaves(root) \cup ({leaves[i] : i \in 1 .. Len(leaves)} \ {Zero})
           /\ \A i \in 1 .. Len(leaves) : leaves[i] \notin Leaves(root)
           /\ \A i, j \in 1 .. Len(leaves) : i < j => leaves[i] = Zero \/ leaves[i] # leaves[j]
<1> DEFINE n == Len(leaves)
           First(i) == {leaves[k] : k \in 1 .. i} \ {Zero}
           Upto(i, r) == /\ Placed(r) /\ Leaves(r) = Leaves(root) \cup First(i)
                         /\ \A k \in 1 .. i : leaves[k] \notin Leaves(root)
                         /\ \A j, k \in 1 .. i : j < k => leaves[j] = Zero \/ leaves[j] # leaves[k]
<1>1. PICK rs : IsBatch(rs, root, leaves) /\ BatchInsert(root, leaves) = rs[n]
  BY BatchExists
<1> DEFINE Bad == {i \in 0 .. n : \E r \in rs[i] : ~Upto(i, r)}
<1>2. Bad = {}
  <2> SUFFICES ASSUME Bad # {} PROVE FALSE
    OBVIOUS
  <2>1. PICK i \in Bad : \A j \in Bad : i <= j
    <3>1. Bad \subseteq Nat
      OBVIOUS
    <3> HIDE DEF Bad
    <3> QED BY <3>1, LeastExists
  <2>2. i \in 0 .. n
    OBVIOUS
  <2>3. PICK r \in rs[i] : ~Upto(i, r)
    OBVIOUS
  <2>4. i # 0
    <3> SUFFICES ASSUME i = 0 PROVE FALSE
      OBVIOUS
    <3>1. r = root
      BY <1>1, <2>2, <2>3 DEF IsBatch
    <3>2. First(0) = {}
      OBVIOUS
    <3>3. Upto(0, root)
      BY <3>2
    <3> HIDE DEF Upto
    <3> QED BY <2>3, <3>1, <3>3
  <2>5. i - 1 \in 0 .. n /\ i \in 1 .. n /\ i - 1 \notin Bad
    <3>1. i - 1 \in 0 .. n /\ i \in 1 .. n
      BY <2>2, <2>4
    <3> HIDE DEF Bad
    <3> QED BY <2>1, <3>1
  <2>6. rs[i] = UNION {InsertLeaf(q, leaves[i]) : q \in rs[i - 1]}
    BY <1>1, <2>2, <2>4 DEF IsBatch
  <2>7. PICK q \in rs[i - 1] : r \in InsertLeaf(q, leaves[i])
    BY <2>3, <2>6
  <2>8. Upto(i - 1, q)
    <3> HIDE DEF Upto
    <3> QED BY <2>5, <2>7
  <2>9. /\ Placed(r) /\ Leaves(r) = Leaves(q) \cup ({leaves[i]} \ {Zero})
        /\ leaves[i] \notin Leaves(q)
    BY <2>5, <2>7, <2>8, InsertLeafIs
  <2>10. First(i) = First(i - 1) \cup ({leaves[i]} \ {Zero})
    <3>1. 1 .. i = (1 .. i - 1) \cup {i}
      BY <2>5
    <3> QED BY <3>1
  <2>11. Leaves(r) = Leaves(root) \cup First(i)
    <3> HIDE DEF First
    <3> QED BY <2>8, <2>9, <2>10
  <2>12. leaves[i] \notin Leaves(root) /\ \A k \in 1 .. i - 1 : leaves[k] = Zero \/ leaves[i] # leaves[k]
    BY <2>8, <2>9
  <2>13. Upto(i, r)
    <3>1. \A k \in 1 .. i : k = i \/ k \in 1 .. i - 1
      BY <2>5
    <3>2. \A k \in 1 .. i : leaves[k] \notin Leaves(root)
      BY <2>8, <2>12, <3>1
    <3>3. ASSUME NEW j \in 1 .. i, NEW k \in 1 .. i, j < k PROVE leaves[j] = Zero \/ leaves[j] # leaves[k]
      <4>1. j \in 1 .. i - 1
        BY <2>5, <3>3
      <4> HIDE DEF First
      <4> QED BY <2>8, <2>12, <3>1, <3>3, <4>1
    <3> HIDE DEF First
    <3> QED BY <2>9, <2>11, <3>2, <3>3
  <2> HIDE DEF Upto
  <2> QED BY <2>3, <2>13
<1>3. Upto(n, new)
  <2>1. n \in 0 .. n
    OBVIOUS
  <2> HIDE DEF Upto
  <2> QED BY <1>1, <1>2, <2>1
<1> QED BY <1>3

\* The leaves of transactions are those of notes; no two of them are the same.
LEMMA LeafShapes ==
    ASSUME NEW n \in Notes, NEW m \in Notes, NEW s, NEW t
    PROVE  /\ Commitment(n) # Zero /\ Nullifier(n, s) # Zero
           /\ Commitment(n) # Nullifier(m, t)
           /\ Commitment(n) = Commitment(m) => n = m
           /\ Nullifier(n, s) = Nullifier(m, t) => n = m /\ s = t
<1>1. /\ n = [value |-> n.value, address |-> n.address, psi |-> n.psi, source |-> n.source]
      /\ m = [value |-> m.value, address |-> m.address, psi |-> m.psi, source |-> m.source]
      /\ n.value # 0 /\ m.value # 0
  BY DEF Notes, NewNote
<1>2. /\ Commitment(n) = <<n.value, n.address, n.psi, n.source>>
      /\ Commitment(m) = <<m.value, m.address, m.psi, m.source>>
  BY <1>1 DEF Commitment
<1>3. Commitment(n) # Zero /\ Commitment(m) # Zero
  <2>1. Len(Commitment(n)) = 4 /\ Len(Commitment(m)) = 4 /\ Len(Zero) = 0
    BY <1>2 DEF Zero
  <2> QED BY <2>1
<1>4. /\ Nullifier(n, s) = <<Commitment(n), s, n.psi>>
      /\ Nullifier(m, t) = <<Commitment(m), t, m.psi>>
  BY <1>3 DEF Nullifier
<1>5. Len(Nullifier(n, s)) = 3 /\ Len(Nullifier(m, t)) = 3 /\ Len(Commitment(n)) = 4 /\ Len(Zero) = 0
  BY <1>2, <1>4 DEF Zero
<1>6. Commitment(n) = Commitment(m) => n = m
  BY <1>1, <1>2
<1>7. Nullifier(n, s) = Nullifier(m, t) => Commitment(n) = Commitment(m) /\ s = t
  BY <1>4
<1>8. Nullifier(n, s) # Zero /\ Commitment(n) # Nullifier(m, t)
  BY <1>5
<1> QED BY <1>3, <1>6, <1>7, <1>8

-----------------------------------------------------------------------------
(* Circuits: values.                                                       *)

(* The powers of two, and the running sum of a decomposition.              *)
IsPower(p) == p = [i \in 0 .. Bits |-> IF i = 0 THEN 1 ELSE 2 * p[i - 1]]

\* The powers of two are defined.
LEMMA PowerExists ==
    IsPower(Power)
<1> USE ChipsAssumption
<1> DEFINE Upto(n, p) == p = [i \in 0 .. n |-> IF i = 0 THEN 1 ELSE 2 * p[i - 1]]
           Bad == {n \in Nat : ~ \E p : Upto(n, p)}
<1>1. Bad = {}
  <2> SUFFICES ASSUME Bad # {} PROVE FALSE
    OBVIOUS
  <2>1. PICK n \in Bad : \A m \in Bad : n <= m
    BY LeastExists
  <2>2. n # 0
    <3> DEFINE p == [i \in 0 .. 0 |-> 1]
    <3>1. Upto(0, p)
      OBVIOUS
    <3> HIDE DEF Upto
    <3> QED BY <3>1
  <2>3. n \in Nat /\ n - 1 \in Nat /\ n - 1 \notin Bad
    <3>1. n \in Nat
      OBVIOUS
    <3> HIDE DEF Bad
    <3> QED BY <2>1, <2>2, <3>1
  <2>4. PICK p : Upto(n - 1, p)
    BY <2>3
  <2> DEFINE v == [i \in 0 .. n |-> IF i = n THEN 2 * p[n - 1] ELSE p[i]]
  <2>5. ASSUME NEW i \in 0 .. n PROVE v[i] = IF i = 0 THEN 1 ELSE 2 * v[i - 1]
    <3>1. CASE i = n
      <4>1. v[n - 1] = p[n - 1]
        BY <2>2, <2>3
      <4> QED BY <2>2, <3>1, <4>1
    <3>2. CASE i # n
      <4>1. i \in 0 .. n - 1 /\ v[i] = p[i]
        BY <2>3, <3>2
      <4>2. i # 0 => i - 1 \in 0 .. n /\ i - 1 # n /\ v[i - 1] = p[i - 1]
        BY <2>3, <4>1
      <4>3. p[i] = IF i = 0 THEN 1 ELSE 2 * p[i - 1]
        BY <2>4, <4>1
      <4> HIDE DEF v
      <4> QED BY <4>1, <4>2, <4>3
    <3> QED BY <3>1, <3>2
  <2>6. v = [i \in 0 .. n |-> v[i]]
    OBVIOUS
  <2>7. Upto(n, v)
    <3> HIDE DEF v
    <3> QED BY <2>5, <2>6
  <2> HIDE DEF Upto
  <2> QED BY <2>1, <2>7
<1>2. \E p : IsPower(p)
  <2>1. \E p : Upto(Bits, p)
    BY <1>1
  <2> QED BY <2>1 DEF IsPower
<1>3. Power = CHOOSE p : IsPower(p)
  BY DEF Power, IsPower
<1> QED BY <1>2, <1>3

\* The powers of two are numbers.
LEMMA PowerIs ==
    /\ Power[0] = 1 /\ \A i \in 1 .. Bits : Power[i] = 2 * Power[i - 1]
    /\ \A i \in 0 .. Bits : Power[i] \in Nat
<1> USE ChipsAssumption
<1>1. Power[0] = 1 /\ \A i \in 1 .. Bits : Power[i] = 2 * Power[i - 1]
  BY PowerExists DEF IsPower
<1> DEFINE Bad == {k \in 0 .. Bits : Power[k] \notin Nat}
<1>2. Bad = {}
  <2> SUFFICES ASSUME Bad # {} PROVE FALSE
    OBVIOUS
  <2>1. PICK k \in Bad : \A j \in Bad : k <= j
    <3>1. Bad \subseteq Nat
      OBVIOUS
    <3> HIDE DEF Bad
    <3> QED BY <3>1, LeastExists
  <2>2. k \in 1 .. Bits /\ k - 1 \in 0 .. Bits
    BY <1>1
  <2>3. Power[k - 1] \in Nat
    <3>1. k - 1 \notin Bad
      <4> HIDE DEF Bad
      <4> QED BY <2>1, <2>2
    <3> QED BY <2>2, <3>1
  <2> QED BY <1>1, <2>2, <2>3
<1> QED BY <1>1, <1>2

IsRunningSum(z, words) ==
    z = [i \in 0 .. Bits |-> IF i = Bits THEN 0 ELSE Plus(words[i + 1], Times(2, z[i + 1]))]

\* The running sum is defined, from the most significant word on.
LEMMA RunningSumExists ==
    ASSUME NEW words
    PROVE  IsRunningSum(RunningSum(words), words)
<1> USE ChipsAssumption
<1> DEFINE Next1(w, x) == Plus(w, Times(2, x))
           Upto(n, d) == d = [i \in Bits - n .. Bits |-> IF i = Bits THEN 0 ELSE Next1(words[i + 1], d[i + 1])]
           Bad == {n \in 0 .. Bits : ~ \E d : Upto(n, d)}
<1>1. Bad = {}
  <2> HIDE DEF Next1
  <2> SUFFICES ASSUME Bad # {} PROVE FALSE
    OBVIOUS
  <2>1. PICK n \in Bad : \A m \in Bad : n <= m
    <3>1. Bad \subseteq Nat
      OBVIOUS
    <3> HIDE DEF Bad
    <3> QED BY <3>1, LeastExists
  <2>2. n # 0
    <3> DEFINE d == [i \in Bits - 0 .. Bits |-> 0]
    <3>1. Upto(0, d)
      OBVIOUS
    <3> HIDE DEF Upto
    <3> QED BY <3>1
  <2>3. n \in 1 .. Bits /\ n - 1 \in 0 .. Bits /\ n - 1 \notin Bad
    <3>1. n \in 0 .. Bits
      OBVIOUS
    <3> HIDE DEF Bad
    <3> QED BY <2>1, <2>2, <3>1
  <2>4. PICK d : Upto(n - 1, d)
    BY <2>3
  <2> DEFINE k == Bits - n
             e == [i \in k .. Bits |-> IF i = k THEN Next1(words[k + 1], d[k + 1]) ELSE d[i]]
  <2>5. k \in 0 .. Bits - 1 /\ Bits - (n - 1) = k + 1
    BY <2>3
  <2>6. d = [i \in k + 1 .. Bits |-> IF i = Bits THEN 0 ELSE Next1(words[i + 1], d[i + 1])]
    BY <2>4, <2>5
  <2> HIDE DEF k
  <2>7. ASSUME NEW i \in k .. Bits
        PROVE  e[i] = IF i = Bits THEN 0 ELSE Next1(words[i + 1], e[i + 1])
    <3>1. CASE i = k
      <4>1. e[k + 1] = d[k + 1] /\ k # Bits
        BY <2>5
      <4> QED BY <3>1, <4>1
    <3>2. CASE i # k
      <4>1. i \in k + 1 .. Bits /\ e[i] = d[i]
        BY <2>5, <3>2
      <4>2. i # Bits => i + 1 \in k .. Bits /\ i + 1 # k /\ e[i + 1] = d[i + 1]
        BY <2>5, <4>1
      <4>3. d[i] = IF i = Bits THEN 0 ELSE Next1(words[i + 1], d[i + 1])
        BY <2>6, <4>1
      <4> HIDE DEF e
      <4> QED BY <4>1, <4>2, <4>3
    <3> QED BY <3>1, <3>2
  <2>8. e = [i \in k .. Bits |-> e[i]]
    OBVIOUS
  <2>9. Upto(n, e)
    <3> HIDE DEF e
    <3> QED BY <2>7, <2>8 DEF k
  <2> HIDE DEF Upto
  <2> QED BY <2>1, <2>9
<1>2. \E d : IsRunningSum(d, words)
  <2>1. \E d : Upto(Bits, d)
    <3>1. Bits \in 0 .. Bits
      OBVIOUS
    <3> HIDE DEF Upto
    <3> QED BY <1>1, <3>1
  <2>2. Bits - Bits = 0
    OBVIOUS
  <2> QED BY <2>1, <2>2 DEF IsRunningSum
<1>3. RunningSum(words) = CHOOSE d : IsRunningSum(d, words)
  BY DEF RunningSum, IsRunningSum
<1> QED BY <1>2, <1>3

\* A remainder is not larger.
LEMMA Remainder ==
    ASSUME NEW a \in Nat
    PROVE  a % P \in F /\ a % P <= a /\ (a < P => a % P = a)
<1>1. P \in Nat \ {0}
  BY ChipsAssumption
<1>2. a % P \in Nat /\ a % P < P
  BY <1>1
<1>3. a % P <= a
  BY <1>1
<1>4. a < P => a % P = a
  BY <1>1
<1> QED BY <1>1, <1>2, <1>3, <1>4 DEF F

\* The range check bounds a value by the power of two.
LEMMA RangeBound ==
    ASSUME NEW v \in RangeChecked
    PROVE  v \in Nat /\ v <= Power[RangeBits] - 1
<1> USE ChipsAssumption, CircuitsAssumption
<1>1. PICK words \in [1 .. Bits -> {0, 1}] :
          RunningSum(words)[0] = v /\ \A i \in RangeBits + 1 .. Bits : words[i] = 0
  BY DEF RangeChecked, InRange, Decomposed
<1> DEFINE z == RunningSum(words)
           Upto(i) == /\ z[i] \in Nat
                      /\ i >= RangeBits => z[i] = 0
                      /\ i <= RangeBits => z[i] <= Power[RangeBits - i] - 1
           Bad == {i \in 0 .. Bits : ~Upto(i)}
<1>2. \A i \in 0 .. Bits : z[i] = IF i = Bits THEN 0 ELSE Plus(words[i + 1], Times(2, z[i + 1]))
  <2>1. IsRunningSum(z, words)
    BY RunningSumExists
  <2> HIDE DEF z
  <2> QED BY <2>1 DEF IsRunningSum
<1>3. /\ Power[0] = 1 /\ \A i \in 1 .. Bits : Power[i] = 2 * Power[i - 1]
      /\ \A i \in 0 .. Bits : Power[i] \in Nat
  BY PowerIs
<1> HIDE DEF z
<1>4. Bad = {}
  <2> SUFFICES ASSUME Bad # {} PROVE FALSE
    OBVIOUS
  <2>1. PICK i \in Bad : \A j \in Bad : j <= i
    <3>1. Bad \subseteq 0 .. Bits /\ Bits \in Nat
      OBVIOUS
    <3> HIDE DEF Bad
    <3> QED BY <3>1, GreatestExists
  <2>2. i \in 0 .. Bits /\ ~Upto(i)
    OBVIOUS
  <2>3. i # Bits
    <3> SUFFICES ASSUME i = Bits PROVE FALSE
      OBVIOUS
    <3>1. z[i] = 0
      BY <1>2, <2>2
    <3>2. i <= RangeBits => RangeBits - i = 0
      BY <2>2
    <3>3. Upto(i)
      BY <1>3, <3>1, <3>2
    <3> QED BY <2>2, <3>3
  <2>4. i + 1 \in 0 .. Bits /\ i + 1 \in 1 .. Bits /\ i + 1 \notin Bad
    <3>1. i + 1 \in 0 .. Bits /\ i + 1 \in 1 .. Bits
      BY <2>2, <2>3
    <3> HIDE DEF Bad
    <3> QED BY <2>1, <2>2, <3>1
  <2>5. Upto(i + 1)
    BY <2>4
  <2>6. words[i + 1] \in {0, 1}
    BY <2>4
  <2> DEFINE x == z[i + 1]
  <2>7. z[i] = (words[i + 1] + ((2 * x) % P)) % P
    BY <1>2, <2>2, <2>3 DEF Plus, Times
  <2>8. x \in Nat /\ 2 * x \in Nat
    BY <2>5
  <2> HIDE DEF x
  <2>9. (2 * x) % P \in Nat /\ (2 * x) % P <= 2 * x
    <3> DEFINE y == 2 * x
    <3>1. y \in Nat
      BY <2>8
    <3> HIDE DEF y
    <3>2. y % P \in F /\ y % P <= y
      BY <3>1, Remainder
    <3>3. y % P \in Nat
      BY <3>2 DEF F
    <3> QED BY <3>2, <3>3 DEF y
  <2>10. z[i] \in Nat /\ z[i] <= words[i + 1] + ((2 * x) % P)
    <3> DEFINE y == words[i + 1] + ((2 * x) % P)
    <3>1. y \in Nat
      BY <2>6, <2>9
    <3>2. z[i] = y % P
      BY <2>7
    <3> HIDE DEF y
    <3>3. y % P \in F /\ y % P <= y
      BY <3>1, Remainder
    <3>4. z[i] \in Nat /\ z[i] <= y
      BY <3>2, <3>3 DEF F
    <3> QED BY <3>4 DEF y
  <2>11. z[i] <= words[i + 1] + 2 * x
    BY <2>6, <2>8, <2>9, <2>10
  <2>12. CASE i >= RangeBits
    <3>1. words[i + 1] = 0 /\ x = 0
      BY <1>1, <2>2, <2>4, <2>5, <2>12 DEF x
    <3>2. z[i] = 0
      BY <2>10, <2>11, <3>1
    <3>3. i <= RangeBits => RangeBits - i = 0
      BY <2>2, <2>12
    <3>4. Upto(i)
      BY <1>3, <3>2, <3>3
    <3> QED BY <2>2, <3>4
  <2>13. CASE i < RangeBits
    <3>1. RangeBits - i \in 1 .. Bits /\ (RangeBits - i) - 1 = RangeBits - (i + 1)
      BY <2>2, <2>13
    <3>2. Power[RangeBits - i] = 2 * Power[RangeBits - (i + 1)]
      BY <1>3, <3>1
    <3>3. x <= Power[RangeBits - (i + 1)] - 1
      BY <2>2, <2>5, <2>13 DEF x
    <3>4. Power[RangeBits - (i + 1)] \in Int
      BY <1>3, <2>2, <2>13
    <3>5. z[i] <= Power[RangeBits - i] - 1
      <4> DEFINE p == Power[RangeBits - (i + 1)]
                 w == words[i + 1]
                 zi == z[i]
      <4>1. p \in Int /\ w \in 0 .. 1 /\ zi \in Nat /\ x <= p - 1 /\ zi <= w + 2 * x
        BY <2>6, <2>10, <2>11, <3>3, <3>4
      <4> HIDE DEF p, w, zi
      <4>2. zi <= 2 * p - 1
        BY <2>8, <4>1
      <4> QED BY <3>2, <4>2 DEF p, zi
    <3>6. Upto(i)
      BY <2>2, <2>10, <2>13, <3>5
    <3> QED BY <2>2, <3>6
  <2> QED BY <2>2, <2>12, <2>13
<1>5. Upto(0)
  BY <1>4
<1> QED BY <1>1, <1>5 DEF z

\* Two values of notes add up without wrapping around the modulus.
LEMMA NoWrap ==
    ASSUME NEW v \in RangeChecked \cup {0}, NEW w \in RangeChecked \cup {0}
    PROVE  v \in Nat /\ w \in Nat /\ v + w \in Nat /\ v + w < P
<1> USE ChipsAssumption, CircuitsAssumption
<1>1. Power[RangeBits] \in Nat
  BY PowerIs
<1>2. ASSUME NEW x \in RangeChecked PROVE x \in Nat /\ x < P /\ x <= Power[RangeBits] - 1
  <2>1. x \in F
    BY DEF RangeChecked
  <2> QED BY <2>1, RangeBound DEF F
<1>3. CASE v = 0
  BY <1>2, <1>3
<1>4. CASE w = 0
  BY <1>2, <1>4
<1>5. CASE v \in RangeChecked /\ w \in RangeChecked
  <2> DEFINE p == Power[RangeBits]
  <2>1. v \in Nat /\ w \in Nat /\ v <= p - 1 /\ w <= p - 1 /\ p \in Nat /\ 2 * (p - 1) < P
    BY <1>1, <1>2, <1>5
  <2> HIDE DEF p
  <2> QED BY <2>1
<1> QED BY <1>3, <1>4, <1>5

\* The total of two values is their sum when it does not wrap around.
LEMMA TotalOfTwo ==
    ASSUME NEW f \in [1 .. 2 -> Nat], f[1] + f[2] < P
    PROVE  Total(f) = f[1] + f[2]
<1> USE ChipsAssumption
<1> DEFINE S == 1 .. 2
           pick == [s \in SUBSET S |-> Some(s)]
           op == [p \in S \X F |-> Plus(f[p[1]], p[2])]
           Sums(G) == G = [s \in SUBSET S |-> IF s = {} THEN 0
                              ELSE LET x == CHOOSE x \in s : TRUE IN Plus(f[x], G[s \ {x}])]
           G == CHOOSE G : Sums(G)
<1>1. Total(f) = G[S]
  BY DEF Total, FoldFunction, FoldFunctionOnSet, MapThenFoldSet
<1>2. f[1] \in Nat /\ f[2] \in Nat /\ f[1] + f[2] \in Nat /\ f[1] + f[2] < P
  OBVIOUS
<1>3. \A a, b \in Nat : Plus(a, b) \in F /\ (a + b < P => Plus(a, b) = a + b)
  BY Remainder DEF Plus
<1>4. PICK H \in [SUBSET S -> F] : FoldStep(S, H, 0, pick, op)
  <2>1. Picks(S, pick)
    BY DEF Picks, Some
  <2>2. op \in [S \X F -> F]
    <3> SUFFICES ASSUME NEW p \in S \X F PROVE Plus(f[p[1]], p[2]) \in F
      OBVIOUS
    <3>1. f[p[1]] \in Nat /\ p[2] \in Nat
      <4>1. p[1] = 1 \/ p[1] = 2
        OBVIOUS
      <4>2. p[2] \in Nat
        BY DEF F
      <4> QED BY <1>2, <4>1, <4>2
    <3> QED BY <1>3, <3>1
  <2>3. 0 \in F /\ IsFiniteSet(S)
    <3>1. 0 \in F
      BY DEF F
    <3>2. IsFiniteSet(1 .. 2)
      <4>1. 1 \in Int /\ 2 \in Int
        OBVIOUS
      <4> HIDE DEF Sums, G, op, pick
      <4> QED BY ONLY <4>1, FS_Interval
    <3> QED BY <3>1, <3>2
  <2> HIDE DEF pick, op, S
  <2> QED BY <2>1, <2>2, <2>3, FoldExists
<1>5. Sums(H)
  <2>1. ASSUME NEW s \in SUBSET S, s # {}
        PROVE  H[s] = LET x == CHOOSE x \in s : TRUE IN Plus(f[x], H[s \ {x}])
    <3> DEFINE x == CHOOSE x \in s : TRUE
    <3>1. x \in S /\ pick[s] = x /\ s \ {x} \in SUBSET S
      BY <2>1 DEF Some
    <3> HIDE DEF x
    <3>2. H[s] = op[<<x, H[s \ {x}]>>]
      BY <1>4, <2>1, <3>1 DEF FoldStep
    <3>3. H[s \ {x}] \in F
      BY <3>1
    <3>4. H[s] = Plus(f[x], H[s \ {x}])
      BY <3>1, <3>2, <3>3
    <3> QED BY <3>4 DEF x
  <2>2. H[{}] = 0 /\ H = [s \in SUBSET S |-> H[s]]
    BY <1>4 DEF FoldStep
  <2> HIDE DEF S
  <2> QED BY <2>1, <2>2
<1>6. Sums(G)
  <2> HIDE DEF Sums
  <2> QED BY <1>5
<1> HIDE DEF G
<1>7. \A s \in SUBSET S : G[s] = IF s = {} THEN 0 ELSE Plus(f[Some(s)], G[s \ {Some(s)}])
  BY <1>6 DEF Some
<1>8. S \in SUBSET S /\ S # {} /\ {} \in SUBSET S /\ {1} \in SUBSET S /\ {2} \in SUBSET S
  OBVIOUS
<1>9. Some(S) \in {1, 2} /\ Some({1}) = 1 /\ Some({2}) = 2
  BY DEF Some
<1>10. G[{}] = 0 /\ G[{1}] = Plus(f[1], 0) /\ G[{2}] = Plus(f[2], 0)
  <2>1. {1} \ {1} = {} /\ {2} \ {2} = {} /\ {1} # {} /\ {2} # {}
    OBVIOUS
  <2> HIDE DEF Sums, S
  <2>2. G[{}] = 0
    BY <1>7, <1>8
  <2>3. G[{1}] = Plus(f[Some({1})], G[{1} \ {Some({1})}])
    BY <1>7, <1>8, <2>1
  <2>4. G[{2}] = Plus(f[Some({2})], G[{2} \ {Some({2})}])
    BY <1>7, <1>8, <2>1
  <2> QED BY <1>9, <2>1, <2>2, <2>3, <2>4
<1>11. G[{1}] = f[1] /\ G[{2}] = f[2]
  <2>1. f[1] + 0 = f[1] /\ f[2] + 0 = f[2] /\ f[1] < P /\ f[2] < P
    BY <1>2
  <2> QED BY <1>2, <1>3, <1>10, <2>1
<1>12. G[S] = Plus(f[Some(S)], G[S \ {Some(S)}])
  <2> HIDE DEF Sums, S
  <2> QED BY <1>7, <1>8
<1>13. CASE Some(S) = 1
  <2>1. S \ {1} = {2}
    OBVIOUS
  <2> HIDE DEF S
  <2>2. G[S] = Plus(f[1], f[2])
    BY <1>11, <1>12, <1>13, <2>1
  <2> QED BY <1>1, <1>2, <1>3, <2>2
<1>14. CASE Some(S) = 2
  <2>1. S \ {2} = {1}
    OBVIOUS
  <2> HIDE DEF S
  <2>2. G[S] = Plus(f[2], f[1])
    BY <1>11, <1>12, <1>14, <2>1
  <2>3. f[2] + f[1] = f[1] + f[2]
    BY <1>2
  <2> QED BY <1>1, <1>2, <1>3, <2>2, <2>3
<1> QED BY <1>9, <1>13, <1>14

-----------------------------------------------------------------------------
(* Circuits: transactions and blocks.                                      *)

(* What an input and an output of a transaction may be, when the tree has  *)
(* the leaves L.                                                           *)
IsInput(in, L) ==
    \/ in.note = PaddingNote
    \/ /\ in.note \in Notes /\ in.note.value \in RangeChecked /\ Commitment(in.note) \in L
       /\ in.secret \in Secrets /\ in.note.address = Address(in.secret)
IsOutput(note) == note = PaddingNote \/ (note \in Notes /\ note.value \in RangeChecked)

MintedBy(inst) == IF IsMint(inst) THEN inst.value ELSE 0
BurnedBy(inst) == IF IsBurn(inst) THEN inst.value ELSE 0

(* A transaction: its leaves, and the value that it moves.                 *)
HasLeaves(t, a, b, x, y) ==
    LET leaves == UtxoLeaves(t)
    IN  /\ Len(leaves) = 4
        /\ leaves[1] = Nullifier(a.note, a.secret) /\ leaves[2] = Nullifier(b.note, b.secret)
        /\ leaves[3] = Commitment(x) /\ leaves[4] = Commitment(y)
Balances(t, a, b, x, y) ==
    /\ MintedBy(t) \in Nat /\ BurnedBy(t) \in Nat
    /\ a.note.value + b.note.value + MintedBy(t) = x.value + y.value + BurnedBy(t)
Utxo(t, L, a, b, x, y) ==
    /\ IsInput(a, L) /\ IsInput(b, L) /\ IsOutput(x) /\ IsOutput(y)
    /\ HasLeaves(t, a, b, x, y) /\ Balances(t, a, b, x, y)

\* Only padding is worth nothing and has no leaf.
LEMMA InputLeaf ==
    ASSUME NEW L, NEW in, IsInput(in, L)
    PROVE  /\ in.note.value \in RangeChecked \cup {0}
           /\ Nullifier(in.note, in.secret) = Zero <=> in.note.value = 0
           /\ in.note.value = 0 => in.note = PaddingNote
<1>1. CASE in.note = PaddingNote
  <2>1. in.note.value = 0
    BY <1>1 DEF PaddingNote, NewNote
  <2>2. Nullifier(in.note, in.secret) = Zero
    BY <2>1 DEF Nullifier, Commitment
  <2> QED BY <1>1, <2>1, <2>2
<1>2. CASE in.note \in Notes /\ in.note.value \in RangeChecked
  <2>1. in.note.value # 0
    BY <1>2 DEF Notes, NewNote
  <2>2. Nullifier(in.note, in.secret) # Zero
    BY <1>2, LeafShapes
  <2> QED BY <1>2, <2>1, <2>2
<1> QED BY <1>1, <1>2 DEF IsInput

\* The same of an output.
LEMMA OutputLeaf ==
    ASSUME NEW x, IsOutput(x)
    PROVE  /\ x.value \in RangeChecked \cup {0}
           /\ Commitment(x) = Zero <=> x.value = 0
           /\ x.value = 0 => x = PaddingNote
<1>1. CASE x = PaddingNote
  <2>1. x.value = 0
    BY <1>1 DEF PaddingNote, NewNote
  <2>2. Commitment(x) = Zero
    BY <2>1 DEF Commitment
  <2> QED BY <1>1, <2>1, <2>2
<1>2. CASE x \in Notes /\ x.value \in RangeChecked
  <2>1. x.value # 0
    BY <1>2 DEF Notes, NewNote
  <2>2. Commitment(x) # Zero
    BY <1>2, LeafShapes
  <2> QED BY <1>2, <2>1, <2>2
<1> QED BY <1>1, <1>2 DEF IsOutput

\* The circuit's constraints leave no other transactions than these.
LEMMA UtxoIs ==
    ASSUME NEW root, NEW L,
           \A n \in Owned(root) : n.value \in RangeChecked /\ Commitment(n) \in L,
           NEW t \in Provable(root)
    PROVE  \E a, b, x, y : Utxo(t, L, a, b, x, y)
<1>1. PICK w \in [kind : Kinds, inputs : Inputs(root) \X Inputs(root),
                  outputs : Outputs \X Outputs, root : {root}] :
             UtxoConstraints(w) /\ t = UtxoInstance(w)
  BY DEF Provable
<1> DEFINE a == w.inputs[1]
           b == w.inputs[2]
           x == w.outputs[1]
           y == w.outputs[2]
<1>2. /\ a \in Inputs(root) /\ b \in Inputs(root) /\ x \in Outputs /\ y \in Outputs
      /\ w.kind \in Kinds
  BY <1>1
<1>3. /\ a.note.address = Address(a.secret) /\ b.note.address = Address(b.secret)
      /\ x.value \in RangeChecked /\ y.value \in RangeChecked
      /\ (IF w.kind = BurnKind THEN 0 ELSE TotalIn(w))
            = (IF w.kind = MintKind THEN 0 ELSE TotalOut(w))
  BY <1>1 DEF UtxoConstraints, InputConstraints
<1>4. ASSUME NEW in \in Inputs(root), in.note.address = Address(in.secret) PROVE IsInput(in, L)
  <2>1. CASE in = PaddingInput
    BY <2>1 DEF IsInput, PaddingInput, Spend
  <2>2. CASE in \in {Spend(n, s) : n \in Owned(root), s \in Secrets}
    <3>1. in.note \in Owned(root) /\ in.secret \in Secrets
      BY <2>2 DEF Spend
    <3> QED BY <1>4, <3>1 DEF IsInput, Owned
  <2> QED BY <2>1, <2>2 DEF Inputs
<1>5. IsInput(a, L) /\ IsInput(b, L) /\ IsOutput(x) /\ IsOutput(y)
  BY <1>2, <1>3, <1>4 DEF Outputs, IsOutput
<1>6. t = UtxoInstance(w)
  BY <1>1
<1>7. /\ t.inputs = [i \in 1 .. 2 |-> Nullifier(w.inputs[i].note, w.inputs[i].secret)]
      /\ t.outputs = [i \in 1 .. 2 |-> Commitment(w.outputs[i])]
  BY <1>6 DEF UtxoInstance
<1>8. /\ t.hash = CASE w.kind = BurnKind -> t.inputs[1]
                    [] w.kind = MintKind -> t.outputs[1]
                    [] OTHER -> Zero
      /\ t.value = CASE w.kind = BurnKind -> TotalIn(w)
                     [] w.kind = MintKind -> TotalOut(w)
                     [] OTHER -> 0
  BY <1>6 DEF UtxoInstance
<1>9. HasLeaves(t, a, b, x, y)
  BY <1>7 DEF HasLeaves, UtxoLeaves
<1>10. /\ a.note.value \in RangeChecked \cup {0} /\ b.note.value \in RangeChecked \cup {0}
       /\ x.value \in RangeChecked \cup {0} /\ y.value \in RangeChecked \cup {0}
  BY <1>5, InputLeaf, OutputLeaf
<1>11. /\ a.note.value \in Nat /\ b.note.value \in Nat /\ x.value \in Nat /\ y.value \in Nat
       /\ a.note.value + b.note.value < P /\ x.value + y.value < P
  BY <1>10, NoWrap
<1>12. TotalIn(w) = a.note.value + b.note.value
  <2> DEFINE f == [i \in 1 .. 2 |-> w.inputs[i].note.value]
  <2>1. f \in [1 .. 2 -> Nat] /\ f[1] = a.note.value /\ f[2] = b.note.value
    BY <1>11
  <2>2. TotalIn(w) = Total(f)
    BY DEF TotalIn
  <2> HIDE DEF f, a, b
  <2> QED BY <1>11, <2>1, <2>2, TotalOfTwo
<1>13. TotalOut(w) = x.value + y.value
  <2> DEFINE f == [i \in 1 .. 2 |-> w.outputs[i].value]
  <2>1. f \in [1 .. 2 -> Nat] /\ f[1] = x.value /\ f[2] = y.value
    BY <1>11
  <2>2. TotalOut(w) = Total(f)
    BY DEF TotalOut
  <2> HIDE DEF f, x, y
  <2> QED BY <1>11, <2>1, <2>2, TotalOfTwo
<1>14. /\ t.inputs[1] = Zero <=> a.note.value = 0
       /\ t.inputs[2] = Zero <=> b.note.value = 0
       /\ t.outputs[1] = Zero <=> x.value = 0
       /\ t.outputs[2] = Zero <=> y.value = 0
  BY <1>5, <1>7, InputLeaf, OutputLeaf
<1>15. Balances(t, a, b, x, y)
  <2> DEFINE va == a.note.value
             vb == b.note.value
             vx == x.value
             vy == y.value
  <2>1. /\ IsMint(t) <=> (t.hash # Zero \/ t.value # 0) /\ va = 0 /\ vb = 0
        /\ IsBurn(t) <=> (t.hash # Zero \/ t.value # 0) /\ vx = 0 /\ vy = 0
    <3>1. \A i \in 1 .. 2 : i = 1 \/ i = 2
      OBVIOUS
    <3>2. (\A i \in 1 .. 2 : t.inputs[i] = Zero) <=> t.inputs[1] = Zero /\ t.inputs[2] = Zero
      BY <3>1
    <3>3. (\A i \in 1 .. 2 : t.outputs[i] = Zero) <=> t.outputs[1] = Zero /\ t.outputs[2] = Zero
      BY <3>1
    <3> HIDE DEF a, b, x, y
    <3> QED BY <1>14, <3>2, <3>3 DEF IsMint, IsBurn
  <2>2. /\ va \in Nat /\ vb \in Nat /\ vx \in Nat /\ vy \in Nat
        /\ TotalIn(w) = va + vb /\ TotalOut(w) = vx + vy
    BY <1>12, <1>13, <1>11
  <2>3. CASE w.kind = BurnKind
    <3>1. vx = 0 /\ vy = 0
      <4>1. vx + vy = 0
        BY <1>3, <2>2, <2>3 DEF BurnKind, MintKind
      <4> HIDE DEF va, vb, vx, vy
      <4> QED BY <2>2, <4>1
    <3>2. t.value = va + vb
      BY <1>8, <2>2, <2>3 DEF BurnKind, MintKind
    <3> HIDE DEF va, vb, vx, vy
    <3>3. MintedBy(t) = 0 /\ BurnedBy(t) = va + vb
      BY <2>1, <2>2, <3>1, <3>2 DEF MintedBy, BurnedBy
    <3> QED BY <2>2, <3>1, <3>3 DEF Balances, va, vb, vx, vy
  <2>4. CASE w.kind = MintKind
    <3>1. va = 0 /\ vb = 0
      <4>1. va + vb = 0
        BY <1>3, <2>2, <2>4 DEF BurnKind, MintKind
      <4> HIDE DEF va, vb, vx, vy
      <4> QED BY <2>2, <4>1
    <3>2. t.value = vx + vy
      BY <1>8, <2>2, <2>4 DEF BurnKind, MintKind
    <3> HIDE DEF va, vb, vx, vy
    <3>3. BurnedBy(t) = 0 /\ MintedBy(t) = vx + vy
      BY <2>1, <2>2, <3>1, <3>2 DEF MintedBy, BurnedBy
    <3> QED BY <2>2, <3>1, <3>3 DEF Balances, va, vb, vx, vy
  <2>5. CASE w.kind # BurnKind /\ w.kind # MintKind
    <3>1. va + vb = vx + vy
      BY <1>3, <2>2, <2>5
    <3>2. t.value = 0 /\ t.hash = Zero
      BY <1>8, <2>5
    <3> HIDE DEF va, vb, vx, vy
    <3>3. BurnedBy(t) = 0 /\ MintedBy(t) = 0
      BY <2>1, <3>2 DEF MintedBy, BurnedBy
    <3> QED BY <2>2, <3>1, <3>3 DEF Balances, va, vb, vx, vy
  <2> QED BY <2>3, <2>4, <2>5
<1> HIDE DEF a, b, x, y
<1>16. Utxo(t, L, a, b, x, y)
  BY <1>5, <1>9, <1>15 DEF Utxo
<1> QED BY <1>16

ValueOf == [n \in Notes |-> n.value]

\* The notes are finitely many, and padding is none of them.
LEMMA NotesFinite ==
    /\ IsFiniteSet(Notes) /\ ValueOf \in [Notes -> Nat] /\ PaddingNote \notin Notes
<1> USE ChipsAssumption, CircuitsAssumption
<1>1. IsFiniteSet(Notes)
  <2> DEFINE V == F \ {0}
             T == (Owners \X V) \X Psis
             f == [p \in T |-> NewNote(Address(p[1][1]), p[1][2], p[2])]
  <2>1. IsFiniteSet(F)
    <3>1. 0 \in Int /\ P - 1 \in Int
      OBVIOUS
    <3> QED BY <3>1, FS_Interval DEF F
  <2>2. IsFiniteSet(V)
    BY <2>1, FS_Subset
  <2>3. IsFiniteSet(T)
    <3> HIDE DEF V
    <3> QED BY <2>2, FS_Product
  <2>4. f \in Surjection(T, Notes)
    <3>1. ASSUME NEW n \in Notes PROVE \E p \in T : f[p] = n
      <4>1. PICK s \in Owners, v \in V, psi \in Psis : n = NewNote(Address(s), v, psi)
        BY DEF Notes
      <4>2. <<<<s, v>>, psi>> \in T /\ n = f[<<<<s, v>>, psi>>]
        BY <4>1
      <4> QED BY <4>2
    <3>2. ASSUME NEW p \in T PROVE f[p] \in Notes
      BY DEF Notes
    <3>3. f \in [T -> Notes]
      BY <3>2
    <3> HIDE DEF T, f
    <3> QED BY <3>1, <3>3 DEF Surjection
  <2> HIDE DEF T, f
  <2> QED BY <2>3, <2>4, FS_Surjection
<1>2. \A n \in Notes : n.value \in Nat
  BY DEF Notes, NewNote, F
<1>3. PaddingNote \notin Notes
  <2>1. \A n \in Notes : n.value # 0
    BY DEF Notes, NewNote
  <2>2. PaddingNote.value = 0
    BY DEF NewNote, PaddingNote
  <2> QED BY <2>1, <2>2
<1> QED BY <1>1, <1>2, <1>3 DEF ValueOf

\* What a set of notes is worth without one of them, and with one more.
LEMMA WorthMoves ==
    ASSUME NEW S \in SUBSET Notes, NEW n
    PROVE  /\ SumOver(ValueOf, S) \in Nat
           /\ n = PaddingNote \/ n \in S
                 => SumOver(ValueOf, S \ {n}) + n.value = SumOver(ValueOf, S)
           /\ n = PaddingNote \/ n \in Notes \ S
                 => SumOver(ValueOf, S \cup ({n} \ {PaddingNote})) = SumOver(ValueOf, S) + n.value
<1>1. ASSUME NEW T \in SUBSET Notes
      PROVE  /\ SumOver(ValueOf, T) \in Nat
             /\ \A m \in Notes \ T : SumOver(ValueOf, T \cup {m}) = SumOver(ValueOf, T) + m.value
  <2>1. \A m \in Notes \ T : ValueOf[m] = m.value
    BY DEF ValueOf
  <2> QED BY <2>1, NotesFinite, SumAdds
<1>2. CASE n = PaddingNote
  <2>1. S \ {n} = S /\ S \cup ({n} \ {PaddingNote}) = S
    BY <1>2, NotesFinite
  <2>2. n.value = 0
    BY <1>2 DEF PaddingNote, NewNote
  <2>3. n \notin S /\ n \notin Notes
    BY <1>2, NotesFinite
  <2>4. SumOver(ValueOf, S) \in Nat
    BY <1>1
  <2>5. SumOver(ValueOf, S) + 0 = SumOver(ValueOf, S)
    BY <2>4
  <2> QED BY <2>1, <2>2, <2>4, <2>5
<1>3. CASE n # PaddingNote
  <2>1. ASSUME n \in S PROVE SumOver(ValueOf, S \ {n}) + n.value = SumOver(ValueOf, S)
    <3>1. S \ {n} \in SUBSET Notes /\ n \in Notes \ (S \ {n}) /\ (S \ {n}) \cup {n} = S
      BY <2>1
    <3>2. SumOver(ValueOf, (S \ {n}) \cup {n}) = SumOver(ValueOf, S \ {n}) + n.value
      BY <1>1, <3>1
    <3> QED BY <3>1, <3>2
  <2>2. ASSUME n \in Notes \ S
        PROVE  SumOver(ValueOf, S \cup ({n} \ {PaddingNote})) = SumOver(ValueOf, S) + n.value
    <3>1. {n} \ {PaddingNote} = {n}
      BY <1>3
    <3> QED BY <1>1, <2>2, <3>1
  <2> QED BY <1>1, <1>3, <2>1, <2>2
<1> QED BY <1>2, <1>3

(* A tree: its notes are range checked, and what was spent was a note of   *)
(* its owner.                                                              *)
Sound(root) ==
    /\ Placed(root)
    /\ \A n \in Owned(root) : n.value \in RangeChecked
    /\ \A n \in Notes, s \in Secrets :
          Nullifier(n, s) \in Leaves(root) => n \in Owned(root) /\ n.address = Address(s)
Worth(root) == SumOver(ValueOf, Unspent(root))

\* The leaves of a tree after a transaction.
LEMMA LeavesAfter ==
    ASSUME NEW root, Sound(root), NEW L, L \subseteq Leaves(root), NEW t, NEW a, NEW b, NEW x, NEW y,
           Utxo(t, L, a, b, x, y), NEW new \in BatchInsert(root, UtxoLeaves(t))
    PROVE  LET na == Nullifier(a.note, a.secret)
               nb == Nullifier(b.note, b.secret)
               cx == Commitment(x)
               cy == Commitment(y)
           IN  /\ Placed(new) /\ Leaves(new) = Leaves(root) \cup ({na, nb, cx, cy} \ {Zero})
               /\ na \notin Leaves(root) /\ nb \notin Leaves(root)
               /\ cx \notin Leaves(root) /\ cy \notin Leaves(root)
               /\ na = Zero \/ na # nb
               /\ cx = Zero \/ cx # cy
<1> DEFINE leaves == UtxoLeaves(t)
           na == Nullifier(a.note, a.secret)
           nb == Nullifier(b.note, b.secret)
           cx == Commitment(x)
           cy == Commitment(y)
<1>1. /\ IsInput(a, L) /\ IsInput(b, L) /\ IsOutput(x) /\ IsOutput(y)
      /\ Len(leaves) = 4 /\ leaves[1] = na /\ leaves[2] = nb /\ leaves[3] = cx /\ leaves[4] = cy
  BY DEF Utxo, HasLeaves
<1>2. /\ na = Zero \/ Position(na) \in BitSeqs
      /\ nb = Zero \/ Position(nb) \in BitSeqs
  <2>1. ASSUME NEW in, IsInput(in, L)
        PROVE  Nullifier(in.note, in.secret) = Zero \/ Position(Nullifier(in.note, in.secret)) \in BitSeqs
    <3>1. CASE in.note = PaddingNote
      BY <3>1 DEF PaddingNote, NewNote, Nullifier, Commitment
    <3>2. CASE in.note \in Notes /\ in.secret \in Secrets
      BY <3>2, PositionAssumption
    <3> QED BY <2>1, <3>1, <3>2 DEF IsInput
  <2> QED BY <1>1, <2>1
<1>3. /\ cx = Zero \/ Position(cx) \in BitSeqs
      /\ cy = Zero \/ Position(cy) \in BitSeqs
  <2>1. ASSUME NEW z, IsOutput(z) PROVE Commitment(z) = Zero \/ Position(Commitment(z)) \in BitSeqs
    <3>1. CASE z = PaddingNote
      BY <3>1 DEF PaddingNote, NewNote, Commitment
    <3>2. CASE z \in Notes
      BY <3>2, PositionAssumption
    <3> QED BY <2>1, <3>1, <3>2 DEF IsOutput
  <2> QED BY <1>1, <2>1
<1> HIDE DEF leaves, na, nb, cx, cy
<1>4. 1 .. Len(leaves) = {1, 2, 3, 4} /\ Len(leaves) \in Nat
  BY <1>1
<1>5. \A i \in 1 .. Len(leaves) : leaves[i] # Zero => Position(leaves[i]) \in BitSeqs
  BY <1>1, <1>2, <1>3, <1>4
<1>6. /\ Placed(new)
      /\ Leaves(new) = Leaves(root) \cup ({leaves[i] : i \in 1 .. Len(leaves)} \ {Zero})
      /\ \A i \in 1 .. Len(leaves) : leaves[i] \notin Leaves(root)
      /\ \A i, j \in 1 .. Len(leaves) : i < j => leaves[i] = Zero \/ leaves[i] # leaves[j]
  <2>1. new \in BatchInsert(root, leaves) /\ Placed(root)
    BY DEF leaves, Sound
  <2> QED BY <1>4, <1>5, <2>1, BatchIs
<1>7. {leaves[i] : i \in 1 .. Len(leaves)} = {na, nb, cx, cy}
  BY <1>1, <1>4
<1>8. /\ na \notin Leaves(root) /\ nb \notin Leaves(root)
      /\ cx \notin Leaves(root) /\ cy \notin Leaves(root)
  BY <1>1, <1>4, <1>6
<1>9. (na = Zero \/ na # nb) /\ (cx = Zero \/ cx # cy)
  <2>1. 1 < 2 /\ 3 < 4 /\ 1 \in 1 .. Len(leaves) /\ 2 \in 1 .. Len(leaves)
        /\ 3 \in 1 .. Len(leaves) /\ 4 \in 1 .. Len(leaves)
    BY <1>4
  <2> QED BY <1>1, <1>6, <2>1
<1> QED BY <1>6, <1>7, <1>8, <1>9 DEF na, nb, cx, cy

\* A transaction spends notes that could be spent, adds notes that are new, and
\* changes what the tree is worth by what it mints and burns.
LEMMA Applied ==
    ASSUME NEW root, Sound(root), NEW L, L \subseteq Leaves(root), NEW t, NEW a, NEW b, NEW x, NEW y,
           Utxo(t, L, a, b, x, y), NEW new \in BatchInsert(root, UtxoLeaves(t))
    PROVE  /\ Sound(new) /\ Leaves(root) \subseteq Leaves(new)
           /\ Worth(root) \in Nat /\ Worth(new) \in Nat
           /\ MintedBy(t) \in Nat /\ BurnedBy(t) \in Nat
           /\ Worth(new) + BurnedBy(t) = Worth(root) + MintedBy(t)
<1> DEFINE na == Nullifier(a.note, a.secret)
           nb == Nullifier(b.note, b.secret)
           cx == Commitment(x)
           cy == Commitment(y)
           m == a.note
           k == b.note
<1>1. /\ Placed(new) /\ Leaves(new) = Leaves(root) \cup ({na, nb, cx, cy} \ {Zero})
      /\ na \notin Leaves(root) /\ nb \notin Leaves(root)
      /\ cx \notin Leaves(root) /\ cy \notin Leaves(root)
      /\ na = Zero \/ na # nb
      /\ cx = Zero \/ cx # cy
  BY LeavesAfter
<1>2. ASSUME NEW in, IsInput(in, L)
      PROVE  \/ in.note = PaddingNote /\ Nullifier(in.note, in.secret) = Zero
             \/ /\ in.note \in Notes /\ in.secret \in Secrets /\ in.note.address = Address(in.secret)
                /\ in.note \in Owned(root)
  <2>1. CASE in.note = PaddingNote
    BY <2>1 DEF PaddingNote, NewNote, Nullifier, Commitment
  <2> QED BY <1>2, <2>1 DEF IsInput, Owned
<1>3. /\ IsInput(a, L) /\ IsInput(b, L) /\ IsOutput(x) /\ IsOutput(y)
  BY DEF Utxo
<1>4. /\ \/ m = PaddingNote /\ na = Zero
         \/ m \in Notes /\ a.secret \in Secrets /\ m.address = Address(a.secret) /\ m \in Owned(root)
      /\ \/ k = PaddingNote /\ nb = Zero
         \/ k \in Notes /\ b.secret \in Secrets /\ k.address = Address(b.secret) /\ k \in Owned(root)
  BY <1>2, <1>3
<1>5. /\ (x = PaddingNote /\ cx = Zero) \/ (x \in Notes /\ x.value \in RangeChecked)
      /\ (y = PaddingNote /\ cy = Zero) \/ (y \in Notes /\ y.value \in RangeChecked)
  BY <1>3 DEF IsOutput, PaddingNote, NewNote, Commitment
<1>6. PaddingNote \notin Notes
  BY NotesFinite
<1>7. ASSUME NEW n \in Notes
      PROVE  Commitment(n) \in Leaves(new) <=> Commitment(n) \in Leaves(root) \/ n = x \/ n = y
  <2>1. Commitment(n) # Zero /\ Commitment(n) # na /\ Commitment(n) # nb
    BY <1>4, LeafShapes
  <2>2. (Commitment(n) = cx <=> n = x) /\ (Commitment(n) = cy <=> n = y)
    BY <1>5, <2>1, LeafShapes
  <2> HIDE DEF na, nb, cx, cy
  <2> QED BY <1>1, <2>1, <2>2
<1>8. ASSUME NEW n \in Notes, NEW s \in Secrets
      PROVE  Nullifier(n, s) \in Leaves(new)
                <=> \/ Nullifier(n, s) \in Leaves(root)
                    \/ n = m /\ s = a.secret
                    \/ n = k /\ s = b.secret
  <2>1. Nullifier(n, s) # Zero /\ Nullifier(n, s) # cx /\ Nullifier(n, s) # cy
    BY <1>5, LeafShapes
  <2>2. (Nullifier(n, s) = na <=> n = m /\ s = a.secret) /\ (Nullifier(n, s) = nb <=> n = k /\ s = b.secret)
    BY <1>4, <2>1, LeafShapes
  <2> HIDE DEF na, nb, cx, cy, m, k
  <2> QED BY <1>1, <2>1, <2>2
<1>9. /\ m \in Notes => m \in Unspent(root)
      /\ k \in Notes => k \in Unspent(root)
  <2>1. ASSUME NEW in, IsInput(in, L), in.note \in Notes, Nullifier(in.note, in.secret) \notin Leaves(root)
        PROVE  in.note \in Unspent(root)
    <3>1. in.note \in Owned(root) /\ in.note.address = Address(in.secret)
      BY <1>2, <1>6, <2>1
    <3>2. ASSUME NEW s \in Secrets PROVE Nullifier(in.note, s) \notin Leaves(root)
      <4> SUFFICES ASSUME Nullifier(in.note, s) \in Leaves(root) PROVE FALSE
        OBVIOUS
      <4>1. Address(s) = Address(in.secret)
        BY <2>1, <3>1 DEF Sound
      <4>2. s = in.secret
        BY <4>1 DEF Address
      <4> QED BY <2>1, <4>2
    <3> QED BY <3>1, <3>2 DEF Unspent
  <2> QED BY <1>1, <1>3, <2>1
<1>10. m \in Notes => m # k
  <2> SUFFICES ASSUME m \in Notes, m = k PROVE FALSE
    OBVIOUS
  <2>1. Address(a.secret) = Address(b.secret)
    BY <1>4, <1>6
  <2>2. a.secret = b.secret
    BY <2>1 DEF Address
  <2>3. na = nb /\ na # Zero
    BY <2>2, LeafShapes
  <2> QED BY <1>1, <2>3
<1>11. /\ x \in Notes => x \notin Owned(root) /\ x # y
       /\ y \in Notes => y \notin Owned(root)
  <2>1. x \in Notes => cx # Zero
    BY LeafShapes
  <2> QED BY <1>1, <2>1 DEF Owned
<1>12. /\ m \in Notes <=> m # PaddingNote
       /\ k \in Notes <=> k # PaddingNote
       /\ x \in Notes <=> x # PaddingNote
       /\ y \in Notes <=> y # PaddingNote
  BY <1>4, <1>5, <1>6
<1>13. Leaves(root) \subseteq Leaves(new)
  BY <1>1
<1> HIDE DEF na, nb, cx, cy, m, k
<1>14. \A n \in Notes : n \in Owned(new) <=> n \in Owned(root) \/ n = x \/ n = y
  BY <1>7 DEF Owned
<1>15. m \in Notes => a.secret \in Secrets /\ m \in Owned(root)
  BY <1>4, <1>6
<1>16. k \in Notes => b.secret \in Secrets /\ k \in Owned(root)
  BY <1>4, <1>6
<1>17. Sound(new)
  <2>1. ASSUME NEW n \in Owned(new) PROVE n.value \in RangeChecked
    <3>1. n \in Notes
      BY DEF Owned
    <3>2. n \in Owned(root) \/ n = x \/ n = y
      BY <1>14, <3>1
    <3> QED BY <1>5, <1>6, <3>1, <3>2 DEF Sound
  <2>2. ASSUME NEW n \in Notes, NEW s \in Secrets, Nullifier(n, s) \in Leaves(new)
        PROVE  n \in Owned(new) /\ n.address = Address(s)
    <3>1. Nullifier(n, s) \in Leaves(root) \/ (n = m /\ s = a.secret) \/ (n = k /\ s = b.secret)
      BY <1>8, <2>2
    <3>2. n \in Owned(root) /\ n.address = Address(s)
      BY <1>4, <1>6, <3>1 DEF Sound
    <3> QED BY <1>14, <3>2
  <2> QED BY <1>1, <2>1, <2>2 DEF Sound
<1> DEFINE S0 == Unspent(root)
           S1 == S0 \ {m}
           S2 == S1 \ {k}
           S3 == S2 \cup ({x} \ {PaddingNote})
           S4 == S3 \cup ({y} \ {PaddingNote})
<1>18. \A n \in Notes : n \in Unspent(new) <=> n \in S4
  <2> SUFFICES ASSUME NEW n \in Notes PROVE n \in Unspent(new) <=> n \in S4
    OBVIOUS
  <2>1. n \in Unspent(new) <=> n \in Owned(new) /\ \A s \in Secrets : Nullifier(n, s) \notin Leaves(new)
    BY DEF Unspent
  <2>2. n \in Unspent(root) <=> n \in Owned(root) /\ \A s \in Secrets : Nullifier(n, s) \notin Leaves(root)
    BY DEF Unspent
  <2>3. (\E s \in Secrets : Nullifier(n, s) \in Leaves(new))
           <=> (\E s \in Secrets : Nullifier(n, s) \in Leaves(root)) \/ n = m \/ n = k
    BY <1>8, <1>15, <1>16
  <2>4. (\E s \in Secrets : Nullifier(n, s) \in Leaves(root)) => n \in Owned(root)
    BY DEF Sound
  <2>5. n \in S4 <=> (n \in Unspent(root) /\ n # m /\ n # k) \/ n = x \/ n = y
    BY <1>12
  <2>6. n = x \/ n = y => n \notin Owned(root) /\ n # m /\ n # k
    BY <1>11, <1>15, <1>16
  <2> QED BY <1>14, <2>1, <2>2, <2>3, <2>4, <2>5, <2>6
<1>19. S0 \in SUBSET Notes /\ Unspent(new) \in SUBSET Notes
  BY DEF Unspent, Owned
<1>20. S1 \in SUBSET Notes /\ S2 \in SUBSET Notes /\ S3 \in SUBSET Notes /\ S4 \in SUBSET Notes
  BY <1>12, <1>19
<1>21. Unspent(new) = S4
  <2> HIDE DEF S4
  <2> QED BY <1>18, <1>19, <1>20
<1>22. /\ m = PaddingNote \/ m \in S0
       /\ k = PaddingNote \/ k \in S1
       /\ x = PaddingNote \/ x \in Notes \ S2
       /\ y = PaddingNote \/ y \in Notes \ S3
  <2>1. \A n \in S0 : n \in Owned(root)
    BY DEF Unspent
  <2> QED BY <1>9, <1>10, <1>11, <1>12, <2>1
<1>23. /\ SumOver(ValueOf, S1) + m.value = SumOver(ValueOf, S0)
       /\ SumOver(ValueOf, S2) + k.value = SumOver(ValueOf, S1)
       /\ SumOver(ValueOf, S3) = SumOver(ValueOf, S2) + x.value
       /\ SumOver(ValueOf, S4) = SumOver(ValueOf, S3) + y.value
  <2>1. SumOver(ValueOf, S1) + m.value = SumOver(ValueOf, S0)
    <3> HIDE DEF S0
    <3> QED BY <1>19, <1>22, WorthMoves
  <2>2. SumOver(ValueOf, S2) + k.value = SumOver(ValueOf, S1)
    <3> HIDE DEF S1
    <3> QED BY <1>20, <1>22, WorthMoves
  <2>3. SumOver(ValueOf, S3) = SumOver(ValueOf, S2) + x.value
    <3> HIDE DEF S2
    <3> QED BY <1>20, <1>22, WorthMoves
  <2>4. SumOver(ValueOf, S4) = SumOver(ValueOf, S3) + y.value
    <3> HIDE DEF S3
    <3> QED BY <1>20, <1>22, WorthMoves
  <2> QED BY <2>1, <2>2, <2>3, <2>4
<1>24. /\ SumOver(ValueOf, S0) \in Nat /\ SumOver(ValueOf, S1) \in Nat /\ SumOver(ValueOf, S2) \in Nat
       /\ SumOver(ValueOf, S3) \in Nat /\ SumOver(ValueOf, S4) \in Nat
  <2> HIDE DEF S0, S1, S2, S3, S4
  <2> QED BY <1>19, <1>20, WorthMoves
<1>25. /\ m.value \in Nat /\ k.value \in Nat /\ x.value \in Nat /\ y.value \in Nat
  BY <1>3, InputLeaf, OutputLeaf, NoWrap DEF m, k
<1>26. /\ MintedBy(t) \in Nat /\ BurnedBy(t) \in Nat
       /\ m.value + k.value + MintedBy(t) = x.value + y.value + BurnedBy(t)
  BY DEF Utxo, Balances, m, k
<1>27. Worth(root) = SumOver(ValueOf, S0) /\ Worth(new) = SumOver(ValueOf, S4)
  BY <1>21 DEF Worth
<1> HIDE DEF S0, S1, S2, S3, S4
<1>28. Worth(new) + BurnedBy(t) = Worth(root) + MintedBy(t)
  BY <1>23, <1>24, <1>25, <1>26, <1>27
<1> QED BY <1>13, <1>17, <1>24, <1>26, <1>27, <1>28

\* What the notes of a set are worth does not depend on the order of the sum.
LEMMA WorthIs ==
    ASSUME NEW S \in SUBSET Notes
    PROVE  MapThenSumSet(LAMBDA n : n.value, S) = SumOver(ValueOf, S)
<1>1. PICK H : IsSum(H, Notes, ValueOf)
  BY NotesFinite, SumIsFold
<1>2. /\ H \in [SUBSET Notes -> Nat] /\ H[{}] = 0
      /\ \A s \in SUBSET Notes : s # {} => H[s] = ValueOf[Some(s)] + H[s \ {Some(s)}]
      /\ \A s \in SUBSET Notes : SumOver(ValueOf, s) = H[s]
  BY <1>1 DEF IsSum
<1>3. ASSUME NEW s \in SUBSET Notes, s # {}
      PROVE  Some(s) \in s /\ H[s] = Some(s).value + H[s \ {Some(s)}]
  <2>1. Some(s) \in s
    BY <1>3 DEF Some
  <2>2. ValueOf[Some(s)] = Some(s).value
    BY <2>1 DEF ValueOf
  <2> QED BY <1>2, <1>3, <2>1, <2>2
<1> DEFINE Sums(G) == G = [s \in SUBSET S |-> IF s = {} THEN 0
                               ELSE LET x == CHOOSE x \in s : TRUE IN x.value + G[s \ {x}]]
           G == CHOOSE G : Sums(G)
<1>4. MapThenSumSet(LAMBDA n : n.value, S) = G[S]
  BY DEF MapThenSumSet, MapThenFoldSet
<1>5. Sums([s \in SUBSET S |-> H[s]])
  <2> DEFINE K == [s \in SUBSET S |-> H[s]]
  <2>1. ASSUME NEW s \in SUBSET S, s # {}
        PROVE  K[s] = Some(s).value + K[s \ {Some(s)}]
    BY <1>3, <2>1
  <2>2. K[{}] = 0
    BY <1>2
  <2>3. K = [s \in SUBSET S |-> K[s]]
    OBVIOUS
  <2> HIDE DEF K
  <2>4. K = [s \in SUBSET S |-> IF s = {} THEN 0
                               ELSE LET x == CHOOSE x \in s : TRUE IN x.value + K[s \ {x}]]
    BY <2>1, <2>2, <2>3 DEF Some
  <2> QED BY <2>4 DEF K
<1>6. Sums(G)
  <2> HIDE DEF Sums
  <2> QED BY <1>5
<1>7. \A s \in SUBSET S : G[s] = IF s = {} THEN 0 ELSE Some(s).value + G[s \ {Some(s)}]
  <2> HIDE DEF G
  <2> QED BY <1>6 DEF Some
<1> HIDE DEF G, Sums
<1> DEFINE C == {s \in SUBSET S : H[s] # G[s]}
<1>8. C = {}
  <2> SUFFICES ASSUME C # {} PROVE FALSE
    OBVIOUS
  <2>1. \A s \in SUBSET S : IsFiniteSet(s) /\ Cardinality(s) \in Nat
    BY NotesFinite, FS_Subset, FS_CardinalityType
  <2>2. PICK s \in C : \A u \in C : Cardinality(s) <= Cardinality(u)
    BY <2>1, SmallestSet
  <2>3. s # {}
    BY <1>2, <1>7
  <2>4. Some(s) \in s /\ s \ {Some(s)} \in SUBSET S
    BY <1>3, <2>3
  <2>5. Cardinality(s \ {Some(s)}) = Cardinality(s) - 1
    BY <2>1, <2>4, FS_RemoveElement
  <2>6. s \ {Some(s)} \notin C
    <3>1. Cardinality(s) \in Nat
      BY <2>1
    <3> HIDE DEF C
    <3> QED BY <2>2, <2>5, <3>1
  <2> QED BY <1>3, <1>7, <2>3, <2>4, <2>6
<1> QED BY <1>2, <1>4, <1>8

\* The sum of the two transactions of a block.
LEMMA SumOfTwo ==
    ASSUME NEW f \in [1 .. 2 -> Nat]
    PROVE  FoldFunction(+, 0, f) = f[1] + f[2]
<1> DEFINE S == 1 .. 2
<1>1. FoldFunction(+, 0, f) = SumOver(f, S)
  BY DEF FoldFunction, FoldFunctionOnSet, SumOver, MapThenSumSet
<1>2. IsFiniteSet(S)
  <2>1. 1 \in Int /\ 2 \in Int
    OBVIOUS
  <2> QED BY ONLY <2>1, FS_Interval
<1>3. {} \in SUBSET S /\ {1} \in SUBSET S /\ 1 \in S \ {} /\ 2 \in S \ {1}
      /\ {} \cup {1} = {1} /\ {1} \cup {2} = S
  OBVIOUS
<1>4. f[1] \in Nat /\ f[2] \in Nat
  OBVIOUS
<1>5. f \in [S -> Nat]
  OBVIOUS
<1> HIDE DEF S
<1>6. SumOver(f, {}) = 0 /\ SumOver(f, {} \cup {1}) = SumOver(f, {}) + f[1]
  <2>1. {} \in SUBSET S /\ 1 \in S \ {}
    BY <1>3
  <2>2. \A v \in S \ {} : SumOver(f, {} \cup {v}) = SumOver(f, {}) + f[v]
    BY ONLY <1>2, <1>5, <2>1, SumAdds
  <2>3. SumOver(f, {}) = 0
    BY ONLY <1>2, <1>5, <2>1, SumAdds
  <2> QED BY ONLY <2>1, <2>2, <2>3
<1>7. SumOver(f, {1} \cup {2}) = SumOver(f, {1}) + f[2]
  <2>1. {1} \in SUBSET S /\ 2 \in S \ {1}
    BY <1>3
  <2>2. \A v \in S \ {1} : SumOver(f, {1} \cup {v}) = SumOver(f, {1}) + f[v]
    BY ONLY <1>2, <1>5, <2>1, SumAdds
  <2> QED BY ONLY <2>1, <2>2
<1>8. SumOver(f, {1}) = 0 + f[1]
  BY <1>3, <1>6
<1>9. SumOver(f, S) = (0 + f[1]) + f[2]
  BY <1>3, <1>7, <1>8
<1>10. (0 + f[1]) + f[2] = f[1] + f[2]
  BY <1>4
<1> QED BY <1>1, <1>9, <1>10

\* What the contract mints and burns for a block.
LEMMA BlockValue ==
    ASSUME NEW t, NEW u, MintedBy(t) \in Nat, MintedBy(u) \in Nat,
           BurnedBy(t) \in Nat, BurnedBy(u) \in Nat
    PROVE  /\ Income(<<t>> \o <<u>>) = MintedBy(t) + MintedBy(u)
           /\ Expense(<<t>> \o <<u>>) = BurnedBy(t) + BurnedBy(u)
<1> DEFINE insts == <<t>> \o <<u>>
           f == [i \in 1 .. 2 |-> MintedBy(insts[i])]
           g == [i \in 1 .. 2 |-> BurnedBy(insts[i])]
<1>1. DOMAIN insts = 1 .. 2 /\ insts[1] = t /\ insts[2] = u
  OBVIOUS
<1> HIDE DEF insts
<1>2. f \in [1 .. 2 -> Nat] /\ f[1] = MintedBy(t) /\ f[2] = MintedBy(u)
  BY <1>1
<1>3. g \in [1 .. 2 -> Nat] /\ g[1] = BurnedBy(t) /\ g[2] = BurnedBy(u)
  BY <1>1
<1>4. Income(insts) = FoldFunction(+, 0, f)
  BY <1>1 DEF Income, MintedBy
<1>5. Expense(insts) = FoldFunction(+, 0, g)
  BY <1>1 DEF Expense, BurnedBy
<1> HIDE DEF f, g
<1> QED BY <1>2, <1>3, <1>4, <1>5, SumOfTwo DEF insts

\* The leaves of an aggregate of one transaction.
LEMMA FlattenOne ==
    ASSUME NEW t
    PROVE  FlattenSeq([i \in DOMAIN <<t>> |-> UtxoLeaves(<<t>>[i])]) = UtxoLeaves(t)
<1> DEFINE q == [i \in DOMAIN <<t>> |-> UtxoLeaves(<<t>>[i])]
           Flat(h) == h = [i \in 1 .. Len(q) |-> IF i = 1 THEN q[i] ELSE h[i - 1] \o q[i]]
           h == CHOOSE h : Flat(h)
<1>1. q = [i \in 1 .. 1 |-> UtxoLeaves(t)]
  OBVIOUS
<1>2. Len(q) = 1 /\ q[1] = UtxoLeaves(t)
  BY <1>1
<1>3. FlattenSeq(q) = h[Len(q)]
  <2>1. Len(q) # 0
    BY <1>2
  <2> HIDE DEF q
  <2> QED BY <2>1 DEF FlattenSeq
<1> HIDE DEF q
<1>4. Flat([i \in 1 .. 1 |-> q[1]])
  BY <1>2
<1>5. Flat(h)
  <2> HIDE DEF Flat
  <2> QED BY <1>4
<1> HIDE DEF h
<1>6. h[1] = q[1]
  BY <1>2, <1>5
<1> QED BY <1>2, <1>3, <1>6 DEF q

(* What a block does: it applies two transactions, one per aggregate, that *)
(* were proved against roots that the contract still knows.                *)
Applies(r, q, t, u, mid, new) ==
    /\ r \in ToSet(roots) /\ q \in ToSet(roots) /\ t \in Provable(r) /\ u \in Provable(q)
    /\ mid \in BatchInsert(CurrentRoot, UtxoLeaves(t)) /\ new \in BatchInsert(mid, UtxoLeaves(u))
    /\ roots' = Append(roots, new)
    /\ minted' = minted + Income(<<t>> \o <<u>>)
    /\ burned' = burned + Expense(<<t>> \o <<u>>)

\* The aggregation circuits leave no other blocks than these.
LEMMA BlockIs ==
    ASSUME VerifyBlock
    PROVE  \E r, q, t, u, mid, new : Applies(r, q, t, u, mid, new)
<1> DEFINE proofs == UNION {Provable(r) : r \in ToSet(roots)}
<1>1. PICK t \in proofs : \E a \in AggregateUtxo(CurrentRoot, <<t>>) :
             \E u \in proofs : \E agg \in AggregateProofs(a, u) :
                /\ roots' = Append(roots, agg.new)
                /\ minted' = minted + Income(agg.utxos)
                /\ burned' = burned + Expense(agg.utxos)
  BY DEF VerifyBlock
<1>2. PICK a \in AggregateUtxo(CurrentRoot, <<t>>), u \in proofs :
             \E agg \in AggregateProofs(a, u) :
                /\ roots' = Append(roots, agg.new)
                /\ minted' = minted + Income(agg.utxos)
                /\ burned' = burned + Expense(agg.utxos)
  BY <1>1
<1>3. PICK agg \in AggregateProofs(a, u) :
                /\ roots' = Append(roots, agg.new)
                /\ minted' = minted + Income(agg.utxos)
                /\ burned' = burned + Expense(agg.utxos)
  BY <1>2
<1>4. PICK b \in AggregateUtxo(a.new, <<u>>) : agg \in AggregateAgg(a, b)
  BY <1>3 DEF AggregateProofs
<1>5. ASSUME NEW old, NEW v, NEW c \in AggregateUtxo(old, <<v>>)
      PROVE  c.old = old /\ c.utxos = <<v>> /\ c.new \in BatchInsert(old, UtxoLeaves(v))
  <2>1. PICK new \in BatchInsert(old, FlattenSeq([i \in DOMAIN <<v>> |-> UtxoLeaves(<<v>>[i])])) :
               c = [old |-> old, new |-> new, utxos |-> <<v>>]
    BY <1>5 DEF AggregateUtxo
  <2>2. new \in BatchInsert(old, UtxoLeaves(v))
    BY <2>1, FlattenOne
  <2> QED BY <2>1, <2>2
<1>6. a.utxos = <<t>> /\ a.new \in BatchInsert(CurrentRoot, UtxoLeaves(t))
  BY <1>2, <1>5
<1>7. b.utxos = <<u>> /\ b.new \in BatchInsert(a.new, UtxoLeaves(u))
  BY <1>4, <1>5
<1>8. agg.new = b.new /\ agg.utxos = <<t>> \o <<u>>
  <2>1. agg \in {[old |-> a.old, new |-> b.new, utxos |-> a.utxos \o b.utxos]}
    BY <1>4 DEF AggregateAgg
  <2> QED BY <1>6, <1>7, <2>1
<1>9. PICK r \in ToSet(roots) : t \in Provable(r)
  OBVIOUS
<1>10. PICK q \in ToSet(roots) : u \in Provable(q)
  OBVIOUS
<1>11. Applies(r, q, t, u, a.new, b.new)
  BY <1>3, <1>6, <1>7, <1>8, <1>9, <1>10 DEF Applies
<1> QED BY <1>11

(* Every root that the contract knows is that of an earlier tree, and the  *)
(* current one is worth what was minted and not burned.                    *)
RootsInv ==
    /\ \E S : roots \in Seq(S)
    /\ roots # <<>>
    /\ Sound(CurrentRoot)
    /\ \A i \in 1 .. Len(roots) : Leaves(roots[i]) \subseteq Leaves(CurrentRoot)
    /\ minted \in Nat /\ burned \in Nat
    /\ minted = burned + Worth(CurrentRoot)

\* The empty tree is sound and worth nothing.
LEMMA RootsInit ==
    CircuitsInit => RootsInv
<1> SUFFICES ASSUME CircuitsInit PROVE RootsInv
  OBVIOUS
<1>1. roots = <<EmptyRoot>> /\ minted = 0 /\ burned = 0
  BY DEF CircuitsInit
<1>2. Leaves(EmptyRoot) = {} /\ Placed(EmptyRoot)
  BY EmptyLeaves DEF Leaves, Placed
<1>3. Owned(EmptyRoot) = {} /\ Unspent(EmptyRoot) = {}
  BY <1>2 DEF Owned, Unspent
<1>4. Sound(EmptyRoot)
  BY <1>2, <1>3 DEF Sound
<1>5. Worth(EmptyRoot) = 0
  <2>1. {} \in SUBSET Notes
    OBVIOUS
  <2>2. SumOver(ValueOf, {}) = 0
    BY <2>1, NotesFinite, SumAdds
  <2> QED BY <1>3, <2>2 DEF Worth
<1>6. roots \in Seq({EmptyRoot}) /\ roots # <<>> /\ Len(roots) = 1 /\ CurrentRoot = EmptyRoot
  BY <1>1 DEF CurrentRoot
<1>7. \A i \in 1 .. Len(roots) : roots[i] = EmptyRoot
  BY <1>1
<1>8. minted \in Nat /\ burned \in Nat /\ minted = burned + Worth(CurrentRoot)
  <2>1. Worth(CurrentRoot) = 0
    BY <1>5, <1>6
  <2> QED BY <1>1, <2>1
<1>9. Sound(CurrentRoot) /\ \A i \in 1 .. Len(roots) : Leaves(roots[i]) \subseteq Leaves(CurrentRoot)
  BY <1>4, <1>6, <1>7
<1>10. (\E S : roots \in Seq(S)) /\ roots # <<>>
  BY <1>6
<1> QED BY <1>8, <1>9, <1>10 DEF RootsInv

\* Every block keeps the invariant and the leaves of the tree.
LEMMA RootsStep ==
    ASSUME RootsInv, [CircuitsNext]_circuitVars
    PROVE  RootsInv' /\ Leaves(CurrentRoot) \subseteq Leaves(CurrentRoot)'
<1>1. CASE VerifyBlock
  <2>1. PICK r, q, t, u, mid, new : Applies(r, q, t, u, mid, new)
    BY <1>1, BlockIs
  <2> DEFINE cur == CurrentRoot
             L == Leaves(cur)
  <2>2. PICK S : roots \in Seq(S)
    BY DEF RootsInv
  <2>3. /\ Sound(cur) /\ roots # <<>> /\ minted \in Nat /\ burned \in Nat
        /\ minted = burned + Worth(cur)
    BY DEF RootsInv
  <2>4. \A p \in ToSet(roots) : Leaves(p) \subseteq L
    <3>1. DOMAIN roots = 1 .. Len(roots)
      BY <2>2
    <3>2. \A p \in ToSet(roots) : \E i \in 1 .. Len(roots) : p = roots[i]
      BY <3>1 DEF ToSet
    <3> QED BY <3>2 DEF RootsInv
  <2>5. ASSUME NEW p \in ToSet(roots), NEW n \in Owned(p)
        PROVE  n.value \in RangeChecked /\ Commitment(n) \in L
    <3>1. n \in Owned(cur)
      BY <2>4, <2>5 DEF Owned
    <3> QED BY <2>3, <3>1 DEF Sound, Owned
  <2>6. PICK a1, b1, x1, y1 : Utxo(t, L, a1, b1, x1, y1)
    <3>1. r \in ToSet(roots) /\ t \in Provable(r)
      BY <2>1 DEF Applies
    <3>2. \A n \in Owned(r) : n.value \in RangeChecked /\ Commitment(n) \in L
      BY <2>5, <3>1
    <3> HIDE DEF L
    <3> QED BY <3>1, <3>2, UtxoIs
  <2>7. PICK a2, b2, x2, y2 : Utxo(u, L, a2, b2, x2, y2)
    <3>1. q \in ToSet(roots) /\ u \in Provable(q)
      BY <2>1 DEF Applies
    <3>2. \A n \in Owned(q) : n.value \in RangeChecked /\ Commitment(n) \in L
      BY <2>5, <3>1
    <3> HIDE DEF L
    <3> QED BY <3>1, <3>2, UtxoIs
  <2>8. /\ Sound(mid) /\ L \subseteq Leaves(mid)
        /\ Worth(cur) \in Nat /\ Worth(mid) \in Nat
        /\ MintedBy(t) \in Nat /\ BurnedBy(t) \in Nat
        /\ Worth(mid) + BurnedBy(t) = Worth(cur) + MintedBy(t)
    <3>1. mid \in BatchInsert(cur, UtxoLeaves(t))
      BY <2>1 DEF Applies
    <3>2. L \subseteq Leaves(cur)
      OBVIOUS
    <3> HIDE DEF L, cur
    <3> QED BY <2>3, <2>6, <3>1, <3>2, Applied DEF L
  <2>9. /\ Sound(new) /\ Leaves(mid) \subseteq Leaves(new)
        /\ Worth(new) \in Nat
        /\ MintedBy(u) \in Nat /\ BurnedBy(u) \in Nat
        /\ Worth(new) + BurnedBy(u) = Worth(mid) + MintedBy(u)
    <3>1. new \in BatchInsert(mid, UtxoLeaves(u))
      BY <2>1 DEF Applies
    <3> HIDE DEF L, cur
    <3> QED BY <2>7, <2>8, <3>1, Applied
  <2>10. /\ minted' = minted + (MintedBy(t) + MintedBy(u))
         /\ burned' = burned + (BurnedBy(t) + BurnedBy(u))
    BY <2>1, <2>8, <2>9, BlockValue DEF Applies
  <2>11. minted' \in Nat /\ burned' \in Nat /\ minted' = burned' + Worth(new)
    <3> DEFINE mt == MintedBy(t)
               mu == MintedBy(u)
               bt == BurnedBy(t)
               bu == BurnedBy(u)
               wc == Worth(cur)
               wm == Worth(mid)
               wn == Worth(new)
    <3>1. /\ mt \in Nat /\ mu \in Nat /\ bt \in Nat /\ bu \in Nat
          /\ wc \in Nat /\ wm \in Nat /\ wn \in Nat
          /\ wm + bt = wc + mt /\ wn + bu = wm + mu
      BY <2>8, <2>9
    <3>2. minted \in Nat /\ burned \in Nat /\ minted = burned + wc
      BY <2>3
    <3>3. minted' = minted + (mt + mu) /\ burned' = burned + (bt + bu)
      BY <2>10
    <3> HIDE DEF mt, mu, bt, bu, wc, wm, wn
    <3>4. minted' \in Nat /\ burned' \in Nat /\ minted' = burned' + wn
      BY <3>1, <3>2, <3>3
    <3> QED BY <3>4 DEF wn
  <2>12. /\ roots' = Append(roots, new)
         /\ roots' \in Seq(S \cup {new}) /\ roots' # <<>>
         /\ Len(roots') = Len(roots) + 1 /\ Len(roots) \in Nat
         /\ \A i \in 1 .. Len(roots) : roots'[i] = roots[i]
         /\ roots'[Len(roots) + 1] = new
    <3>1. roots' = Append(roots, new)
      BY <2>1 DEF Applies
    <3>2. roots \in Seq(S \cup {new})
      BY <2>2
    <3> QED BY <3>1, <3>2, AppendProperties
  <2>13. CurrentRoot' = new
    BY <2>12 DEF CurrentRoot
  <2>14. L \subseteq Leaves(new)
    BY <2>8, <2>9
  <2>15. \A i \in 1 .. Len(roots') : Leaves(roots'[i]) \subseteq Leaves(new)
    <3> SUFFICES ASSUME NEW i \in 1 .. Len(roots') PROVE Leaves(roots'[i]) \subseteq Leaves(new)
      OBVIOUS
    <3>1. CASE i = Len(roots) + 1
      BY <2>12, <3>1
    <3>2. CASE i # Len(roots) + 1
      <4>1. i \in 1 .. Len(roots)
        BY <2>12, <3>2
      <4>2. Leaves(roots[i]) \subseteq L
        BY <4>1 DEF RootsInv
      <4> HIDE DEF L
      <4> QED BY <2>12, <2>14, <4>1, <4>2
    <3> QED BY <3>1, <3>2
  <2> QED BY <2>9, <2>11, <2>12, <2>13, <2>14, <2>15 DEF RootsInv
<1>2. CASE UNCHANGED <<roots, minted, burned>>
  BY <1>2 DEF RootsInv, CurrentRoot
<1>3. QED
  BY <1>1, <1>2 DEF CircuitsNext, circuitVars

(* What the notes that can still be spent are worth is what was minted and *)
(* not burned, whatever the provers choose, for any depth of the tree, any *)
(* modulus that is large enough for the range of the values, and any       *)
(* number of blocks.                                                       *)
THEOREM ValueConservedHolds == CircuitsSpec => []ValueConserved
<1>1. RootsInv => ValueConserved
  <2> SUFFICES ASSUME RootsInv PROVE ValueConserved
    OBVIOUS
  <2>1. Unspent(CurrentRoot) \in SUBSET Notes
    BY DEF Unspent, Owned
  <2>2. MapThenSumSet(LAMBDA n : n.value, Unspent(CurrentRoot)) = Worth(CurrentRoot)
    BY <2>1, WorthIs DEF Worth
  <2>3. Worth(CurrentRoot) \in Nat
    BY <2>1, WorthMoves DEF Worth
  <2>4. minted - burned = Worth(CurrentRoot)
    BY <2>3 DEF RootsInv
  <2> QED BY <2>2, <2>4 DEF ValueConserved
<1>2. RootsInv /\ [CircuitsNext]_circuitVars => RootsInv'
  BY RootsStep
<1> QED BY RootsInit, <1>1, <1>2, PTL DEF CircuitsSpec

(* A leaf of the tree is in every later tree: the roots of the circuit     *)
(* never lose a note or a nullifier, so what is spent stays spent.         *)
THEOREM LeavesStayHolds == CircuitsSpec => LeavesStay
<1>1. RootsInv /\ [CircuitsNext]_circuitVars => RootsInv'
  BY RootsStep
<1>2. RootsInv /\ [CircuitsNext]_circuitVars
          => [Leaves(CurrentRoot) \subseteq Leaves(CurrentRoot)']_roots
  BY RootsStep
<1> QED BY RootsInit, <1>1, <1>2, PTL DEF CircuitsSpec, LeavesStay

-----------------------------------------------------------------------------
(* Circuits: the public inputs.                                            *)

\* Zero is in the range of values.
LEMMA ZeroInRange ==
    0 \in RangeChecked
<1> USE ChipsAssumption, CircuitsAssumption
<1> DEFINE words == [i \in 1 .. Bits |-> 0]
           z == RunningSum(words)
           C == {i \in 0 .. Bits : z[i] # 0}
<1>1. \A i \in 0 .. Bits : z[i] = IF i = Bits THEN 0 ELSE Plus(words[i + 1], Times(2, z[i + 1]))
  <2>1. IsRunningSum(z, words)
    BY RunningSumExists
  <2> HIDE DEF z, words
  <2> QED BY <2>1 DEF IsRunningSum
<1>2. 0 % P = 0
  BY Remainder
<1> HIDE DEF z
<1>3. C = {}
  <2> SUFFICES ASSUME C # {} PROVE FALSE
    OBVIOUS
  <2>1. PICK i \in C : \A j \in C : j <= i
    <3>1. C \subseteq 0 .. Bits /\ Bits \in Nat
      OBVIOUS
    <3> HIDE DEF C
    <3> QED BY <3>1, GreatestExists
  <2>2. i \in 0 .. Bits - 1 /\ i + 1 \in 0 .. Bits /\ i + 1 \in 1 .. Bits
    BY <1>1
  <2>3. z[i + 1] = 0
    <3>1. i + 1 \notin C
      <4> HIDE DEF C
      <4> QED BY <2>1, <2>2
    <3> QED BY <2>2, <3>1
  <2>4. z[i] = Plus(0, Times(2, 0))
    <3>1. words[i + 1] = 0 /\ i \in 0 .. Bits /\ i # Bits
      BY <2>2
    <3> HIDE DEF words, C
    <3> QED BY <1>1, <2>3, <3>1
  <2>5. Plus(0, Times(2, 0)) = 0
    BY <1>2 DEF Plus, Times
  <2> QED BY <2>4, <2>5
<1>4. z[0] = 0
  <2>1. 0 \in 0 .. Bits
    OBVIOUS
  <2> QED BY <1>3, <2>1
<1>5. \A i \in 1 .. Bits : RangeCheck(words[i])
  <2>1. Times(0, Minus(1, 0)) = 0
    BY <1>2 DEF Times, Minus, Remainder
  <2> QED BY <2>1 DEF RangeCheck
<1>6. words \in [1 .. Bits -> {0, 1}] /\ \A i \in RangeBits + 1 .. Bits : words[i] = 0
  OBVIOUS
<1> HIDE DEF words
<1>7. InRange(0)
  BY <1>4, <1>5, <1>6 DEF InRange, Decomposed, z
<1> QED BY <1>7 DEF RangeChecked, F

\* The totals of a transaction that do not wrap around.
LEMMA TotalsAre ==
    ASSUME NEW w
    PROVE  LET v(i) == w.inputs[i].note.value
               o(i) == w.outputs[i].value
           IN  /\ v(1) \in Nat /\ v(2) \in Nat /\ v(1) + v(2) < P => TotalIn(w) = v(1) + v(2)
               /\ o(1) \in Nat /\ o(2) \in Nat /\ o(1) + o(2) < P => TotalOut(w) = o(1) + o(2)
<1> USE ChipsAssumption
<1>1. ASSUME NEW a \in Nat, NEW b \in Nat, a + b < P, NEW f, f = [i \in 1 .. 2 |-> f[i]], f[1] = a, f[2] = b
      PROVE  Total(f) = a + b
  <2>1. f \in [1 .. 2 -> Nat]
    <3>1. \A i \in 1 .. 2 : f[i] \in Nat
      BY <1>1
    <3> QED BY <1>1, <3>1
  <2> QED BY <1>1, <2>1, TotalOfTwo
<1> DEFINE f == [i \in 1 .. 2 |-> w.inputs[i].note.value]
           g == [i \in 1 .. 2 |-> w.outputs[i].value]
<1>2. /\ f = [i \in 1 .. 2 |-> f[i]] /\ f[1] = w.inputs[1].note.value /\ f[2] = w.inputs[2].note.value
      /\ TotalIn(w) = Total(f)
  BY DEF TotalIn
<1>3. /\ g = [i \in 1 .. 2 |-> g[i]] /\ g[1] = w.outputs[1].value /\ g[2] = w.outputs[2].value
      /\ TotalOut(w) = Total(g)
  BY DEF TotalOut
<1> HIDE DEF f, g
<1> QED BY <1>1, <1>2, <1>3

\* The two ways to compute the public inputs agree but for the value.
LEMMA InstanceIs ==
    ASSUME NEW w
    PROVE  PublicInputs(w) = UtxoInstance(w)
              <=> /\ w.kind = MintKind => w.outputs[1].value = TotalOut(w)
                  /\ w.kind = BurnKind => w.inputs[1].note.value = TotalIn(w)
<1> DEFINE p == PublicInputs(w)
           t == UtxoInstance(w)
<1>1. MintKind # BurnKind
  BY DEF MintKind, BurnKind
<1>2. p = [root |-> p.root, hash |-> p.hash, value |-> p.value, inputs |-> p.inputs, outputs |-> p.outputs]
  BY DEF PublicInputs
<1>3. t = [root |-> t.root, hash |-> t.hash, value |-> t.value, inputs |-> t.inputs, outputs |-> t.outputs]
  BY DEF UtxoInstance
<1>4. p.root = t.root /\ p.inputs = t.inputs /\ p.outputs = t.outputs
  BY DEF PublicInputs, UtxoInstance
<1>5. p.hash = t.hash
  <2>1. p.hash = CASE w.kind = MintKind -> Commitment(w.outputs[1])
                   [] w.kind = BurnKind -> Nullifier(w.inputs[1].note, w.inputs[1].secret)
                   [] OTHER -> Zero
    BY DEF PublicInputs
  <2>2. t.hash = CASE w.kind = BurnKind -> Nullifier(w.inputs[1].note, w.inputs[1].secret)
                   [] w.kind = MintKind -> Commitment(w.outputs[1])
                   [] OTHER -> Zero
    BY DEF UtxoInstance
  <2> QED BY <1>1, <2>1, <2>2
<1>6. p.value = CASE w.kind = MintKind -> w.outputs[1].value
                  [] w.kind = BurnKind -> w.inputs[1].note.value
                  [] OTHER -> 0
  BY DEF PublicInputs
<1>7. t.value = CASE w.kind = BurnKind -> TotalIn(w)
                  [] w.kind = MintKind -> TotalOut(w)
                  [] OTHER -> 0
  BY DEF UtxoInstance
<1> HIDE DEF p, t
<1>8. p = t <=> p.value = t.value
  BY <1>2, <1>3, <1>4, <1>5
<1>9. p.value = t.value <=> /\ w.kind = MintKind => w.outputs[1].value = TotalOut(w)
                            /\ w.kind = BurnKind => w.inputs[1].note.value = TotalIn(w)
  BY <1>1, <1>6, <1>7
<1> QED BY <1>8, <1>9 DEF p, t

\* They agree on what a wallet's requests are padded to when there is one note.
LEMMA RequestIs ==
    ASSUME NEW w,
           \A i \in 1 .. 2 : w.outputs[i].value \in RangeChecked \cup {0},
           \A i \in 1 .. 2 : w.inputs[i].note.value \in RangeChecked \cup {0},
           DOMAIN w.outputs = 1 .. 2
    PROVE  PublicInputs(w) = UtxoInstance(w)
              <=> \A i \in DOMAIN Accounted(w) : i = 1 \/ Accounted(w)[i].value = 0
<1> DEFINE v(i) == w.inputs[i].note.value
           o(i) == w.outputs[i].value
<1>1. /\ v(1) \in RangeChecked \cup {0} /\ v(2) \in RangeChecked \cup {0}
      /\ o(1) \in RangeChecked \cup {0} /\ o(2) \in RangeChecked \cup {0}
  OBVIOUS
<1>2. /\ v(1) \in Nat /\ v(2) \in Nat /\ v(1) + v(2) < P
      /\ o(1) \in Nat /\ o(2) \in Nat /\ o(1) + o(2) < P
  BY <1>1, NoWrap
<1>3. TotalIn(w) = v(1) + v(2) /\ TotalOut(w) = o(1) + o(2)
  BY <1>2, TotalsAre
<1>4. (o(1) = o(1) + o(2) <=> o(2) = 0) /\ (v(1) = v(1) + v(2) <=> v(2) = 0)
  <2> HIDE DEF v, o
  <2> QED BY <1>2
<1>5. MintKind # BurnKind
  BY DEF MintKind, BurnKind
<1>6. \A i \in 1 .. 2 : i = 1 \/ i = 2
  OBVIOUS
<1>7. CASE w.kind = MintKind
  <2>1. Accounted(w) = w.outputs
    BY <1>5, <1>7 DEF Accounted
  <2>2. (\A i \in DOMAIN Accounted(w) : i = 1 \/ Accounted(w)[i].value = 0) <=> o(2) = 0
    BY <1>6, <2>1
  <2>3. o(1) = TotalOut(w) <=> o(2) = 0
    BY <1>3, <1>4
  <2> QED BY <1>5, <1>7, <2>2, <2>3, InstanceIs
<1>8. CASE w.kind = BurnKind
  <2>1. Accounted(w) = [i \in 1 .. 2 |-> w.inputs[i].note]
    BY <1>5, <1>8 DEF Accounted
  <2>2. (\A i \in DOMAIN Accounted(w) : i = 1 \/ Accounted(w)[i].value = 0) <=> v(2) = 0
    BY <1>6, <2>1
  <2>3. v(1) = TotalIn(w) <=> v(2) = 0
    BY <1>3, <1>4
  <2> QED BY <1>5, <1>8, <2>2, <2>3, InstanceIs
<1>9. CASE w.kind # MintKind /\ w.kind # BurnKind
  <2>1. Accounted(w) = <<>>
    BY <1>9 DEF Accounted
  <2>2. DOMAIN Accounted(w) = {}
    BY <2>1
  <2> QED BY <1>9, <2>2, InstanceIs
<1> QED BY <1>7, <1>8, <1>9

\* The transactions that the constructors make.
LEMMA MadeIs ==
    ASSUME NEW n, n.value \in F
    PROVE  /\ PublicInputs(NewMint(n)) = UtxoInstance(NewMint(n))
           /\ \A s, root : PublicInputs(NewBurn(Spend(n, s), root)) = UtxoInstance(NewBurn(Spend(n, s), root))
           /\ PublicInputs(NewPadding) = UtxoInstance(NewPadding)
<1> USE ChipsAssumption
<1>1. n.value \in Nat /\ n.value < P /\ n.value + 0 = n.value /\ 0 \in Nat
  BY DEF F
<1>2. PaddingNote.value = 0
  BY DEF PaddingNote, NewNote
<1>3. Transfer # MintKind /\ Transfer # BurnKind /\ MintKind # BurnKind
  BY DEF Transfer, MintKind, BurnKind
<1>4. PublicInputs(NewMint(n)) = UtxoInstance(NewMint(n))
  <2> DEFINE w == NewMint(n)
  <2>1. w.kind = MintKind /\ w.outputs[1].value = n.value /\ w.outputs[2].value = 0
    BY <1>2 DEF NewMint, NewUtxo
  <2> HIDE DEF w
  <2>2. TotalOut(w) = n.value + 0
    BY <1>1, <2>1, TotalsAre
  <2> QED BY <1>1, <1>3, <2>1, <2>2, InstanceIs DEF w
<1>5. ASSUME NEW s, NEW root
      PROVE  PublicInputs(NewBurn(Spend(n, s), root)) = UtxoInstance(NewBurn(Spend(n, s), root))
  <2> DEFINE w == NewBurn(Spend(n, s), root)
  <2>1. w.kind = BurnKind /\ w.inputs[1].note.value = n.value /\ w.inputs[2].note.value = 0
    BY <1>2 DEF NewBurn, NewUtxo, Spend, PaddingInput
  <2> HIDE DEF w
  <2>2. TotalIn(w) = n.value + 0
    BY <1>1, <2>1, TotalsAre
  <2> QED BY <1>1, <1>3, <2>1, <2>2, InstanceIs DEF w
<1>6. PublicInputs(NewPadding) = UtxoInstance(NewPadding)
  <2>1. NewPadding.kind = Transfer
    BY DEF NewPadding, NewUtxo
  <2> QED BY <1>3, <2>1, InstanceIs
<1> QED BY <1>4, <1>5, <1>6

\* The padding transaction satisfies the circuit.
LEMMA PaddingFits ==
    UtxoConstraints(NewPadding)
<1> DEFINE w == NewPadding
<1>1. PaddingNote.value = 0 /\ PaddingNote.address = Address(0)
  BY DEF PaddingNote, NewNote
<1>2. /\ w.kind = Transfer /\ w.inputs = <<PaddingInput, PaddingInput>>
      /\ w.outputs = <<PaddingNote, PaddingNote>>
  BY DEF NewPadding, NewUtxo
<1>3. PaddingInput.note = PaddingNote /\ PaddingInput.secret = 0
  BY DEF PaddingInput, Spend
<1>4. 0 \in Nat /\ 0 + 0 = 0 /\ 0 < P
  BY ChipsAssumption
<1> HIDE DEF w
<1>5. TotalIn(w) = 0 /\ TotalOut(w) = 0
  <2>1. /\ w.inputs[1].note.value = 0 /\ w.inputs[2].note.value = 0
        /\ w.outputs[1].value = 0 /\ w.outputs[2].value = 0
    BY <1>1, <1>2, <1>3
  <2>2. TotalIn(w) = 0 + 0 /\ TotalOut(w) = 0 + 0
    BY <1>4, <2>1, TotalsAre
  <2> QED BY <1>4, <2>2
<1>6. \A i \in 1 .. 2 : w.outputs[i] = PaddingNote /\ w.inputs[i] = PaddingInput
  BY <1>2
<1>7. \A i \in 1 .. 2 : w.outputs[i].value \in RangeChecked
  BY <1>1, <1>6, ZeroInRange
<1>8. \A i \in 1 .. 2 : InputConstraints(w.inputs[i], w.root)
  BY <1>1, <1>3, <1>6 DEF InputConstraints
<1> QED BY <1>5, <1>7, <1>8 DEF UtxoConstraints, w

\* The notes of a request, padded.
LEMMA PaddedIs ==
    ASSUME NEW S, NEW notes \in BoundedSeq(S, 2), NEW padding, NEW i \in 1 .. 2
    PROVE  Padded(notes, padding)[i] \in S \cup {padding}
<1>1. PICK m \in 0 .. 2 : notes \in [1 .. m -> S]
  BY DEF BoundedSeq, SeqOf
<1>2. Len(notes) = m
  <2>1. notes \in Seq(S)
    BY <1>1
  <2> QED BY <1>1, <2>1
<1>3. i <= Len(notes) => notes[i] \in S
  BY <1>1, <1>2
<1> QED BY <1>3 DEF Padded

(* The circuits of transactions: a transaction of one note on either side  *)
(* is proved for what the circuit holds.                                   *)
LEMMA RequestsMatch ==
    ASSUME RootsInv, NEW kind, NEW outputs \in BoundedSeq(InRangeNotes, 2),
           NEW inputs \in BoundedSeq({Spend(n, n.address[1]) : n \in Owned(CurrentRoot)}, 2)
    PROVE  LET w == ProveTransfer(kind, inputs, outputs, CurrentRoot)
           IN  PublicInputs(w) = UtxoInstance(w)
                  <=> \A i \in DOMAIN Accounted(w) : i = 1 \/ Accounted(w)[i].value = 0
<1> DEFINE w == ProveTransfer(kind, inputs, outputs, CurrentRoot)
           Ins == {Spend(n, n.address[1]) : n \in Owned(CurrentRoot)}
<1>1. w.inputs = Padded(inputs, PaddingInput) /\ w.outputs = Padded(outputs, PaddingNote)
  BY DEF ProveTransfer, NewUtxo
<1>2. PaddingNote.value = 0 /\ PaddingInput.note.value = 0
  BY DEF PaddingNote, PaddingInput, NewNote, Spend
<1>3. \A note \in InRangeNotes : note.value \in RangeChecked
  BY DEF InRangeNotes
<1>4. \A in \in Ins : in.note.value \in RangeChecked
  BY DEF Spend, RootsInv, Sound
<1> HIDE DEF w, Ins
<1>5. \A i \in 1 .. 2 : w.outputs[i] \in InRangeNotes \cup {PaddingNote}
  BY <1>1, PaddedIs
<1>6. \A i \in 1 .. 2 : w.inputs[i] \in Ins \cup {PaddingInput}
  BY <1>1, PaddedIs DEF Ins
<1>7. DOMAIN w.outputs = 1 .. 2
  BY <1>1 DEF Padded
<1>8. \A i \in 1 .. 2 : w.outputs[i].value \in RangeChecked \cup {0}
  BY <1>2, <1>3, <1>5
<1>9. \A i \in 1 .. 2 : w.inputs[i].note.value \in RangeChecked \cup {0}
  BY <1>2, <1>4, <1>6
<1> QED BY <1>7, <1>8, <1>9, RequestIs DEF w

\* The value of a note is a positive field element.
LEMMA NoteIs ==
    ASSUME NEW n \in Notes
    PROVE  n.value \in F /\ n.value # 0 /\ Commitment(n) # Zero /\ n.source \in Sources
<1>1. PICK s \in Owners, v \in F \ {0}, psi \in Psis : n = NewNote(Address(s), v, psi)
  BY DEF Notes
<1>2. n.value = v /\ n.source = Address(s)
  BY <1>1 DEF NewNote
<1>3. Commitment(n) # Zero
  BY LeafShapes
<1> QED BY <1>2, <1>3 DEF Sources

\* The cells of the mint circuit: three of each note.
LEMMA MintMatches ==
    ASSUME NEW n, NEW m
    PROVE  MintProvable(<<n, m>>, MintPublic(<<n, m>>))
<1> DEFINE notes == <<n, m>>
           three(k) == <<Commitment(k), k.value, k.source>>
           q == [i \in DOMAIN notes |-> three(notes[i])]
           Flat(h) == h = [i \in 1 .. Len(q) |-> IF i = 1 THEN q[i] ELSE h[i - 1] \o q[i]]
           h == CHOOSE h : Flat(h)
           cells == MintCells(notes)
<1>1. q = <<three(n), three(m)>>
  OBVIOUS
<1>2. Len(q) = 2 /\ q[1] = three(n) /\ q[2] = three(m)
  BY <1>1
<1>3. MintPublic(notes) = FlattenSeq(q)
  BY DEF MintPublic
<1>4. FlattenSeq(q) = h[Len(q)]
  <2>1. Len(q) # 0
    BY <1>2
  <2> HIDE DEF q
  <2> QED BY <2>1 DEF FlattenSeq
<1> HIDE DEF q
<1>5. Flat([i \in 1 .. 2 |-> IF i = 1 THEN q[1] ELSE q[1] \o q[2]])
  <2> DEFINE both == q[1] \o q[2]
             g == [i \in 1 .. 2 |-> IF i = 1 THEN q[1] ELSE both]
  <2>1. g[1] = q[1] /\ g[2] = q[1] \o q[2]
    <3> HIDE DEF both
    <3>1. g[1] = q[1] /\ g[2] = both
      OBVIOUS
    <3> QED BY <3>1 DEF both
  <2>2. g = [i \in 1 .. 2 |-> g[i]]
    OBVIOUS
  <2> HIDE DEF g
  <2>3. \A i \in 1 .. 2 : g[i] = IF i = 1 THEN q[i] ELSE g[i - 1] \o q[i]
    <3>1. \A i \in 1 .. 2 : i = 1 \/ i = 2
      OBVIOUS
    <3>2. 2 - 1 = 1
      OBVIOUS
    <3> QED BY <2>1, <3>1, <3>2
  <2>4. Flat(g)
    BY <1>2, <2>2, <2>3
  <2> QED BY <2>4 DEF g
<1>6. Flat(h)
  <2> HIDE DEF Flat
  <2> QED BY <1>5
<1> HIDE DEF h
<1>7. h[1] = q[1]
  BY <1>2, <1>6
<1>8. h[2] = h[1] \o q[2]
  <2> DEFINE app(a, b) == a \o b
  <2>1. h = [i \in 1 .. Len(q) |-> IF i = 1 THEN q[i] ELSE app(h[i - 1], q[i])]
    BY <1>6
  <2> HIDE DEF app, Flat
  <2>2. 2 - 1 = 1 /\ 2 \in 1 .. Len(q)
    BY <1>2
  <2>3. h[2] = app(h[2 - 1], q[2])
    BY <2>1, <2>2
  <2> QED BY <2>2, <2>3 DEF app
<1>9. MintPublic(notes) = three(n) \o three(m)
  BY <1>2, <1>3, <1>4, <1>7, <1>8
<1> DEFINE out == three(n) \o three(m)
           all == <<Commitment(n), n.value, n.source, Commitment(m), m.value, m.source>>
<1>10. out = all
  <2>1. ASSUME NEW a, NEW b, NEW c, NEW d, NEW e, NEW f
        PROVE  <<a, b, c>> \o <<d, e, f>> = <<a, b, c, d, e, f>>
    <3> DEFINE S == {a, b, c, d, e, f}
               x == <<a, b, c>>
               y == <<d, e, f>>
               z == <<a, b, c, d, e, f>>
    <3>1. /\ x \in Seq(S) /\ Len(x) = 3 /\ x[1] = a /\ x[2] = b /\ x[3] = c
          /\ y \in Seq(S) /\ Len(y) = 3 /\ y[1] = d /\ y[2] = e /\ y[3] = f
          /\ z \in Seq(S) /\ Len(z) = 6 /\ z[1] = a /\ z[2] = b /\ z[3] = c
          /\ z[4] = d /\ z[5] = e /\ z[6] = f
      OBVIOUS
    <3> HIDE DEF S, x, y, z
    <3>2. /\ x \o y \in Seq(S) /\ Len(x \o y) = 6
          /\ \A i \in 1 .. 6 : (x \o y)[i] = IF i <= 3 THEN x[i] ELSE y[i - 3]
      <4>1. /\ x \o y \in Seq(S) /\ Len(x \o y) = Len(x) + Len(y)
            /\ \A i \in 1 .. Len(x) + Len(y) : (x \o y)[i] = IF i <= Len(x) THEN x[i] ELSE y[i - Len(x)]
        BY <3>1, ConcatProperties
      <4> DEFINE xy == x \o y
      <4>2. Len(x) + Len(y) = 6
        BY <3>1
      <4> HIDE DEF xy
      <4>3. /\ xy \in Seq(S) /\ Len(xy) = 6
            /\ \A i \in 1 .. 6 : xy[i] = IF i <= 3 THEN x[i] ELSE y[i - 3]
        BY <3>1, <4>1, <4>2 DEF xy
      <4> QED BY <4>3 DEF xy
    <3>3. \A i \in 1 .. 6 : i = 1 \/ i = 2 \/ i = 3 \/ i = 4 \/ i = 5 \/ i = 6
      OBVIOUS
    <3>4. 4 - 3 = 1 /\ 5 - 3 = 2 /\ 6 - 3 = 3 /\ 6 \in Nat
      OBVIOUS
    <3>5. \A i \in 1 .. 6 : (x \o y)[i] = z[i]
      BY <3>1, <3>2, <3>3, <3>4
    <3>6. x \o y = z
      BY <3>1, <3>2, <3>5, SeqEqual
    <3> QED BY <3>6 DEF x, y, z
  <2> QED BY <2>1
<1>11. cells = all
  <2> DEFINE cell(k) == LET note == notes[(k - 1) \div 3 + 1]
                        IN  CASE k % 3 = 1 -> Commitment(note) [] k % 3 = 2 -> note.value [] OTHER -> note.source
  <2>1. cells = [k \in 1 .. 6 |-> cell(k)]
    <3>1. 3 * Len(notes) = 6
      OBVIOUS
    <3> QED BY <3>1 DEF MintCells
  <2>2. /\ (1 - 1) \div 3 + 1 = 1 /\ (2 - 1) \div 3 + 1 = 1 /\ (3 - 1) \div 3 + 1 = 1
        /\ (4 - 1) \div 3 + 1 = 2 /\ (5 - 1) \div 3 + 1 = 2 /\ (6 - 1) \div 3 + 1 = 2
        /\ 1 % 3 = 1 /\ 2 % 3 = 2 /\ 3 % 3 = 0 /\ 4 % 3 = 1 /\ 5 % 3 = 2 /\ 6 % 3 = 0
    OBVIOUS
  <2>3. notes[1] = n /\ notes[2] = m
    OBVIOUS
  <2> HIDE DEF notes
  <2>4. /\ cell(1) = Commitment(n) /\ cell(2) = n.value /\ cell(3) = n.source
        /\ cell(4) = Commitment(m) /\ cell(5) = m.value /\ cell(6) = m.source
    BY <2>2, <2>3
  <2>5. \A k \in 1 .. 6 : k = 1 \/ k = 2 \/ k = 3 \/ k = 4 \/ k = 5 \/ k = 6
    OBVIOUS
  <2>6. all = [k \in 1 .. 6 |-> all[k]]
    OBVIOUS
  <2>7. /\ all[1] = Commitment(n) /\ all[2] = n.value /\ all[3] = n.source
        /\ all[4] = Commitment(m) /\ all[5] = m.value /\ all[6] = m.source
    OBVIOUS
  <2> HIDE DEF all, cell
  <2>8. \A k \in 1 .. 6 : all[k] = cell(k)
    BY <2>4, <2>5, <2>7
  <2> QED BY <2>1, <2>6, <2>8
<1> HIDE DEF all, cells
<1> QED BY <1>9, <1>10, <1>11 DEF MintProvable, cells

\* The circuits that burn, mint and show the sum of notes.
LEMMA NotesMatch ==
    ASSUME NEW n \in Notes, NEW s
    PROVE  /\ BurnToPublic(n, s, 1, 1) = BurnToCells(n, s, 1, 1)
           /\ BurnPublic(n, s, 1) = BurnCells(n, s, 1)
           /\ PointsConstraints(n.address, n.value, <<n, PaddingNote>>)
           /\ MintProvable(<<n, PaddingNote>>, MintPublic(<<n, PaddingNote>>))
<1> USE ChipsAssumption
<1>1. Nullifier(n, s) = <<Commitment(n), s, n.psi>>
  BY NoteIs DEF Nullifier
<1>2. BurnToPublic(n, s, 1, 1) = BurnToCells(n, s, 1, 1) /\ BurnPublic(n, s, 1) = BurnCells(n, s, 1)
  BY <1>1 DEF BurnToPublic, BurnToCells, BurnPublic, BurnCells, Signature
<1>3. PointsConstraints(n.address, n.value, <<n, PaddingNote>>)
  <2> DEFINE notes == <<n, PaddingNote>>
             f == [i \in DOMAIN notes |-> notes[i].value]
  <2>1. DOMAIN notes = 1 .. 2 /\ notes[1] = n /\ notes[2] = PaddingNote
    OBVIOUS
  <2>2. PaddingNote.value = 0
    BY DEF PaddingNote, NewNote
  <2>3. n.value \in Nat /\ n.value < P /\ n.value + 0 = n.value
    BY NoteIs DEF F
  <2>4. \A i \in 1 .. 2 : i = 1 \/ i = 2
    OBVIOUS
  <2> HIDE DEF notes
  <2>5. f[1] = n.value /\ f[2] = 0 /\ f \in [1 .. 2 -> Nat]
    BY <2>1, <2>2, <2>3, <2>4
  <2> HIDE DEF f
  <2>6. Total(f) = n.value
    BY <2>3, <2>5, TotalOfTwo
  <2>7. \A i \in DOMAIN notes : notes[i].value = 0 \/ notes[i].address = n.address
    BY <2>1, <2>2, <2>4
  <2> QED BY <2>6, <2>7 DEF PointsConstraints, f, notes
<1> QED BY <1>2, <1>3, MintMatches

\* A finite set in some order, each element once.
LEMMA SetToSeqIs ==
    ASSUME NEW S, IsFiniteSet(S)
    PROVE  LET s == SetToSeq(S)
           IN  /\ Len(s) = Cardinality(S) /\ Len(s) \in Nat
               /\ {s[i] : i \in 1 .. Len(s)} = S
               /\ \A i, j \in 1 .. Len(s) : i # j => s[i] # s[j]
<1> DEFINE n == Cardinality(S)
           s == SetToSeq(S)
<1>1. n \in Nat /\ ExistsBijection(1 .. n, S)
  BY FS_CardinalityType
<1>2. PICK f : f \in Bijection(1 .. n, S)
  BY <1>1 DEF ExistsBijection
<1>3. f \in [1 .. n -> S] /\ IsInjective(f)
  BY <1>2 DEF Bijection, Injection, IsInjective
<1>4. s \in [1 .. n -> S] /\ IsInjective(s)
  BY <1>3 DEF SetToSeq
<1> HIDE DEF s
<1>5. Len(s) = n
  <2> HIDE DEF n
  <2>1. s \in Seq(S)
    BY <1>1, <1>4
  <2> QED BY <1>1, <1>4, <2>1
<1>6. s \in Surjection(1 .. n, S)
  <2>1. s \in Injection(1 .. n, S)
    BY <1>4 DEF Injection
  <2>2. IsFiniteSet(1 .. n) /\ Cardinality(1 .. n) = n
    <3> HIDE DEF n
    <3>1. 1 \in Int /\ n \in Int
      BY <1>1
    <3>2. Cardinality(1 .. n) = IF 1 > n THEN 0 ELSE n - 1 + 1
      BY ONLY <3>1, FS_Interval
    <3>3. IsFiniteSet(1 .. n)
      BY ONLY <3>1, FS_Interval
    <3> QED BY <1>1, <3>2, <3>3
  <2> HIDE DEF n
  <2> QED BY <2>1, <2>2, FS_Injection DEF n
<1> HIDE DEF n
<1>7. {s[i] : i \in 1 .. n} = S
  BY <1>4, <1>6 DEF Surjection
<1>8. \A i, j \in 1 .. n : i # j => s[i] # s[j]
  BY <1>4 DEF IsInjective
<1> QED BY <1>1, <1>5, <1>7, <1>8 DEF n, s

\* A leaf has a place in a full tree when no other leaf has it.
LEMMA InsertFits ==
    ASSUME NEW root, Paired(root), NEW leaf, leaf # Zero, Position(leaf) \in BitSeqs,
           LeafAt(root, Position(leaf)) = Zero
    PROVE  InsertLeaf(root, leaf) # {} /\ \A new \in InsertLeaf(root, leaf) : Paired(new)
<1> DEFINE p == Position(leaf)
<1>1. p \in BitSeqs /\ LeafAt(root, p) = Zero
  OBVIOUS
<1> HIDE DEF p
<1>2. MerkleRoot(Zero, Siblings(root, p), p) = root
  BY <1>1, PathBack
<1>3. Paired(MerkleRoot(leaf, Siblings(root, p), p))
  BY <1>1, FullAfter
<1>4. InsertLeaf(root, leaf) = {MerkleRoot(leaf, Siblings(root, p), p)}
  BY <1>2 DEF InsertLeaf, InsertOldRoot, InsertNewRoot, p
<1> QED BY <1>3, <1>4

\* The tree of a list of sources can be built, and it is full.
LEMMA SourcesFit ==
    ASSUME NEW leaves, Len(leaves) \in Nat, \A i \in 1 .. Len(leaves) : leaves[i] \in Sources,
           \A i, j \in 1 .. Len(leaves) : i # j => leaves[i] # leaves[j]
    PROVE  BatchInsert(EmptyRoot, leaves) # {} /\ \A r \in BatchInsert(EmptyRoot, leaves) : Paired(r)
<1>1. \A a \in Sources : a # Zero
  <2>1. ASSUME NEW s PROVE Len(<<s>>) = 1 /\ Len(<<>>) = 0
    OBVIOUS
  <2> QED BY <2>1 DEF Sources, Address, Zero
<1> DEFINE n == Len(leaves)
           First(i) == {leaves[k] : k \in 1 .. i} \ {Zero}
           Upto(i, r) == Paired(r) /\ Placed(r) /\ Leaves(r) = First(i)
<1>2. PICK rs : IsBatch(rs, EmptyRoot, leaves) /\ BatchInsert(EmptyRoot, leaves) = rs[n]
  BY BatchExists
<1> DEFINE Bad == {i \in 0 .. n : rs[i] = {} \/ \E r \in rs[i] : ~Upto(i, r)}
<1>3. Bad = {}
  <2> SUFFICES ASSUME Bad # {} PROVE FALSE
    OBVIOUS
  <2>1. PICK i \in Bad : \A j \in Bad : i <= j
    <3>1. Bad \subseteq Nat
      OBVIOUS
    <3> HIDE DEF Bad
    <3> QED BY <3>1, LeastExists
  <2>2. i \in 0 .. n /\ (rs[i] = {} \/ \E r \in rs[i] : ~Upto(i, r))
    OBVIOUS
  <2>3. i # 0
    <3> SUFFICES ASSUME i = 0 PROVE FALSE
      OBVIOUS
    <3>1. rs[0] = {EmptyRoot}
      BY <1>2, <2>2 DEF IsBatch
    <3>2. First(0) = {}
      OBVIOUS
    <3>3. Upto(0, EmptyRoot)
      BY <3>2, EmptyLeaves DEF Leaves, Placed
    <3> HIDE DEF Upto
    <3> QED BY <2>2, <3>1, <3>3
  <2>4. i - 1 \in 0 .. n /\ i \in 1 .. n /\ i - 1 \notin Bad
    <3>1. i - 1 \in 0 .. n /\ i \in 1 .. n
      BY <2>2, <2>3
    <3> HIDE DEF Bad
    <3> QED BY <2>1, <3>1
  <2>5. rs[i] = UNION {InsertLeaf(q, leaves[i]) : q \in rs[i - 1]}
    BY <1>2, <2>2, <2>3 DEF IsBatch
  <2>6. rs[i - 1] # {} /\ \A q \in rs[i - 1] : Upto(i - 1, q)
    <3> HIDE DEF Upto
    <3> QED BY <2>4
  <2> DEFINE leaf == leaves[i]
  <2>7. leaf \in Sources /\ leaf # Zero /\ Position(leaf) \in BitSeqs
    <3>1. leaf \in Sources
      BY <2>4
    <3> HIDE DEF leaf
    <3> QED BY <1>1, <3>1, SourceAssumption
  <2>8. First(i) = First(i - 1) \cup {leaf}
    <3>1. 1 .. i = (1 .. i - 1) \cup {i}
      BY <2>4
    <3> QED BY <2>7, <3>1
  <2>9. ASSUME NEW q \in rs[i - 1] PROVE LeafAt(q, Position(leaf)) = Zero
    <3> SUFFICES ASSUME LeafAt(q, Position(leaf)) # Zero PROVE FALSE
      OBVIOUS
    <3> DEFINE other == LeafAt(q, Position(leaf))
    <3>1. other \in Leaves(q)
      BY <2>7 DEF Leaves
    <3>2. Position(other) = Position(leaf)
      BY <2>6, <2>7 DEF Placed
    <3>3. PICK k \in 1 .. i - 1 : other = leaves[k]
      BY <2>6, <3>1
    <3>4. k \in 1 .. n /\ k # i
      BY <2>4
    <3> HIDE DEF other, Bad
    <3>5. other \in Sources
      BY <3>3, <3>4
    <3>6. other = leaf
      <4> HIDE DEF leaf
      <4> QED BY <2>7, <3>2, <3>5, SourceAssumption
    <3> QED BY <2>4, <3>3, <3>4, <3>6
  <2> HIDE DEF Bad, leaf
  <2>10. ASSUME NEW q \in rs[i - 1]
         PROVE  InsertLeaf(q, leaf) # {} /\ \A r \in InsertLeaf(q, leaf) : Upto(i, r)
    <3>1. Paired(q) /\ Placed(q) /\ Leaves(q) = First(i - 1)
      BY <2>6
    <3>2. InsertLeaf(q, leaf) # {} /\ \A r \in InsertLeaf(q, leaf) : Paired(r)
      BY <2>7, <2>9, <3>1, InsertFits
    <3>3. ASSUME NEW r \in InsertLeaf(q, leaf) PROVE Upto(i, r)
      <4> HIDE DEF First
      <4>1. Placed(r) /\ Leaves(r) = Leaves(q) \cup ({leaf} \ {Zero})
        BY <2>7, <3>1, InsertLeafIs
      <4>2. {leaf} \ {Zero} = {leaf}
        BY <2>7
      <4>3. Leaves(r) = First(i)
        BY <2>8, <3>1, <4>1, <4>2
      <4> QED BY <3>2, <4>1, <4>3
    <3> QED BY <3>2, <3>3
  <2>11. rs[i] # {} /\ \A r \in rs[i] : Upto(i, r)
    <3> HIDE DEF Upto, First
    <3> QED BY <2>5, <2>6, <2>10 DEF leaf
  <2> HIDE DEF Upto
  <2> QED BY <2>2, <2>11
<1>4. n \in 0 .. n
  OBVIOUS
<1>5. rs[n] # {} /\ \A r \in rs[n] : Upto(n, r)
  <2> HIDE DEF Upto
  <2> QED BY <1>3, <1>4
<1> QED BY <1>2, <1>5

\* A note can be shown compliant exactly when its source is not listed.
LEMMA ComplianceMatches ==
    ASSUME NEW n \in Notes, NEW bad \in SUBSET {Address(s) : s \in Secrets}
    PROVE  ComplianceProvable(n, BadSources(bad)) <=> n.source \notin bad
<1> DEFINE leaves == SetToSeq(bad)
           root == BadSources(bad)
           p == Position(n.source)
<1>1. bad \subseteq Sources /\ n.source \in Sources
  BY NoteIs DEF Sources
<1>2. IsFiniteSet(bad)
  <2> DEFINE A == {Address(s) : s \in Secrets}
             f == [s \in Secrets |-> Address(s)]
  <2>1. f \in Surjection(Secrets, A)
    <3>1. f \in [Secrets -> A] /\ \A a \in A : \E s \in Secrets : f[s] = a
      OBVIOUS
    <3> HIDE DEF f, A
    <3> QED BY <3>1 DEF Surjection
  <2>2. bad \in SUBSET A
    OBVIOUS
  <2> HIDE DEF f, A
  <2>3. IsFiniteSet(A)
    BY <2>1, SourceAssumption, FS_Surjection
  <2> QED BY <2>2, <2>3, FS_Subset
<1>3. /\ Len(leaves) \in Nat
      /\ {leaves[i] : i \in 1 .. Len(leaves)} = bad
      /\ \A i, j \in 1 .. Len(leaves) : i # j => leaves[i] # leaves[j]
  BY <1>2, SetToSeqIs
<1>4. \A a \in Sources : a # Zero /\ Position(a) \in BitSeqs
  <2>1. ASSUME NEW s PROVE Len(<<s>>) = 1 /\ Len(<<>>) = 0
    OBVIOUS
  <2>2. \A a \in Sources : a # Zero
    BY <2>1 DEF Sources, Address, Zero
  <2> QED BY <2>2, SourceAssumption
<1>5. root = CHOOSE r \in BatchInsert(EmptyRoot, leaves) : TRUE
  BY DEF BadSources
<1> HIDE DEF leaves, root
<1>6. \A i \in 1 .. Len(leaves) : leaves[i] \in Sources
  BY <1>1, <1>3
<1>7. root \in BatchInsert(EmptyRoot, leaves) /\ Paired(root)
  BY <1>3, <1>5, <1>6, SourcesFit
<1>8. Placed(EmptyRoot) /\ Leaves(EmptyRoot) = {}
  BY EmptyLeaves DEF Placed, Leaves
<1>9. Placed(root) /\ Leaves(root) = {leaves[i] : i \in 1 .. Len(leaves)} \ {Zero}
  <2>1. \A i \in 1 .. Len(leaves) : leaves[i] # Zero => Position(leaves[i]) \in BitSeqs
    BY <1>4, <1>6
  <2> QED BY <1>3, <1>7, <1>8, <2>1, BatchIs
<1>10. Leaves(root) = bad
  BY <1>1, <1>3, <1>4, <1>9
<1>11. p \in BitSeqs
  BY <1>1, <1>4
<1>12. ComplianceProvable(n, root) <=> MerkleRoot(Zero, Siblings(root, p), p) = root
  BY DEF ComplianceProvable, ComplianceCells
<1> HIDE DEF p
<1>13. MerkleRoot(Zero, Siblings(root, p), p) = root <=> LeafAt(root, p) = Zero
  <2>1. LeafAt(MerkleRoot(Zero, Siblings(root, p), p), p) = Zero
    BY <1>11, PathOf
  <2>2. MerkleRoot(LeafAt(root, p), Siblings(root, p), p) = root
    BY <1>7, <1>11, PathBack
  <2> QED BY <2>1, <2>2
<1>14. LeafAt(root, p) = Zero <=> n.source \notin bad
  <2>1. ASSUME LeafAt(root, p) # Zero PROVE n.source \in bad
    <3>1. LeafAt(root, p) \in bad /\ Position(LeafAt(root, p)) = p
      BY <1>9, <1>10, <1>11, <2>1 DEF Leaves, Placed
    <3>2. LeafAt(root, p) = n.source
      BY <1>1, <3>1, SourceAssumption DEF p
    <3> QED BY <3>1, <3>2
  <2>2. ASSUME n.source \in bad PROVE LeafAt(root, p) # Zero
    <3>1. PICK b \in BitSeqs : LeafAt(root, b) = n.source /\ n.source # Zero
      BY <1>10, <2>2 DEF Leaves
    <3>2. b = p
      BY <1>9, <3>1 DEF Placed, p
    <3> QED BY <3>1, <3>2
  <2> QED BY <2>1, <2>2
<1> QED BY <1>12, <1>13, <1>14 DEF root

(* What the circuits prove is what is computed outside of them: for every  *)
(* transaction the constructors make, for the requests of a wallet that    *)
(* mint or burn one note, and for the circuits that need no tree, with any *)
(* modulus, depth and list of bad sources.                                 *)
THEOREM PublicInputsMatchHolds == CircuitsSpec => []PublicInputsMatch
<1>1. RootsInv => PublicInputsMatch
  <2> SUFFICES ASSUME RootsInv PROVE PublicInputsMatch
    OBVIOUS
  <2>1. \A n \in Notes : n.value \in F
    BY NoteIs
  <2>2. \A n \in InRangeNotes : n.value \in F
    BY <2>1 DEF InRangeNotes
  <2>3. \A n \in InRangeNotes :
          \A w \in {NewMint(n)} \cup {NewBurn(Spend(m, s), CurrentRoot) :
                                         m \in Owned(CurrentRoot), s \in {n.address[1]}} :
             PublicInputs(w) = UtxoInstance(w)
    <3>1. \A m \in Owned(CurrentRoot) : m.value \in F
      BY <2>1 DEF Owned
    <3> QED BY <2>2, <3>1, MadeIs
  <2>4. \A k \in Kinds, outputs \in BoundedSeq(InRangeNotes, 2),
          inputs \in BoundedSeq({Spend(n, n.address[1]) : n \in Owned(CurrentRoot)}, 2) :
             LET w == ProveTransfer(k, inputs, outputs, CurrentRoot)
             IN  PublicInputs(w) = UtxoInstance(w)
                    <=> \A i \in DOMAIN Accounted(w) : i = 1 \/ Accounted(w)[i].value = 0
    BY RequestsMatch
  <2>5. UtxoConstraints(NewPadding) /\ PublicInputs(NewPadding) = UtxoInstance(NewPadding)
    <3>1. [value |-> 0].value \in F
      BY ChipsAssumption DEF F
    <3> QED BY <3>1, MadeIs, PaddingFits
  <2>6. SmallCircuitsMatch
    BY NotesMatch, ComplianceMatches DEF SmallCircuitsMatch
  <2> QED BY <2>3, <2>4, <2>5, <2>6 DEF PublicInputsMatch
<1>2. RootsInv /\ [CircuitsNext]_circuitVars => RootsInv'
  BY RootsStep
<1> QED BY RootsInit, <1>1, <1>2, PTL DEF CircuitsSpec

-----------------------------------------------------------------------------
(* SmirkTree.  A place is a sequence of bits, and an inner one has two     *)
(* children; what holds for the leaves and for a place whose children it   *)
(* holds for, holds for every place.                                       *)

\* Places are the sequences of bits that are not longer than a leaf's.
LEMMA PlaceIs ==
    ASSUME NEW p
    PROVE  p \in Places <=> p \in Seq({0, 1}) /\ Len(p) <= Levels - 1
<1> USE SmirkAssumption
<1>1. ASSUME p \in Places PROVE p \in Seq({0, 1}) /\ Len(p) <= Levels - 1
  <2>1. PICK k \in 0 .. Levels - 1 : p \in [1 .. k -> {0, 1}]
    BY <1>1 DEF Places
  <2>2. k \in Nat /\ p \in Seq({0, 1})
    BY <2>1
  <2>3. Len(p) = k
    BY <2>1, <2>2
  <2> QED BY <2>1, <2>2, <2>3
<1>2. ASSUME p \in Seq({0, 1}), Len(p) <= Levels - 1 PROVE p \in Places
  <2>1. p \in [1 .. Len(p) -> {0, 1}] /\ Len(p) \in 0 .. Levels - 1
    BY <1>2
  <2> QED BY <2>1 DEF Places
<1> QED BY <1>1, <1>2

\* The bits of a place, and those of its children.
LEMMA PlaceFacts ==
    ASSUME NEW p \in Places
    PROVE  /\ p \in Seq({0, 1}) /\ Len(p) \in 0 .. Levels - 1
           /\ p \in Inner <=> Len(p) # Levels - 1
           /\ p \in Inner => /\ Left(p) \in Places /\ Right(p) \in Places
                             /\ Len(Left(p)) = Len(p) + 1 /\ Len(Right(p)) = Len(p) + 1
                             /\ \A i \in 1 .. Len(p) : Left(p)[i] = p[i] /\ Right(p)[i] = p[i]
                             /\ Left(p)[Len(p) + 1] = 0 /\ Right(p)[Len(p) + 1] = 1
<1> USE SmirkAssumption
<1>1. p \in Seq({0, 1}) /\ Len(p) <= Levels - 1 /\ Len(p) \in Nat
  BY PlaceIs
<1>2. p \in Inner <=> Len(p) # Levels - 1
  BY <1>1 DEF Inner
<1>3. /\ Left(p) \in Seq({0, 1}) /\ Right(p) \in Seq({0, 1})
      /\ Len(Left(p)) = Len(p) + 1 /\ Len(Right(p)) = Len(p) + 1
      /\ \A i \in 1 .. Len(p) : Left(p)[i] = p[i] /\ Right(p)[i] = p[i]
      /\ Left(p)[Len(p) + 1] = 0 /\ Right(p)[Len(p) + 1] = 1
  <2>1. 0 \in {0, 1} /\ 1 \in {0, 1}
    OBVIOUS
  <2> QED BY <1>1, <2>1, AppendProperties DEF Left, Right
<1>4. p \in Inner => Left(p) \in Places /\ Right(p) \in Places
  <2>1. p \in Inner => Len(p) + 1 <= Levels - 1
    BY <1>1, <1>2
  <2> QED BY <1>3, <2>1, PlaceIs
<1> QED BY <1>1, <1>2, <1>3, <1>4

\* The root of a tree is a place.
LEMMA RootPlace == <<>> \in Places
<1>1. <<>> \in Seq({0, 1}) /\ Len(<<>>) = 0
  OBVIOUS
<1>2. 0 <= Levels - 1
  BY SmirkAssumption
<1> QED BY <1>1, <1>2, PlaceIs

\* Places with the same bits are the same.
LEMMA SamePlace ==
    ASSUME NEW p \in Places, NEW q \in Places,
           Len(p) = Len(q), \A i \in 1 .. Len(p) : p[i] = q[i]
    PROVE  p = q
    BY PlaceFacts, SeqEqual

\* A child has one parent.
LEMMA OneParent ==
    ASSUME NEW p \in Inner, NEW q \in Inner, Left(p) = Left(q) \/ Right(p) = Right(q)
    PROVE  p = q
<1>1. p \in Places /\ q \in Places
  BY DEF Inner
<1>2. Len(p) \in Nat /\ Len(q) \in Nat
  BY <1>1, PlaceFacts
<1>3. Len(p) = Len(q)
  <2>1. Len(p) + 1 = Len(q) + 1
    BY <1>1, PlaceFacts
  <2> QED BY <1>2, <2>1
<1>4. \A i \in 1 .. Len(p) : p[i] = q[i]
  BY <1>1, <1>3, PlaceFacts
<1> QED BY <1>1, <1>3, <1>4, SamePlace

\* From the leaves up.
LEMMA FromLeavesUp ==
    ASSUME NEW G,
           \A p \in Places : Len(p) = Levels - 1 => p \in G,
           \A p \in Inner : Left(p) \in G /\ Right(p) \in G => p \in G
    PROVE  Places \subseteq G
<1> USE SmirkAssumption
<1> DEFINE Bad == {k \in Nat : \E p \in Places : p \notin G /\ k = Levels - Len(p)}
<1>1. Bad = {}
  <2> SUFFICES ASSUME Bad # {} PROVE FALSE
    OBVIOUS
  <2>1. PICK k \in Bad : \A j \in Bad : k <= j
    BY LeastExists
  <2>2. PICK p \in Places : p \notin G /\ k = Levels - Len(p)
    OBVIOUS
  <2>3. Len(p) \in Nat /\ p \in Inner
    BY <2>2, PlaceFacts
  <2>4. ASSUME NEW q \in Places, Len(q) = Len(p) + 1 PROVE q \in G
    <3> SUFFICES ASSUME q \notin G PROVE FALSE
      OBVIOUS
    <3>1. Len(q) \in 0 .. Levels - 1
      BY PlaceFacts
    <3>2. Levels - Len(q) \in Bad
      BY <3>1
    <3>3. k <= Levels - Len(q) /\ k = Levels - Len(p) /\ Len(q) = Len(p) + 1
      <4> HIDE DEF Bad
      <4> QED BY <2>1, <2>2, <2>4, <3>2
    <3> HIDE DEF Bad
    <3> QED BY ONLY <2>3, <3>1, <3>3, SmirkAssumption
  <2>5. Left(p) \in G /\ Right(p) \in G
    BY <2>3, <2>4, PlaceFacts
  <2> QED BY <2>2, <2>3, <2>5
<1>2. ASSUME NEW p \in Places, p \notin G PROVE FALSE
  <2>1. Len(p) \in 0 .. Levels - 1
    BY PlaceFacts
  <2>2. Levels - Len(p) \in Bad
    BY <1>2, <2>1
  <2> QED BY <1>1, <2>2
<1> QED BY <1>2

(* The recursive functions are defined.                                    *)
IsRehashed(h, visited, own, kn) ==
    h = [p \in Places |-> IF p \in visited THEN CacheHash(kn, h[Left(p)], h[Right(p)]) ELSE own[p]]

\* Hashes are computed from the leaves up.
LEMMA RehashedIs ==
    ASSUME NEW visited \in SUBSET Inner, NEW own, NEW kn
    PROVE  IsRehashed(Rehashed(visited, own, kn), visited, own, kn)
<1> USE SmirkAssumption
<1> DEFINE After(h, p) == IF p \in visited THEN CacheHash(kn, h[Left(p)], h[Right(p)]) ELSE own[p]
           Upto(n, h) == /\ h = [p \in Places |-> h[p]]
                         /\ \A p \in Places : Levels - Len(p) <= n => h[p] = After(h, p)
           Bad == {n \in Nat : ~ \E h : Upto(n, h)}
<1>1. Bad = {}
  <2> SUFFICES ASSUME Bad # {} PROVE FALSE
    OBVIOUS
  <2>1. PICK n \in Bad : \A m \in Bad : n <= m
    BY LeastExists
  <2>2. n # 0
    <3> DEFINE h == [p \in Places |-> own[p]]
    <3>1. \A p \in Places : ~ (Levels - Len(p) <= 0)
      BY PlaceFacts
    <3>2. h = [p \in Places |-> h[p]]
      OBVIOUS
    <3>3. Upto(0, h)
      <4> HIDE DEF h
      <4> QED BY <3>1, <3>2
    <3> HIDE DEF Upto
    <3> QED BY <3>3
  <2>3. n \in Nat /\ n - 1 \in Nat /\ n - 1 \notin Bad
    <3>1. n \in Nat
      OBVIOUS
    <3> HIDE DEF Bad
    <3> QED BY <2>1, <2>2, <3>1
  <2>4. PICK h : Upto(n - 1, h)
    BY <2>3
  <2> DEFINE g == [p \in Places |-> IF Levels - Len(p) = n THEN After(h, p) ELSE h[p]]
  <2>5. ASSUME NEW p \in Places, Levels - Len(p) <= n PROVE g[p] = After(g, p)
    <3>1. Len(p) \in 0 .. Levels - 1
      BY PlaceFacts
    <3>2. p \in visited => g[Left(p)] = h[Left(p)] /\ g[Right(p)] = h[Right(p)]
      <4> SUFFICES ASSUME p \in visited
                   PROVE  g[Left(p)] = h[Left(p)] /\ g[Right(p)] = h[Right(p)]
        OBVIOUS
      <4>1. /\ Left(p) \in Places /\ Right(p) \in Places
            /\ Len(Left(p)) = Len(p) + 1 /\ Len(Right(p)) = Len(p) + 1
        BY PlaceFacts
      <4>2. Levels - Len(Left(p)) # n /\ Levels - Len(Right(p)) # n
        BY <2>3, <2>5, <3>1, <4>1
      <4> QED BY <4>1, <4>2
    <3>3. After(g, p) = After(h, p)
      <4> HIDE DEF g
      <4> QED BY <3>2
    <3>4. g[p] = After(h, p)
      <4>1. Levels - Len(p) = n \/ Levels - Len(p) <= n - 1
        BY <2>3, <2>5, <3>1
      <4>2. Levels - Len(p) <= n - 1 => h[p] = After(h, p)
        BY <2>4
      <4> HIDE DEF After
      <4> QED BY <4>1, <4>2
    <3> HIDE DEF After, g
    <3> QED BY <3>3, <3>4
  <2>6. g = [p \in Places |-> g[p]]
    OBVIOUS
  <2>7. Upto(n, g)
    <3> HIDE DEF g, After
    <3> QED BY <2>5, <2>6
  <2> HIDE DEF Upto
  <2> QED BY <2>1, <2>7
<1>2. \E h : IsRehashed(h, visited, own, kn)
  <2>1. Levels \in Nat
    OBVIOUS
  <2>2. PICK h : Upto(Levels, h)
    <3> HIDE DEF Upto
    <3> QED BY <1>1, <2>1
  <2>3. \A p \in Places : Levels - Len(p) <= Levels
    BY PlaceFacts
  <2>4. IsRehashed(h, visited, own, kn)
    BY <2>2, <2>3 DEF IsRehashed
  <2> QED BY <2>4
<1>3. Rehashed(visited, own, kn) = CHOOSE h : IsRehashed(h, visited, own, kn)
  BY DEF Rehashed, IsRehashed
<1> QED BY <1>2, <1>3

IsHashesOf(h, es) ==
    h = [p \in Places |-> IF p \in Inner THEN HashMerge(h[Left(p)], h[Right(p)])
                          ELSE IF \E e \in es : Lsb(e) = p THEN <<CHOOSE e \in es : Lsb(e) = p>>
                          ELSE <<>>]

\* The reference is the case in which everything is computed.
LEMMA HashesOfIs ==
    ASSUME NEW es
    PROVE  IsHashesOf(HashesOf(es), es)
<1> DEFINE own == [p \in Places |-> IF \E e \in es : Lsb(e) = p THEN <<CHOOSE e \in es : Lsb(e) = p>> ELSE <<>>]
           h == Rehashed(Inner, own, {})
<1>1. h = [p \in Places |-> IF p \in Inner THEN CacheHash({}, h[Left(p)], h[Right(p)]) ELSE own[p]]
  <2>1. Inner \in SUBSET Inner
    OBVIOUS
  <2>2. IsRehashed(h, Inner, own, {})
    <3> HIDE DEF own
    <3> QED BY <2>1, RehashedIs
  <2> HIDE DEF own, h
  <2> QED BY <2>2 DEF IsRehashed
<1>2. \A l, r : CacheHash({}, l, r) = HashMerge(l, r)
  BY DEF CacheHash
<1>3. IsHashesOf(h, es)
  <2>1. \A p \in Places : own[p] = IF \E e \in es : Lsb(e) = p THEN <<CHOOSE e \in es : Lsb(e) = p>> ELSE <<>>
    OBVIOUS
  <2>2. \A p \in Places : h[p] = IF p \in Inner THEN HashMerge(h[Left(p)], h[Right(p)]) ELSE own[p]
    <3> HIDE DEF h, own
    <3> QED BY <1>1, <1>2, Zenon
  <2>3. h = [p \in Places |-> h[p]]
    <3> HIDE DEF h, own
    <3> QED BY <1>1
  <2> HIDE DEF h, own
  <2> QED BY <2>1, <2>2, <2>3, Zenon DEF IsHashesOf
<1>4. HashesOf(es) = CHOOSE g : IsHashesOf(g, es)
  BY DEF HashesOf, IsHashesOf
<1> QED BY <1>3, <1>4

IsEmptyHash(h) == h = [d \in 1 .. Levels |-> IF d = 1 THEN <<>> ELSE HashMerge(h[d - 1], h[d - 1])]

\* The hashes of the empty trees are defined.
LEMMA EmptyHashIs == IsEmptyHash(EmptyTreeHash)
<1> USE SmirkAssumption
<1> DEFINE Upto(n, h) == h = [d \in 1 .. n |-> IF d = 1 THEN <<>> ELSE HashMerge(h[d - 1], h[d - 1])]
           Bad == {n \in Nat : ~ \E h : Upto(n, h)}
<1>1. Bad = {}
  <2> SUFFICES ASSUME Bad # {} PROVE FALSE
    OBVIOUS
  <2>1. PICK n \in Bad : \A m \in Bad : n <= m
    BY LeastExists
  <2>2. n # 0
    <3> DEFINE h == [d \in 1 .. 0 |-> <<>>]
    <3>1. Upto(0, h)
      OBVIOUS
    <3> HIDE DEF Upto
    <3> QED BY <3>1
  <2>3. n \in Nat /\ n - 1 \in Nat /\ n - 1 \notin Bad
    <3>1. n \in Nat
      OBVIOUS
    <3> HIDE DEF Bad
    <3> QED BY <2>1, <2>2, <3>1
  <2>4. PICK h : Upto(n - 1, h)
    BY <2>3
  <2> DEFINE g == [d \in 1 .. n |-> IF d = n THEN IF n = 1 THEN <<>> ELSE HashMerge(h[n - 1], h[n - 1]) ELSE h[d]]
  <2>5. ASSUME NEW d \in 1 .. n
        PROVE  g[d] = IF d = 1 THEN <<>> ELSE HashMerge(g[d - 1], g[d - 1])
    <3>1. CASE d = n
      <4>1. n # 1 => g[n - 1] = h[n - 1]
        BY <2>2, <2>3
      <4>2. g[d] = IF n = 1 THEN <<>> ELSE HashMerge(h[n - 1], h[n - 1])
        BY <3>1
      <4> HIDE DEF g
      <4> QED BY <3>1, <4>1, <4>2
    <3>2. CASE d # n
      <4>1. d \in 1 .. n - 1 /\ g[d] = h[d]
        BY <2>3, <3>2
      <4>2. d # 1 => d - 1 \in 1 .. n /\ d - 1 # n /\ g[d - 1] = h[d - 1]
        BY <2>3, <4>1
      <4>3. h[d] = IF d = 1 THEN <<>> ELSE HashMerge(h[d - 1], h[d - 1])
        BY <2>4, <4>1
      <4> HIDE DEF g
      <4> QED BY <4>1, <4>2, <4>3
    <3> QED BY <3>1, <3>2
  <2>6. g = [d \in 1 .. n |-> g[d]]
    OBVIOUS
  <2>7. Upto(n, g)
    <3> HIDE DEF g
    <3> QED BY <2>5, <2>6
  <2> HIDE DEF Upto
  <2> QED BY <2>1, <2>7
<1>2. \E h : IsEmptyHash(h)
  <2>1. \E h : Upto(Levels, h)
    BY <1>1
  <2> QED BY <2>1 DEF IsEmptyHash
<1>3. EmptyTreeHash = CHOOSE h : IsEmptyHash(h)
  BY DEF EmptyTreeHash, IsEmptyHash
<1> QED BY <1>2, <1>3

IsShifted(s, e) ==
    s = [i \in 0 .. Levels - 1 |-> IF i = 0 THEN e ELSE s[i - 1] \div 2]

\* The low bits of an element are the place of a leaf.
LEMMA LsbIs ==
    ASSUME NEW e \in Elements
    PROVE  /\ Lsb(e) \in Places /\ Len(Lsb(e)) = Levels - 1
           /\ \A i \in 1 .. Levels - 1 : Lsb(e)[i] \in {0, 1}
<1> USE SmirkAssumption
<1> DEFINE Upto(n, u) == u = [i \in 0 .. n |-> IF i = 0 THEN e ELSE u[i - 1] \div 2]
           Bad == {n \in Nat : ~ \E u : Upto(n, u)}
<1>1. Bad = {}
  <2> SUFFICES ASSUME Bad # {} PROVE FALSE
    OBVIOUS
  <2>1. PICK n \in Bad : \A m \in Bad : n <= m
    BY LeastExists
  <2>2. n # 0
    <3> DEFINE u == [i \in 0 .. 0 |-> e]
    <3>1. Upto(0, u)
      OBVIOUS
    <3> HIDE DEF Upto
    <3> QED BY <3>1
  <2>3. n \in Nat /\ n - 1 \in Nat /\ n - 1 \notin Bad
    <3>1. n \in Nat
      OBVIOUS
    <3> HIDE DEF Bad
    <3> QED BY <2>1, <2>2, <3>1
  <2>4. PICK u : Upto(n - 1, u)
    BY <2>3
  <2> DEFINE v == [i \in 0 .. n |-> IF i = n THEN u[n - 1] \div 2 ELSE u[i]]
  <2>5. ASSUME NEW i \in 0 .. n
        PROVE  v[i] = IF i = 0 THEN e ELSE v[i - 1] \div 2
    <3>1. CASE i = n
      <4>1. v[n - 1] = u[n - 1]
        BY <2>2, <2>3
      <4>2. v[i] = u[n - 1] \div 2
        BY <3>1
      <4> HIDE DEF v
      <4> QED BY <2>2, <3>1, <4>1, <4>2
    <3>2. CASE i # n
      <4>1. i \in 0 .. n - 1 /\ v[i] = u[i]
        BY <2>3, <3>2
      <4>2. i # 0 => i - 1 \in 0 .. n /\ i - 1 # n /\ v[i - 1] = u[i - 1]
        BY <2>3, <4>1
      <4>3. u[i] = IF i = 0 THEN e ELSE u[i - 1] \div 2
        BY <2>4, <4>1
      <4> HIDE DEF v
      <4> QED BY <4>1, <4>2, <4>3
    <3> QED BY <3>1, <3>2
  <2>6. v = [i \in 0 .. n |-> v[i]]
    OBVIOUS
  <2>7. Upto(n, v)
    <3> HIDE DEF v
    <3> QED BY <2>5, <2>6
  <2> HIDE DEF Upto
  <2> QED BY <2>1, <2>7
<1>2. \E u : IsShifted(u, e)
  <2>1. Levels - 1 \in Nat
    OBVIOUS
  <2>2. \E u : Upto(Levels - 1, u)
    <3> HIDE DEF Upto
    <3> QED BY <1>1, <2>1
  <2> QED BY <2>2 DEF IsShifted
<1>3. Shifted(e) = CHOOSE s : IsShifted(s, e)
  BY DEF Shifted, IsShifted
<1>4. IsShifted(Shifted(e), e)
  BY <1>2, <1>3
<1> DEFINE NotNat == {i \in Nat : i <= Levels - 1 /\ Shifted(e)[i] \notin Nat}
<1>5. NotNat = {}
  <2> SUFFICES ASSUME NotNat # {} PROVE FALSE
    OBVIOUS
  <2>1. PICK i \in NotNat : \A j \in NotNat : i <= j
    BY LeastExists
  <2>2. i \in 0 .. Levels - 1 /\ Shifted(e)[i] \notin Nat
    OBVIOUS
  <2>3. Shifted(e)[i] = IF i = 0 THEN e ELSE Shifted(e)[i - 1] \div 2
    BY <1>4, <2>2 DEF IsShifted
  <2>4. i # 0 /\ i - 1 \in Nat /\ i - 1 <= Levels - 1
    BY <2>2, <2>3
  <2>5. i - 1 \notin NotNat
    <3>1. i \in Nat
      BY <2>2
    <3> HIDE DEF NotNat
    <3> QED BY <2>1, <2>4, <3>1
  <2>6. Shifted(e)[i - 1] \in Nat
    BY <2>4, <2>5
  <2>7. \A m \in Nat : m \div 2 \in Nat
    OBVIOUS
  <2> QED BY <2>2, <2>3, <2>4, <2>6, <2>7
<1>6. ASSUME NEW i \in 1 .. Levels - 1 PROVE Shifted(e)[Levels - 1 - i] % 2 \in {0, 1}
  <2>1. Levels - 1 - i \in Nat /\ Levels - 1 - i <= Levels - 1
    OBVIOUS
  <2>2. Shifted(e)[Levels - 1 - i] \in Nat
    BY <1>5, <2>1
  <2>3. \A m \in Nat : m % 2 \in {0, 1}
    OBVIOUS
  <2> QED BY <2>2, <2>3
<1>7. Lsb(e) \in [1 .. Levels - 1 -> {0, 1}]
  BY <1>6 DEF Lsb
<1>8. Levels - 1 \in Nat
  OBVIOUS
<1>9. Lsb(e) \in Seq({0, 1}) /\ Len(Lsb(e)) = Levels - 1
  <2>1. Lsb(e) \in Seq({0, 1})
    BY <1>7, <1>8
  <2> QED BY <1>7, <1>8, <2>1
<1>10. Lsb(e) \in Places
  BY <1>8, <1>9, PlaceIs
<1> QED BY <1>7, <1>9, <1>10


IsProof(up, leaf, siblings, e) ==
    up = [i \in 0 .. Levels - 1 |-> IF i = 0 THEN leaf ELSE (IF Lsb(e)[Levels - i] = 1 THEN HashMerge(siblings[i], up[i - 1]) ELSE HashMerge(up[i - 1], siblings[i]))]

\* So are the hashes from a leaf up to the root, by its path.
LEMMA ProofIs ==
    ASSUME NEW leaf, NEW siblings, NEW e
    PROVE  \E u : IsProof(u, leaf, siblings, e) /\ ComputeRootHash(leaf, siblings, e) = u[Levels - 1]
<1> USE SmirkAssumption
<1> DEFINE Upto(n, u) == u = [i \in 0 .. n |-> IF i = 0 THEN leaf ELSE (IF Lsb(e)[Levels - i] = 1 THEN HashMerge(siblings[i], u[i - 1]) ELSE HashMerge(u[i - 1], siblings[i]))]
           Bad == {n \in Nat : ~ \E u : Upto(n, u)}
<1>1. Bad = {}
  <2> SUFFICES ASSUME Bad # {} PROVE FALSE
    OBVIOUS
  <2>1. PICK n \in Bad : \A m \in Bad : n <= m
    BY LeastExists
  <2>2. n # 0
    <3> DEFINE u == [i \in 0 .. 0 |-> leaf]
    <3>1. Upto(0, u)
      OBVIOUS
    <3> HIDE DEF Upto
    <3> QED BY <3>1
  <2>3. n \in Nat /\ n - 1 \in Nat /\ n - 1 \notin Bad
    <3>1. n \in Nat
      OBVIOUS
    <3> HIDE DEF Bad
    <3> QED BY <2>1, <2>2, <3>1
  <2>4. PICK u : Upto(n - 1, u)
    BY <2>3
  <2> DEFINE v == [i \in 0 .. n |-> IF i = n THEN (IF Lsb(e)[Levels - n] = 1 THEN HashMerge(siblings[n], u[n - 1]) ELSE HashMerge(u[n - 1], siblings[n])) ELSE u[i]]
  <2>5. ASSUME NEW i \in 0 .. n
        PROVE  v[i] = IF i = 0 THEN leaf ELSE (IF Lsb(e)[Levels - i] = 1 THEN HashMerge(siblings[i], v[i - 1]) ELSE HashMerge(v[i - 1], siblings[i]))
    <3>1. CASE i = n
      <4>1. v[n - 1] = u[n - 1]
        BY <2>2, <2>3
      <4>2. v[i] = (IF Lsb(e)[Levels - n] = 1 THEN HashMerge(siblings[n], u[n - 1]) ELSE HashMerge(u[n - 1], siblings[n]))
        BY <3>1
      <4> HIDE DEF v
      <4> QED BY <2>2, <3>1, <4>1, <4>2
    <3>2. CASE i # n
      <4>1. i \in 0 .. n - 1 /\ v[i] = u[i]
        BY <2>3, <3>2
      <4>2. i # 0 => i - 1 \in 0 .. n /\ i - 1 # n /\ v[i - 1] = u[i - 1]
        BY <2>3, <4>1
      <4>3. u[i] = IF i = 0 THEN leaf ELSE (IF Lsb(e)[Levels - i] = 1 THEN HashMerge(siblings[i], u[i - 1]) ELSE HashMerge(u[i - 1], siblings[i]))
        BY <2>4, <4>1
      <4> HIDE DEF v
      <4> QED BY <4>1, <4>2, <4>3
    <3> QED BY <3>1, <3>2
  <2>6. v = [i \in 0 .. n |-> v[i]]
    OBVIOUS
  <2>7. Upto(n, v)
    <3> HIDE DEF v
    <3> QED BY <2>5, <2>6
  <2> HIDE DEF Upto
  <2> QED BY <2>1, <2>7
<1>2. \E u : IsProof(u, leaf, siblings, e)
  <2>1. Levels - 1 \in Nat
    OBVIOUS
  <2>2. \E u : Upto(Levels - 1, u)
    <3> HIDE DEF Upto
    <3> QED BY <1>1, <2>1
  <2> QED BY <2>2 DEF IsProof
<1> DEFINE up == CHOOSE u : IsProof(u, leaf, siblings, e)
<1>3. ComputeRootHash(leaf, siblings, e) = up[Levels - 1]
  BY DEF ComputeRootHash, IsProof
<1>4. IsProof(up, leaf, siblings, e)
  BY <1>2
<1> QED BY <1>3, <1>4

-----------------------------------------------------------------------------
(* The tree of a set of elements: empty where none lies, and every other   *)
(* node with the hash that the reference has there.                        *)
TreeOf(es) ==
    [p \in Places |-> IF Under(es, p) = {} THEN Empty
                      ELSE IF p \in Inner THEN Parent(HashesOf(es)[p], FALSE)
                      ELSE Leaf(CHOOSE e \in Under(es, p) : TRUE)]

\* Every result of a known hash is the hash.
RowsTrue(kn) == \A k \in kn : k.result = HashMerge(k.left, k.right)

\* An element lies at the one leaf that its low bits lead to.
LEMMA UnderLeaf ==
    ASSUME NEW p \in Places, p \notin Inner, NEW e \in Elements
    PROVE  OnWay(p, Lsb(e)) <=> Lsb(e) = p
<1>1. Len(p) = Levels - 1 /\ p \in Seq({0, 1})
  BY PlaceFacts
<1>2. Lsb(e) \in Places /\ Len(Lsb(e)) = Levels - 1
  BY LsbIs
<1>3. ASSUME OnWay(p, Lsb(e)) PROVE Lsb(e) = p
  <2>1. \A i \in 1 .. Len(p) : p[i] = Lsb(e)[i]
    BY <1>3 DEF OnWay
  <2> QED BY <1>1, <1>2, <2>1, SamePlace
<1>4. ASSUME Lsb(e) = p PROVE OnWay(p, Lsb(e))
  <2>1. Len(p) \in Nat
    BY <1>1
  <2> QED BY <1>4, <2>1 DEF OnWay
<1> QED BY <1>3, <1>4

\* It lies under an inner place when it lies under one of its children, and then
\* not under the other.
LEMMA UnderChild ==
    ASSUME NEW p \in Inner, NEW e \in Elements
    PROVE  /\ OnWay(p, Lsb(e)) <=> OnWay(Left(p), Lsb(e)) \/ OnWay(Right(p), Lsb(e))
           /\ OnWay(Left(p), Lsb(e)) => Lsb(e)[Len(p) + 1] = 0
           /\ OnWay(Right(p), Lsb(e)) => Lsb(e)[Len(p) + 1] = 1
<1> DEFINE b == Lsb(e)
           n == Len(p)
           l == Left(p)
           r == Right(p)
<1>1. n \in Nat /\ n + 1 <= Levels - 1 /\ Levels \in Nat
  <2>1. p \in Places /\ n \in 0 .. Levels - 1 /\ n # Levels - 1
    BY PlaceFacts DEF Inner
  <2> QED BY <2>1, SmirkAssumption
<1>2. Len(b) = Levels - 1 /\ \A i \in 1 .. Levels - 1 : b[i] \in {0, 1}
  BY LsbIs
<1>3. /\ Len(l) = n + 1 /\ Len(r) = n + 1
      /\ \A i \in 1 .. n : l[i] = p[i] /\ r[i] = p[i]
      /\ l[n + 1] = 0 /\ r[n + 1] = 1
  BY PlaceFacts DEF Inner
<1>4. n + 1 \in 1 .. Levels - 1 /\ n + 1 \in 1 .. n + 1 /\ \A i \in 1 .. n : i \in 1 .. n + 1
  BY <1>1
<1>5. \A i \in 1 .. n + 1 : i \in 1 .. n \/ i = n + 1
  BY <1>1
<1>6. b[n + 1] = 0 \/ b[n + 1] = 1
  BY <1>2, <1>4
<1>7. OnWay(p, b) <=> \A i \in 1 .. n : b[i] = p[i]
  BY <1>1, <1>2 DEF OnWay
<1>8. OnWay(l, b) <=> \A i \in 1 .. n + 1 : b[i] = l[i]
  BY <1>1, <1>2, <1>3 DEF OnWay
<1>9. OnWay(r, b) <=> \A i \in 1 .. n + 1 : b[i] = r[i]
  BY <1>1, <1>2, <1>3 DEF OnWay
<1>10. OnWay(l, b) <=> OnWay(p, b) /\ b[n + 1] = 0
  <2> HIDE DEF b, n, l, r
  <2> QED BY <1>3, <1>4, <1>5, <1>7, <1>8
<1>11. OnWay(r, b) <=> OnWay(p, b) /\ b[n + 1] = 1
  <2> HIDE DEF b, n, l, r
  <2> QED BY <1>3, <1>4, <1>5, <1>7, <1>9
<1> QED BY <1>6, <1>10, <1>11

\* So the elements under a place are those under its children.
LEMMA UnderChildren ==
    ASSUME NEW es \in SUBSET Elements, NEW p \in Inner
    PROVE  Under(es, p) = Under(es, Left(p)) \cup Under(es, Right(p))
<1>1. \A e \in es : OnWay(p, Lsb(e)) <=> OnWay(Left(p), Lsb(e)) \/ OnWay(Right(p), Lsb(e))
  BY UnderChild
<1> QED BY <1>1 DEF Under

\* The hash of the reference at an inner place, at a leaf, and where no element is.
LEMMA HashAt ==
    ASSUME NEW es \in SUBSET Elements, Separate(es), NEW p \in Places
    PROVE  /\ p \in Inner => HashesOf(es)[p] = <<HashesOf(es)[Left(p)], HashesOf(es)[Right(p)]>>
           /\ p \notin Inner => /\ Under(es, p) = {} => HashesOf(es)[p] = <<>>
                                /\ \A e \in Under(es, p) : HashesOf(es)[p] = <<e>> /\ Lsb(e) = p
<1> DEFINE h == HashesOf(es)
<1>1. h[p] = IF p \in Inner THEN <<h[Left(p)], h[Right(p)]>>
             ELSE IF \E e \in es : Lsb(e) = p THEN <<CHOOSE e \in es : Lsb(e) = p>> ELSE <<>>
  BY HashesOfIs, Zenon DEF IsHashesOf, HashMerge
<1>2. ASSUME p \notin Inner
      PROVE  /\ Under(es, p) = {} => h[p] = <<>>
             /\ \A e \in Under(es, p) : h[p] = <<e>> /\ Lsb(e) = p
  <2>1. \A e \in es : e \in Under(es, p) <=> Lsb(e) = p
    BY <1>2, UnderLeaf DEF Under
  <2>2. Under(es, p) \subseteq es
    BY DEF Under
  <2>3. ASSUME NEW e \in Under(es, p) PROVE h[p] = <<e>> /\ Lsb(e) = p
    <3>1. e \in es /\ Lsb(e) = p
      BY <2>1, <2>2
    <3>2. (CHOOSE x \in es : Lsb(x) = p) = e
      BY <3>1 DEF Separate
    <3> HIDE DEF h
    <3> QED BY <1>1, <1>2, <3>1, <3>2
  <2>4. Under(es, p) = {} => h[p] = <<>>
    <3> HIDE DEF h
    <3> QED BY <1>1, <1>2, <2>1
  <2> QED BY <2>3, <2>4
<1> QED BY <1>1, <1>2

\* Where no element is, the hash is that of an empty tree.
LEMMA HashWhereEmpty ==
    ASSUME NEW es \in SUBSET Elements, Separate(es), NEW p \in Places, Under(es, p) = {}
    PROVE  HashesOf(es)[p] = EmptyTreeHash[Levels - Len(p)]
<1> USE SmirkAssumption
<1> DEFINE Agrees(q) == Under(es, q) = {} => HashesOf(es)[q] = EmptyTreeHash[Levels - Len(q)]
           G == {q \in Places : Agrees(q)}
<1>1. ASSUME NEW d \in 1 .. Levels
      PROVE  EmptyTreeHash[d] = IF d = 1 THEN <<>> ELSE <<EmptyTreeHash[d - 1], EmptyTreeHash[d - 1]>>
  BY EmptyHashIs, Zenon DEF IsEmptyHash, HashMerge
<1>2. ASSUME NEW q \in Places, Len(q) = Levels - 1 PROVE q \in G
  <2>1. q \notin Inner
    BY <1>2, PlaceFacts
  <2>2. Levels - Len(q) = 1 /\ 1 \in 1 .. Levels
    BY <1>2
  <2>3. EmptyTreeHash[1] = <<>>
    BY <1>1, <2>2
  <2> QED BY <2>1, <2>2, <2>3, HashAt
<1>3. ASSUME NEW q \in Inner, Left(q) \in G, Right(q) \in G PROVE q \in G
  <2> SUFFICES ASSUME Under(es, q) = {} PROVE HashesOf(es)[q] = EmptyTreeHash[Levels - Len(q)]
    BY DEF Inner
  <2>1. q \in Places /\ Len(q) \in 0 .. Levels - 1 /\ Len(q) # Levels - 1
    BY PlaceFacts DEF Inner
  <2>2. Len(Left(q)) = Len(q) + 1 /\ Len(Right(q)) = Len(q) + 1
    BY <2>1, PlaceFacts
  <2>3. Under(es, Left(q)) = {} /\ Under(es, Right(q)) = {}
    BY UnderChildren
  <2>4. /\ HashesOf(es)[Left(q)] = EmptyTreeHash[Levels - (Len(q) + 1)]
        /\ HashesOf(es)[Right(q)] = EmptyTreeHash[Levels - (Len(q) + 1)]
    BY <1>3, <2>2, <2>3
  <2>5. /\ Levels - Len(q) \in 1 .. Levels /\ Levels - Len(q) # 1
        /\ (Levels - Len(q)) - 1 = Levels - (Len(q) + 1)
    BY <2>1
  <2>6. EmptyTreeHash[Levels - Len(q)]
          = <<EmptyTreeHash[Levels - (Len(q) + 1)], EmptyTreeHash[Levels - (Len(q) + 1)]>>
    BY <1>1, <2>5
  <2>7. HashesOf(es)[q] = <<HashesOf(es)[Left(q)], HashesOf(es)[Right(q)]>>
    BY <2>1, HashAt
  <2> QED BY <2>4, <2>6, <2>7
<1>4. Places \subseteq G
  <2> HIDE DEF G
  <2> QED BY <1>2, <1>3, FromLeavesUp
<1> QED BY <1>4

\* The hash at a place depends only on the elements under it.
LEMMA HashIsLocal ==
    ASSUME NEW es \in SUBSET Elements, NEW fs \in SUBSET Elements, Separate(es), Separate(fs),
           NEW p \in Places, Under(es, p) = Under(fs, p)
    PROVE  HashesOf(es)[p] = HashesOf(fs)[p]
<1> DEFINE G == {q \in Places : Under(es, q) = Under(fs, q) => HashesOf(es)[q] = HashesOf(fs)[q]}
<1>1. ASSUME NEW q \in Places, Len(q) = Levels - 1 PROVE q \in G
  <2> SUFFICES ASSUME Under(es, q) = Under(fs, q) PROVE HashesOf(es)[q] = HashesOf(fs)[q]
    OBVIOUS
  <2>1. q \notin Inner
    BY <1>1, PlaceFacts
  <2>2. CASE Under(es, q) = {}
    BY <2>1, <2>2, HashAt
  <2>3. CASE Under(es, q) # {}
    <3>1. PICK e : e \in Under(es, q)
      BY <2>3
    <3>2. HashesOf(es)[q] = <<e>> /\ HashesOf(fs)[q] = <<e>>
      BY <2>1, <3>1, HashAt
    <3> QED BY <3>2
  <2> QED BY <2>2, <2>3
<1>2. ASSUME NEW q \in Inner, Left(q) \in G, Right(q) \in G PROVE q \in G
  <2> SUFFICES ASSUME Under(es, q) = Under(fs, q) PROVE HashesOf(es)[q] = HashesOf(fs)[q]
    BY DEF Inner
  <2>1. q \in Places
    BY DEF Inner
  <2>2. ASSUME NEW es1 \in SUBSET Elements
        PROVE  /\ Under(es1, Left(q)) = {e \in Under(es1, q) : Lsb(e)[Len(q) + 1] = 0}
               /\ Under(es1, Right(q)) = {e \in Under(es1, q) : Lsb(e)[Len(q) + 1] = 1}
    <3>1. Under(es1, q) = Under(es1, Left(q)) \cup Under(es1, Right(q))
      BY UnderChildren
    <3>2. /\ \A e \in Under(es1, Left(q)) : Lsb(e)[Len(q) + 1] = 0
          /\ \A e \in Under(es1, Right(q)) : Lsb(e)[Len(q) + 1] = 1
      BY UnderChild DEF Under
    <3> QED BY <3>1, <3>2
  <2>3. Under(es, Left(q)) = Under(fs, Left(q)) /\ Under(es, Right(q)) = Under(fs, Right(q))
    BY <2>2
  <2>4. /\ HashesOf(es)[Left(q)] = HashesOf(fs)[Left(q)]
        /\ HashesOf(es)[Right(q)] = HashesOf(fs)[Right(q)]
    BY <1>2, <2>3
  <2> QED BY <2>1, <2>4, HashAt
<1>3. Places \subseteq G
  <2> HIDE DEF G
  <2> QED BY <1>1, <1>2, FromLeavesUp
<1> QED BY <1>3

\* A hash with an element under it is had by one place only: Poseidon is injective,
\* and an element has one place.
LEMMA OnePlace ==
    ASSUME NEW es \in SUBSET Elements, Separate(es), NEW p \in Places, NEW q \in Places,
           Under(es, p) # {}, HashesOf(es)[p] = HashesOf(es)[q]
    PROVE  p = q
<1> DEFINE h == HashesOf(es)
           G == {r \in Places : Under(es, r) # {} => \A s \in Places : h[r] = h[s] => r = s}
<1>1. ASSUME NEW r \in Places, Len(r) = Levels - 1 PROVE r \in G
  <2> SUFFICES ASSUME Under(es, r) # {}, NEW s \in Places, h[r] = h[s] PROVE r = s
    OBVIOUS
  <2>1. r \notin Inner
    BY <1>1, PlaceFacts
  <2>2. PICK e \in Under(es, r) : h[r] = <<e>> /\ Lsb(e) = r
    BY <2>1, HashAt
  <2>3. s \notin Inner
    <3> SUFFICES ASSUME s \in Inner PROVE FALSE
      OBVIOUS
    <3>1. h[s] = <<h[Left(s)], h[Right(s)]>>
      BY HashAt
    <3>2. Len(h[s]) = 2 /\ Len(h[r]) = 1
      <4> HIDE DEF h
      <4> QED BY <2>2, <3>1
    <3> HIDE DEF h
    <3> QED BY <3>2
  <2>4. Under(es, s) # {}
    <3> SUFFICES ASSUME Under(es, s) = {} PROVE FALSE
      OBVIOUS
    <3>1. h[s] = <<>>
      BY <2>3, HashAt
    <3>2. Len(h[s]) = 0 /\ Len(h[r]) = 1
      <4> HIDE DEF h
      <4> QED BY <2>2, <3>1
    <3> HIDE DEF h
    <3> QED BY <3>2
  <2>5. PICK f \in Under(es, s) : h[s] = <<f>> /\ Lsb(f) = s
    BY <2>3, <2>4, HashAt
  <2>6. e = f
    <3>1. <<e>> = <<f>>
      <4> HIDE DEF h
      <4> QED BY <2>2, <2>5
    <3> QED BY ONLY <3>1
  <2> QED BY <2>2, <2>5, <2>6
<1>2. ASSUME NEW r \in Inner, Left(r) \in G, Right(r) \in G PROVE r \in G
  <2>1. r \in Places
    BY DEF Inner
  <2> SUFFICES ASSUME Under(es, r) # {}, NEW s \in Places, h[r] = h[s] PROVE r = s
    BY <2>1
  <2>2. h[r] = <<h[Left(r)], h[Right(r)]>>
    BY <2>1, HashAt
  <2>3. s \in Inner
    <3> SUFFICES ASSUME s \notin Inner PROVE FALSE
      OBVIOUS
    <3>1. h[s] = <<>> \/ \E e : h[s] = <<e>>
      BY HashAt
    <3>2. (Len(h[s]) = 0 \/ Len(h[s]) = 1) /\ Len(h[r]) = 2
      <4> HIDE DEF h
      <4> QED BY <2>2, <3>1
    <3> HIDE DEF h
    <3> QED BY <3>2
  <2>4. h[s] = <<h[Left(s)], h[Right(s)]>>
    BY <2>3, HashAt
  <2>5. h[Left(r)] = h[Left(s)] /\ h[Right(r)] = h[Right(s)]
    <3>1. <<h[Left(r)], h[Right(r)]>> = <<h[Left(s)], h[Right(s)]>>
      <4> HIDE DEF h
      <4> QED BY <2>2, <2>4
    <3>2. ASSUME NEW a, NEW b, NEW c, NEW d, <<a, b>> = <<c, d>> PROVE a = c /\ b = d
      BY ONLY <3>2
    <3> HIDE DEF h
    <3> QED BY <3>1, <3>2
  <2>6. Left(s) \in Places /\ Right(s) \in Places
    BY <2>3, PlaceFacts
  <2>7. Under(es, Left(r)) # {} \/ Under(es, Right(r)) # {}
    BY UnderChildren
  <2>8. Left(r) = Left(s) \/ Right(r) = Right(s)
    BY <1>2, <2>5, <2>6, <2>7
  <2> QED BY <2>3, <2>8, OneParent
<1>3. Places \subseteq G
  <2> HIDE DEF G
  <2> QED BY <1>1, <1>2, FromLeavesUp
<1> QED BY <1>3

\* The nodes of the tree of a set have the hashes of the reference.
LEMMA NodeHashOf ==
    ASSUME NEW es \in SUBSET Elements, Separate(es), NEW p \in Places
    PROVE  NodeHash(TreeOf(es), p) = HashesOf(es)[p]
<1> DEFINE t == TreeOf(es)
<1>1. CASE Under(es, p) = {}
  <2>1. t[p] = [kind |-> "empty"]
    BY <1>1 DEF TreeOf, Empty
  <2>2. NodeHash(t, p) = EmptyTreeHash[Levels - Len(p)]
    <3> HIDE DEF t
    <3> QED BY <2>1 DEF NodeHash
  <2> QED BY <1>1, <2>2, HashWhereEmpty
<1>2. CASE Under(es, p) # {} /\ p \in Inner
  <2>1. t[p] = [kind |-> "parent", hash |-> HashesOf(es)[p], dirty |-> FALSE]
    BY <1>2 DEF TreeOf, Parent
  <2>2. NodeHash(t, p) = HashesOf(es)[p]
    <3> HIDE DEF t
    <3> QED BY <2>1 DEF NodeHash
  <2> QED BY <2>2
<1>3. CASE Under(es, p) # {} /\ p \notin Inner
  <2> DEFINE e == CHOOSE e \in Under(es, p) : TRUE
  <2>1. e \in Under(es, p)
    BY <1>3
  <2>2. HashesOf(es)[p] = <<e>>
    BY <1>3, <2>1, HashAt
  <2>3. t[p] = [kind |-> "leaf", element |-> e]
    BY <1>3 DEF TreeOf, Leaf
  <2>4. NodeHash(t, p) = <<e>>
    <3> HIDE DEF t, e
    <3> QED BY <2>3 DEF NodeHash
  <2> QED BY <2>2, <2>4
<1> QED BY <1>1, <1>2, <1>3

\* The hashes read from the database do not change a result.
LEMMA CacheAgrees ==
    ASSUME NEW kn, RowsTrue(kn), NEW l, NEW r
    PROVE  CacheHash(kn, l, r) = <<l, r>>
<1>1. CASE \E k \in kn : k.left = l /\ k.right = r
  <2> DEFINE k == CHOOSE k \in kn : k.left = l /\ k.right = r
  <2>1. k \in kn /\ k.left = l /\ k.right = r
    BY <1>1
  <2>2. CacheHash(kn, l, r) = k.result
    BY <1>1 DEF CacheHash
  <2>3. k.result = <<k.left, k.right>>
    <3> HIDE DEF k
    <3> QED BY <2>1 DEF RowsTrue, HashMerge
  <2> HIDE DEF k
  <2> QED BY <2>1, <2>2, <2>3
<1>2. CASE ~ \E k \in kn : k.left = l /\ k.right = r
  BY <1>2 DEF CacheHash, HashMerge
<1> QED BY <1>1, <1>2

-----------------------------------------------------------------------------
(* Inserting, marking and recalculating makes the tree of a set that of    *)
(* the set with the batch.                                                 *)

\* What a batch without collisions is added to stays free of collisions.
Fresh(E, es, N) ==
    /\ E \in SUBSET Elements /\ Separate(E)
    /\ es \in SUBSET Elements /\ Separate(es) /\ ~ Collides(es, E)
    /\ N = E \cup es

\* The elements under a place are old or new, at a leaf not both.
LEMMA FreshFacts ==
    ASSUME NEW E, NEW es, NEW N, Fresh(E, es, N)
    PROVE  /\ N \in SUBSET Elements /\ Separate(N)
           /\ \A p \in Places : /\ Under(N, p) = Under(E, p) \cup Under(es, p)
                                /\ p \notin Inner => Under(E, p) = {} \/ Under(es, p) = {}
<1> USE DEF Fresh
<1>1. \A x \in es, y \in E : Lsb(x) # Lsb(y)
  BY DEF Collides
<1>2. Separate(N)
  BY <1>1 DEF Separate
<1>3. ASSUME NEW p \in Places, p \notin Inner, Under(E, p) # {}, Under(es, p) # {} PROVE FALSE
  <2>1. PICK x \in es, y \in E : OnWay(p, Lsb(x)) /\ OnWay(p, Lsb(y))
    BY <1>3 DEF Under
  <2>2. Lsb(x) = p /\ Lsb(y) = p
    BY <1>3, <2>1, UnderLeaf
  <2> QED BY <1>1, <2>2
<1>4. \A p \in Places : Under(N, p) = Under(E, p) \cup Under(es, p)
  BY DEF Under
<1> QED BY <1>2, <1>3, <1>4

\* The hash of a place without new elements is what it was; that of a leaf with a
\* new one is the element.
LEMMA HashAfter ==
    ASSUME NEW E, NEW es, NEW N, Fresh(E, es, N), NEW p \in Places
    PROVE  /\ Under(es, p) = {} => HashesOf(E)[p] = HashesOf(N)[p]
           /\ p \notin Inner => \A e \in Under(es, p) : HashesOf(N)[p] = <<e>>
<1>1. E \in SUBSET Elements /\ Separate(E)
  BY DEF Fresh
<1>2. /\ N \in SUBSET Elements /\ Separate(N)
      /\ Under(N, p) = Under(E, p) \cup Under(es, p)
  BY FreshFacts
<1>3. Under(es, p) = {} => HashesOf(E)[p] = HashesOf(N)[p]
  <2> SUFFICES ASSUME Under(es, p) = {} PROVE HashesOf(E)[p] = HashesOf(N)[p]
    OBVIOUS
  <2>1. Under(E, p) = Under(N, p)
    BY <1>2
  <2> QED BY <1>1, <1>2, <2>1, HashIsLocal
<1>4. ASSUME p \notin Inner, NEW e \in Under(es, p) PROVE HashesOf(N)[p] = <<e>>
  <2>1. e \in Under(N, p)
    BY <1>2
  <2> QED BY <1>2, <1>4, <2>1, HashAt
<1> QED BY <1>3, <1>4

\* Where the hashes that are not computed are right, those that are computed from
\* them are right.
LEMMA RehashedRight ==
    ASSUME NEW es \in SUBSET Elements, Separate(es), NEW kn, RowsTrue(kn),
           NEW visited \in SUBSET Inner, NEW own,
           \A p \in Places : p \notin visited => own[p] = HashesOf(es)[p]
    PROVE  \A p \in Places : Rehashed(visited, own, kn)[p] = HashesOf(es)[p]
<1> DEFINE h == Rehashed(visited, own, kn)
           G == {p \in Places : h[p] = HashesOf(es)[p]}
<1>1. ASSUME NEW p \in Places
      PROVE  h[p] = IF p \in visited THEN <<h[Left(p)], h[Right(p)]>> ELSE own[p]
  <2>1. IsRehashed(h, visited, own, kn)
    BY RehashedIs
  <2>2. CacheHash(kn, h[Left(p)], h[Right(p)]) = <<h[Left(p)], h[Right(p)]>>
    BY CacheAgrees
  <2> HIDE DEF h
  <2>3. h[p] = IF p \in visited THEN CacheHash(kn, h[Left(p)], h[Right(p)]) ELSE own[p]
    BY <2>1, Zenon DEF IsRehashed
  <2> QED BY <2>2, <2>3
<1> HIDE DEF h
<1>2. ASSUME NEW p \in Places, Len(p) = Levels - 1 PROVE p \in G
  <2>1. p \notin visited
    BY <1>2, PlaceFacts
  <2> QED BY <1>1, <2>1
<1>3. ASSUME NEW p \in Inner, Left(p) \in G, Right(p) \in G PROVE p \in G
  <2>1. p \in Places
    BY DEF Inner
  <2>2. HashesOf(es)[p] = <<HashesOf(es)[Left(p)], HashesOf(es)[Right(p)]>>
    BY <2>1, HashAt
  <2> QED BY <1>1, <1>3, <2>1, <2>2
<1>4. Places \subseteq G
  <2> HIDE DEF G
  <2> QED BY <1>2, <1>3, FromLeavesUp
<1> QED BY <1>4 DEF h

\* The places on the way to new elements
WayTo(es) == {p \in Inner : Under(es, p) # {}}

\* They are those that are marked, and the old hashes stay there; leaves are new.
LEMMA DirtyIs ==
    ASSUME NEW E, NEW es, NEW N, Fresh(E, es, N)
    PROVE  LET dirty == InsertNode(TreeOf(E), es)
           IN  /\ Visited(dirty) = WayTo(es)
               /\ \A p \in Inner : NodeHash(dirty, p) = HashesOf(E)[p]
               /\ \A p \in Places \ Inner : NodeHash(dirty, p) = HashesOf(N)[p]
               /\ \A p \in Places \ WayTo(es) : dirty[p] = TreeOf(N)[p]
<1> DEFINE t == TreeOf(E)
           d == InsertNode(t, es)
<1>1. E \in SUBSET Elements /\ Separate(E)
  BY DEF Fresh
<1>2. ASSUME NEW p \in Places
      PROVE  /\ t[p] = IF Under(E, p) = {} THEN Empty
                       ELSE IF p \in Inner THEN Parent(HashesOf(E)[p], FALSE)
                       ELSE Leaf(CHOOSE e \in Under(E, p) : TRUE)
             /\ d[p] = IF Under(es, p) = {} \/ t[p].kind = "leaf" THEN t[p]
                       ELSE IF p \in Inner THEN Parent(NodeHash(t, p), TRUE)
                       ELSE Leaf(CHOOSE e \in Under(es, p) : TRUE)
             /\ NodeHash(t, p) = HashesOf(E)[p]
  BY <1>1, NodeHashOf DEF TreeOf, InsertNode
<1> HIDE DEF t, d
<1>3. ASSUME NEW p \in Places, Under(es, p) = {}
      PROVE  d[p] = t[p] /\ NodeHash(d, p) = HashesOf(N)[p]
  <2>1. d[p] = t[p]
    BY <1>2, <1>3
  <2>2. NodeHash(d, p) = NodeHash(t, p)
    BY <2>1 DEF NodeHash
  <2>3. HashesOf(E)[p] = HashesOf(N)[p]
    BY <1>3, HashAfter
  <2> QED BY <1>2, <2>1, <2>2, <2>3
<1>4. ASSUME NEW p \in Inner, Under(es, p) # {}
      PROVE  d[p] = Parent(HashesOf(E)[p], TRUE)
  <2>1. p \in Places
    BY DEF Inner
  <2>2. t[p].kind # "leaf"
    <3>1. Empty.kind = "empty" /\ Parent(HashesOf(E)[p], FALSE).kind = "parent"
      BY DEF Empty, Parent
    <3> QED BY <1>2, <2>1, <3>1
  <2> QED BY <1>2, <1>4, <2>1, <2>2
<1>5. ASSUME NEW p \in Places, p \notin Inner, Under(es, p) # {}
      PROVE  /\ d[p] = Leaf(CHOOSE e \in Under(es, p) : TRUE)
             /\ NodeHash(d, p) = HashesOf(N)[p]
  <2>1. Under(E, p) = {}
    BY <1>5, FreshFacts
  <2>2. t[p].kind = "empty"
    <3>1. t[p] = Empty
      BY <1>2, <2>1
    <3> QED BY <3>1 DEF Empty
  <2> DEFINE e == CHOOSE e \in Under(es, p) : TRUE
  <2>3. d[p] = Leaf(e)
    BY <1>2, <1>5, <2>2
  <2>4. e \in Under(es, p)
    BY <1>5
  <2>5. HashesOf(N)[p] = <<e>>
    BY <1>5, <2>4, HashAfter
  <2>6. NodeHash(d, p) = <<e>>
    <3> HIDE DEF e
    <3> QED BY <2>3 DEF NodeHash, Leaf
  <2> QED BY <2>3, <2>5, <2>6
<1>6. Dirty(d) = WayTo(es)
  <2>1. ASSUME NEW p \in WayTo(es) PROVE p \in Dirty(d)
    <3>1. p \in Inner /\ p \in Places /\ Under(es, p) # {}
      BY DEF WayTo, Inner
    <3>2. d[p] = [kind |-> "parent", hash |-> HashesOf(E)[p], dirty |-> TRUE]
      BY <1>4, <3>1 DEF Parent
    <3> QED BY <3>1, <3>2 DEF Dirty, Parents
  <2>2. ASSUME NEW p \in Dirty(d), p \notin WayTo(es) PROVE FALSE
    <3>1. p \in Places /\ d[p].kind = "parent" /\ d[p].dirty
      BY DEF Dirty, Parents
    <3>2. CASE Under(es, p) = {}
      <4>1. t[p].kind = "parent" /\ t[p].dirty
        BY <1>3, <3>1, <3>2
      <4>2. Empty.kind = "empty" /\ \A e : Leaf(e).kind = "leaf"
        BY DEF Empty, Leaf
      <4>3. Under(E, p) # {} /\ p \in Inner
        BY <1>2, <3>1, <4>1, <4>2
      <4>4. t[p] = [kind |-> "parent", hash |-> HashesOf(E)[p], dirty |-> FALSE]
        BY <1>2, <3>1, <4>3 DEF Parent
      <4> QED BY <4>1, <4>4
    <3>3. CASE Under(es, p) # {}
      <4>1. p \notin Inner
        BY <2>2, <3>3 DEF WayTo
      <4>2. d[p] = Leaf(CHOOSE e \in Under(es, p) : TRUE)
        BY <1>5, <3>1, <3>3, <4>1
      <4>3. \A e : Leaf(e).kind = "leaf"
        BY DEF Leaf
      <4> QED BY <3>1, <4>2, <4>3
    <3> QED BY <3>2, <3>3
  <2> QED BY <2>1, <2>2
<1>7. Visited(d) = WayTo(es)
  <2>1. ASSUME NEW p \in Visited(d) PROVE p \in WayTo(es)
    <3>1. p \in Places /\ OnWay(p, p)
      BY PlaceFacts DEF Visited, OnWay
    <3> QED BY <1>6, <3>1 DEF Visited
  <2>2. ASSUME NEW p \in WayTo(es), NEW q \in Places, OnWay(q, p) PROVE q \in WayTo(es)
    <3>1. p \in Places /\ Len(p) < Levels - 1
      BY DEF WayTo, Inner
    <3>2. Len(p) \in 0 .. Levels - 1 /\ Len(q) \in 0 .. Levels - 1 /\ Levels \in Nat
      BY <3>1, PlaceFacts, SmirkAssumption
    <3>3. q \in Inner
      BY <2>2, <3>1, <3>2 DEF OnWay, Inner
    <3>4. PICK e \in es : OnWay(p, Lsb(e))
      BY DEF WayTo, Under
    <3>5. Len(Lsb(e)) = Levels - 1
      BY LsbIs DEF Fresh
    <3>6. OnWay(q, Lsb(e))
      <4>1. \A i \in 1 .. Len(q) : i \in 1 .. Len(p)
        BY <2>2, <3>2 DEF OnWay
      <4>2. \A i \in 1 .. Len(q) : Lsb(e)[i] = q[i]
        BY <2>2, <3>4, <4>1 DEF OnWay
      <4>3. Len(q) <= Len(Lsb(e))
        BY <3>2, <3>5
      <4> QED BY <4>2, <4>3 DEF OnWay
    <3> QED BY <3>3, <3>6 DEF WayTo, Under
  <2>3. WayTo(es) \subseteq Places
    BY DEF WayTo, Inner
  <2> QED BY <1>6, <2>1, <2>2, <2>3 DEF Visited
<1>8. ASSUME NEW p \in Inner PROVE NodeHash(d, p) = HashesOf(E)[p]
  <2>1. p \in Places
    BY DEF Inner
  <2>2. CASE Under(es, p) = {}
    BY <1>3, <2>1, <2>2, HashAfter
  <2>3. CASE Under(es, p) # {}
    <3>1. d[p] = [kind |-> "parent", hash |-> HashesOf(E)[p], dirty |-> TRUE]
      BY <1>4, <2>3 DEF Parent
    <3> QED BY <3>1 DEF NodeHash
  <2> QED BY <2>2, <2>3
<1>9. ASSUME NEW p \in Places, p \notin WayTo(es) PROVE d[p] = TreeOf(N)[p]
  <2>1. TreeOf(N)[p] = IF Under(N, p) = {} THEN Empty
                       ELSE IF p \in Inner THEN Parent(HashesOf(N)[p], FALSE)
                       ELSE Leaf(CHOOSE e \in Under(N, p) : TRUE)
    BY DEF TreeOf
  <2>2. Under(N, p) = Under(E, p) \cup Under(es, p)
    BY FreshFacts
  <2>3. CASE Under(es, p) = {}
    <3>1. Under(N, p) = Under(E, p) /\ HashesOf(N)[p] = HashesOf(E)[p]
      BY <2>2, <2>3, HashAfter
    <3> QED BY <1>2, <1>3, <2>1, <2>3, <3>1
  <2>4. CASE Under(es, p) # {}
    <3>1. p \notin Inner
      BY <1>9, <2>4 DEF WayTo
    <3>2. Under(E, p) = {}
      BY <2>4, <3>1, FreshFacts
    <3>3. Under(N, p) = Under(es, p)
      BY <2>2, <3>2
    <3>4. d[p] = Leaf(CHOOSE e \in Under(es, p) : TRUE)
      BY <1>5, <2>4, <3>1
    <3> QED BY <2>1, <2>4, <3>1, <3>3, <3>4
  <2> QED BY <2>3, <2>4
<1> QED BY <1>3, <1>5, <1>7, <1>8, <1>9 DEF d, t

\* The tree of the set with the batch
LEMMA RecalculateIs ==
    ASSUME NEW E, NEW es, NEW N, Fresh(E, es, N), NEW kn, RowsTrue(kn)
    PROVE  Recalculate(InsertNode(TreeOf(E), es), kn) = TreeOf(N)
<1> DEFINE d == InsertNode(TreeOf(E), es)
           own == [p \in Places |-> NodeHash(d, p)]
           h == Rehashed(WayTo(es), own, kn)
<1>1. /\ Visited(d) = WayTo(es)
      /\ \A p \in Inner : NodeHash(d, p) = HashesOf(E)[p]
      /\ \A p \in Places \ Inner : NodeHash(d, p) = HashesOf(N)[p]
      /\ \A p \in Places \ WayTo(es) : d[p] = TreeOf(N)[p]
  BY DirtyIs
<1> HIDE DEF d
<1>2. N \in SUBSET Elements /\ Separate(N) /\ \A p \in Places : Under(N, p) = Under(E, p) \cup Under(es, p)
  BY FreshFacts
<1>3. ASSUME NEW p \in Places, p \notin WayTo(es) PROVE own[p] = HashesOf(N)[p]
  <2>1. CASE p \in Inner
    <3>1. Under(es, p) = {}
      BY <1>3, <2>1 DEF WayTo
    <3> QED BY <1>1, <2>1, <3>1, HashAfter
  <2>2. CASE p \notin Inner
    BY <1>1, <2>2
  <2> QED BY <2>1, <2>2
<1>4. WayTo(es) \in SUBSET Inner
  BY DEF WayTo
<1>5. \A p \in Places : h[p] = HashesOf(N)[p]
  <2> HIDE DEF own
  <2> QED BY <1>2, <1>3, <1>4, RehashedRight
<1>6. Recalculate(d, kn) = [p \in Places |-> IF p \in WayTo(es) THEN Parent(h[p], FALSE) ELSE d[p]]
  BY <1>1 DEF Recalculate
<1> HIDE DEF h, own
<1>7. ASSUME NEW p \in WayTo(es) PROVE TreeOf(N)[p] = Parent(h[p], FALSE)
  <2>1. p \in Places /\ p \in Inner /\ Under(N, p) # {}
    BY <1>2 DEF WayTo, Inner
  <2> QED BY <1>5, <2>1 DEF TreeOf
<1>8. TreeOf(N) = [p \in Places |-> TreeOf(N)[p]]
  BY DEF TreeOf
<1> QED BY <1>1, <1>6, <1>7, <1>8 DEF d

\* root_hash_with gives the root of that tree.
LEMMA RootHashWithIs ==
    ASSUME NEW E, NEW es, NEW N, Fresh(E, es, N), NEW kn, RowsTrue(kn)
    PROVE  RootHashWith(TreeOf(E), es, kn) = RootOf(N)
<1> DEFINE t == TreeOf(E)
           own == [p \in Places |-> LeafHashWith(t, es, p)]
           h == Rehashed(WayTo(es), own, kn)
<1>1. N \in SUBSET Elements /\ Separate(N) /\ E \in SUBSET Elements /\ Separate(E)
  BY FreshFacts DEF Fresh
<1>2. ASSUME NEW p \in Places, p \notin WayTo(es) PROVE own[p] = HashesOf(N)[p]
  <2>1. NodeHash(t, p) = HashesOf(E)[p]
    BY <1>1, NodeHashOf
  <2>2. own[p] = LeafHashWith(t, es, p)
    OBVIOUS
  <2>3. p \in Inner <=> Len(p) # Levels - 1
    BY PlaceFacts
  <2>4. CASE Under(es, p) = {}
    <3>1. LeafHashWith(t, es, p) = NodeHash(t, p)
      BY <2>4 DEF LeafHashWith
    <3> QED BY <2>1, <2>2, <2>4, <3>1, HashAfter
  <2>5. CASE Under(es, p) # {}
    <3>1. p \notin Inner
      BY <1>2, <2>5 DEF WayTo
    <3>2. Under(E, p) = {}
      BY <2>5, <3>1, FreshFacts
    <3>3. t[p] = [kind |-> "empty"]
      BY <3>2 DEF TreeOf, Empty
    <3> DEFINE e == CHOOSE e \in Under(es, p) : TRUE
    <3>4. LeafHashWith(t, es, p) = <<e>>
      <4> HIDE DEF t
      <4> QED BY <2>3, <2>5, <3>1, <3>3 DEF LeafHashWith
    <3>5. e \in Under(es, p)
      BY <2>5
    <3> HIDE DEF e
    <3>6. HashesOf(N)[p] = <<e>>
      BY <3>1, <3>5, HashAfter
    <3> QED BY <2>2, <3>4, <3>6
  <2> QED BY <2>4, <2>5
<1>3. WayTo(es) \in SUBSET Inner
  BY DEF WayTo
<1>4. \A p \in Places : h[p] = HashesOf(N)[p]
  <2> HIDE DEF own
  <2> QED BY <1>1, <1>2, <1>3, RehashedRight
<1>5. RootHashWith(t, es, kn) = h[<<>>]
  BY DEF RootHashWith, WayTo
<1> QED BY <1>4, <1>5, RootPlace DEF RootOf

\* A tree without elements has no nodes in memory.
LEMMA EmptyTreeIs == EmptyTree = TreeOf({})
    BY DEF EmptyTree, TreeOf, Under

-----------------------------------------------------------------------------
(* Paths.                                                                  *)

\* The first k bits of the way to an element
Prefix(e, k) == [i \in 1 .. k |-> Lsb(e)[i]]

\* They lead to places; at each the way goes on to one child, and what the path
\* has is the other.
LEMMA PrefixFacts ==
    ASSUME NEW e \in Elements, NEW k \in 0 .. Levels - 1
    PROVE  /\ Prefix(e, k) \in Places /\ Len(Prefix(e, k)) = k
           /\ k = 0 => Prefix(e, k) = <<>>
           /\ k = Levels - 1 => Prefix(e, k) = Lsb(e)
           /\ k # Levels - 1 =>
                 /\ Prefix(e, k) \in Inner
                 /\ Lsb(e)[k + 1] = 0 => /\ Prefix(e, k + 1) = Left(Prefix(e, k))
                                         /\ Beside(Lsb(e), k + 1) = Right(Prefix(e, k))
                 /\ Lsb(e)[k + 1] # 0 => /\ Prefix(e, k + 1) = Right(Prefix(e, k))
                                         /\ Beside(Lsb(e), k + 1) = Left(Prefix(e, k))
<1> USE SmirkAssumption
<1> DEFINE b == Lsb(e)
<1>1. b \in Places /\ Len(b) = Levels - 1 /\ \A i \in 1 .. Levels - 1 : b[i] \in {0, 1}
  BY LsbIs
<1> HIDE DEF b
<1>2. ASSUME NEW n \in 0 .. Levels - 1, NEW f \in [1 .. n -> {0, 1}]
      PROVE  f \in Places /\ Len(f) = n
  <2>1. n \in Nat /\ n <= Levels - 1
    OBVIOUS
  <2>2. f \in Seq({0, 1})
    BY <2>1
  <2>3. Len(f) = n
    BY <2>1, <2>2
  <2> QED BY <2>1, <2>2, <2>3, PlaceIs
<1>3. ASSUME NEW n \in 0 .. Levels - 1
      PROVE  /\ Prefix(e, n) \in Places /\ Len(Prefix(e, n)) = n
             /\ \A i \in 1 .. n : Prefix(e, n)[i] = b[i]
  <2>1. \A i \in 1 .. n : b[i] \in {0, 1}
    BY <1>1
  <2>2. Prefix(e, n) \in [1 .. n -> {0, 1}] /\ \A i \in 1 .. n : Prefix(e, n)[i] = b[i]
    BY <2>1 DEF Prefix, b
  <2> QED BY <1>2, <2>2
<1>4. k = 0 => Prefix(e, k) = <<>>
  <2> SUFFICES ASSUME k = 0 PROVE Prefix(e, k) = <<>>
    OBVIOUS
  <2>1. Len(Prefix(e, k)) = 0 /\ Prefix(e, k) \in Seq({0, 1})
    BY <1>3, PlaceFacts
  <2> QED BY <2>1, EmptySeq
<1>5. k = Levels - 1 => Prefix(e, k) = b
  BY <1>1, <1>3, SamePlace
<1>6. ASSUME k # Levels - 1
      PROVE  /\ Prefix(e, k) \in Inner
             /\ b[k + 1] = 0 => /\ Prefix(e, k + 1) = Left(Prefix(e, k))
                                /\ Beside(b, k + 1) = Right(Prefix(e, k))
             /\ b[k + 1] # 0 => /\ Prefix(e, k + 1) = Right(Prefix(e, k))
                                /\ Beside(b, k + 1) = Left(Prefix(e, k))
  <2> DEFINE p == Prefix(e, k)
             q == Prefix(e, k + 1)
             s == Beside(b, k + 1)
  <2>1. k + 1 \in 0 .. Levels - 1 /\ k + 1 \in 1 .. Levels - 1
    BY <1>6
  <2>2. /\ p \in Places /\ Len(p) = k /\ \A i \in 1 .. k : p[i] = b[i]
        /\ q \in Places /\ Len(q) = k + 1 /\ \A i \in 1 .. k + 1 : q[i] = b[i]
    BY <1>3, <2>1
  <2>3. /\ s \in Places /\ Len(s) = k + 1
        /\ \A i \in 1 .. k + 1 : s[i] = IF i = k + 1 THEN 1 - b[k + 1] ELSE b[i]
    <3>1. \A i \in 1 .. k + 1 : b[i] \in {0, 1}
      BY <1>1, <2>1
    <3>2. b[k + 1] \in {0, 1} /\ 1 - b[k + 1] \in {0, 1}
      <4>1. b[k + 1] \in {0, 1}
        BY <1>1, <2>1
      <4> QED BY <4>1
    <3>3. s \in [1 .. k + 1 -> {0, 1}]
      BY <3>1, <3>2 DEF Beside
    <3>4. \A i \in 1 .. k + 1 : s[i] = IF i = k + 1 THEN 1 - b[k + 1] ELSE b[i]
      BY DEF Beside
    <3> HIDE DEF s
    <3> QED BY <1>2, <2>1, <3>3, <3>4
  <2> HIDE DEF p, q, s
  <2>4. p \in Inner
    BY <1>6, <2>2, PlaceFacts
  <2>5. /\ Left(p) \in Places /\ Right(p) \in Places
        /\ Len(Left(p)) = k + 1 /\ Len(Right(p)) = k + 1
        /\ \A i \in 1 .. k : Left(p)[i] = b[i] /\ Right(p)[i] = b[i]
        /\ Left(p)[k + 1] = 0 /\ Right(p)[k + 1] = 1
    BY <2>2, <2>4, PlaceFacts
  <2>6. b[k + 1] = 0 \/ b[k + 1] = 1
    BY <1>1, <2>1
  <2>7. \A i \in 1 .. k + 1 : i = k + 1 \/ (i # k + 1 /\ i \in 1 .. k)
    OBVIOUS
  <2>8. ASSUME b[k + 1] = 0 PROVE q = Left(p) /\ s = Right(p)
    <3>1. \A i \in 1 .. k + 1 : q[i] = Left(p)[i]
      BY <2>2, <2>5, <2>7, <2>8
    <3>2. \A i \in 1 .. k + 1 : s[i] = Right(p)[i]
      BY <2>3, <2>5, <2>7, <2>8
    <3> QED BY <2>2, <2>3, <2>5, <3>1, <3>2, SamePlace
  <2>9. ASSUME b[k + 1] = 1 PROVE q = Right(p) /\ s = Left(p)
    <3>1. \A i \in 1 .. k + 1 : q[i] = Right(p)[i]
      BY <2>2, <2>5, <2>7, <2>9
    <3>2. \A i \in 1 .. k + 1 : s[i] = Left(p)[i]
      BY <2>3, <2>5, <2>7, <2>9
    <3> QED BY <2>2, <2>3, <2>5, <3>1, <3>2, SamePlace
  <2> QED BY <2>4, <2>6, <2>8, <2>9 DEF p, q, s
<1> QED BY <1>3, <1>4, <1>5, <1>6 DEF b

\* A path leads from what is at its place to the root.
LEMMA ProvesRoot ==
    ASSUME NEW es \in SUBSET Elements, Separate(es), NEW e \in Elements
    PROVE  ComputeRootHash(HashesOf(es)[Lsb(e)], PathFor(TreeOf(es), e), e) = RootOf(es)
<1> USE SmirkAssumption
<1> DEFINE h == HashesOf(es)
           leaf == h[Lsb(e)]
           path == PathFor(TreeOf(es), e)
<1>1. PICK u : /\ IsProof(u, leaf, path, e)
               /\ ComputeRootHash(leaf, path, e) = u[Levels - 1]
  BY ProofIs
<1> DEFINE Bad == {i \in Nat : i <= Levels - 1 /\ u[i] # h[Prefix(e, Levels - 1 - i)]}
<1>2. Bad = {}
  <2> SUFFICES ASSUME Bad # {} PROVE FALSE
    OBVIOUS
  <2>1. PICK i \in Bad : \A j \in Bad : i <= j
    BY LeastExists
  <2>2. i \in 0 .. Levels - 1 /\ u[i] # h[Prefix(e, Levels - 1 - i)]
    OBVIOUS
  <2>3. u[i] = IF i = 0 THEN leaf
               ELSE (IF Lsb(e)[Levels - i] = 1 THEN HashMerge(path[i], u[i - 1]) ELSE HashMerge(u[i - 1], path[i]))
    <3> HIDE DEF leaf, path
    <3> QED BY <1>1, <2>2, Zenon DEF IsProof
  <2>4. i # 0
    <3> SUFFICES ASSUME i = 0 PROVE FALSE
      OBVIOUS
    <3>1. Levels - 1 - 0 = Levels - 1 /\ Levels - 1 \in 0 .. Levels - 1
      OBVIOUS
    <3>2. Prefix(e, Levels - 1 - 0) = Lsb(e)
      BY <3>1, PrefixFacts
    <3> QED BY <2>2, <2>3, <3>2
  <2> DEFINE k == Levels - 1 - i
  <2>5. /\ k \in 0 .. Levels - 1 /\ k # Levels - 1 /\ k + 1 = Levels - i
        /\ k + 1 = Levels - 1 - (i - 1) /\ i - 1 \in Nat /\ i - 1 <= Levels - 1
        /\ i \in 1 .. Levels - 1 /\ k + 1 \in 1 .. Levels - 1
    BY <2>2, <2>4
  <2>6. u[i - 1] = h[Prefix(e, k + 1)]
    <3>1. i - 1 \notin Bad
      <4>1. i \in Nat
        BY <2>2
      <4> HIDE DEF Bad
      <4> QED BY <2>1, <2>5, <4>1
    <3>2. u[i - 1] = h[Prefix(e, Levels - 1 - (i - 1))]
      <4> HIDE DEF h
      <4> QED BY <2>5, <3>1
    <3> QED BY <2>5, <3>2
  <2> DEFINE p == Prefix(e, k)
             s == Beside(Lsb(e), k + 1)
  <2>7. p \in Inner /\ p \in Places
    BY <2>5, PrefixFacts
  <2>8. s \in Places
    <3>1. s = Left(p) \/ s = Right(p)
      <4> HIDE DEF s, p, k
      <4> QED BY <2>5, PrefixFacts DEF s, p
    <3> QED BY <2>7, <3>1, PlaceFacts
  <2>9. path[i] = h[s]
    <3>1. path[i] = NodeHash(TreeOf(es), Beside(Lsb(e), Levels - i))
      BY <2>5 DEF PathFor
    <3> QED BY <2>5, <2>8, <3>1, NodeHashOf
  <2>10. h[p] = <<h[Left(p)], h[Right(p)]>>
    BY <2>7, HashAt
  <2>11. Lsb(e)[k + 1] \in {0, 1}
    BY <2>5, LsbIs
  <2>12. u[i] = IF Lsb(e)[k + 1] = 1 THEN <<h[s], h[Prefix(e, k + 1)]>> ELSE <<h[Prefix(e, k + 1)], h[s]>>
    <3> HIDE DEF h, leaf, path, s
    <3> QED BY <2>3, <2>4, <2>5, <2>6, <2>9 DEF HashMerge
  <2>13. /\ Lsb(e)[k + 1] = 0 => Prefix(e, k + 1) = Left(p) /\ s = Right(p)
         /\ Lsb(e)[k + 1] # 0 => Prefix(e, k + 1) = Right(p) /\ s = Left(p)
    <3> HIDE DEF k
    <3> QED BY <2>5, PrefixFacts
  <2>14. u[i] = h[p]
    <3> HIDE DEF h, p, s, k
    <3> QED BY <2>10, <2>11, <2>12, <2>13
  <2> QED BY <2>2, <2>14
<1>3. Levels - 1 \in Nat /\ Levels - 1 <= Levels - 1 /\ Levels - 1 - (Levels - 1) = 0 /\ 0 \in 0 .. Levels - 1
  OBVIOUS
<1>4. u[Levels - 1] = h[Prefix(e, 0)]
  <2> HIDE DEF h
  <2> QED BY <1>2, <1>3
<1>5. Prefix(e, 0) = <<>>
  BY <1>3, PrefixFacts
<1> QED BY <1>1, <1>4, <1>5 DEF RootOf

-----------------------------------------------------------------------------
(* The database.                                                           *)

\* The row of a node of the tree of a set
RowAt(es, p) ==
    [left |-> HashesOf(es)[Left(p)], right |-> HashesOf(es)[Right(p)], result |-> HashesOf(es)[p]]
RowsOf(es, at) == {RowAt(es, p) : p \in at}

\* A node of the tree of a set has its row there.
LEMMA RowsAre ==
    ASSUME NEW es \in SUBSET Elements, Separate(es), NEW at \in SUBSET WayTo(es)
    PROVE  Rows(TreeOf(es), at) = RowsOf(es, at)
<1>1. ASSUME NEW p \in at
      PROVE  /\ NodeHash(TreeOf(es), Left(p)) = HashesOf(es)[Left(p)]
             /\ NodeHash(TreeOf(es), Right(p)) = HashesOf(es)[Right(p)]
             /\ TreeOf(es)[p].hash = HashesOf(es)[p]
  <2>1. p \in Inner /\ p \in Places /\ Under(es, p) # {}
    BY DEF WayTo, Inner
  <2>2. Left(p) \in Places /\ Right(p) \in Places
    BY <2>1, PlaceFacts
  <2>3. TreeOf(es)[p] = [kind |-> "parent", hash |-> HashesOf(es)[p], dirty |-> FALSE]
    BY <2>1 DEF TreeOf, Parent
  <2> QED BY <2>2, <2>3, NodeHashOf
<1> QED BY <1>1, Zenon DEF Rows, RowsOf, RowAt

\* The nodes in memory that are neither empty nor a leaf are on the way to elements.
LEMMA ParentsAre ==
    ASSUME NEW es \in SUBSET Elements
    PROVE  Parents(TreeOf(es)) = WayTo(es)
<1>1. ASSUME NEW p \in Places PROVE TreeOf(es)[p].kind = "parent" <=> p \in Inner /\ Under(es, p) # {}
  <2>1. TreeOf(es)[p] = IF Under(es, p) = {} THEN Empty
                       ELSE IF p \in Inner THEN Parent(HashesOf(es)[p], FALSE)
                       ELSE Leaf(CHOOSE e \in Under(es, p) : TRUE)
    BY DEF TreeOf
  <2>2. /\ Empty.kind = "empty" /\ Parent(HashesOf(es)[p], FALSE).kind = "parent"
        /\ \A e : Leaf(e).kind = "leaf"
    BY DEF Empty, Parent, Leaf
  <2> QED BY <2>1, <2>2
<1> QED BY <1>1 DEF Parents, WayTo, Inner

\* The rows hold hashes of what they are rows of.
LEMMA RowsOfTrue ==
    ASSUME NEW es \in SUBSET Elements, Separate(es), NEW at \in SUBSET Inner
    PROVE  RowsTrue(RowsOf(es, at))
<1>1. ASSUME NEW p \in at PROVE RowAt(es, p).result = <<RowAt(es, p).left, RowAt(es, p).right>>
  <2>1. HashesOf(es)[p] = <<HashesOf(es)[Left(p)], HashesOf(es)[Right(p)]>>
    BY HashAt DEF Inner
  <2> QED BY <2>1 DEF RowAt
<1> QED BY <1>1 DEF RowsOf, RowsTrue, HashMerge

\* The rows are those of the elements; obsolete ones are of pairs of leaves.
RowsExact(es, rows) ==
    /\ RowsOf(es, WayTo(es)) \subseteq rows
    /\ \A k \in rows \ RowsOf(es, WayTo(es)) : Len(k.left) < 2 /\ Len(k.right) < 2

\* The write of a batch keeps them so: by the injectivity of the hash what it
\* removes is a row of a node on the way to the batch only.
LEMMA RowsStep ==
    ASSUME NEW E, NEW es, NEW N, Fresh(E, es, N), NEW rows, RowsExact(E, rows)
    PROVE  RowsExact(N, {k \in rows : <<k.left, k.right>> \notin RemovedHashes(InsertNode(TreeOf(E), es))}
                          \cup RowsOf(N, WayTo(es)))
<1> DEFINE d == InsertNode(TreeOf(E), es)
           removed == RemovedHashes(d)
           new == {k \in rows : <<k.left, k.right>> \notin removed} \cup RowsOf(N, WayTo(es))
<1>1. /\ E \in SUBSET Elements /\ Separate(E) /\ N \in SUBSET Elements /\ Separate(N)
      /\ \A p \in Places : Under(N, p) = Under(E, p) \cup Under(es, p)
  <2>1. E \in SUBSET Elements /\ Separate(E)
    BY DEF Fresh
  <2>2. /\ N \in SUBSET Elements /\ Separate(N)
        /\ \A p \in Places : Under(N, p) = Under(E, p) \cup Under(es, p)
    BY FreshFacts
  <2> QED BY <2>1, <2>2
<1>2. /\ removed = {<<NodeHash(d, Left(p)), NodeHash(d, Right(p))>> : p \in WayTo(es)}
      /\ \A p \in Inner : NodeHash(d, p) = HashesOf(E)[p]
      /\ \A p \in Places \ Inner : NodeHash(d, p) = HashesOf(N)[p]
  BY DirtyIs DEF RemovedHashes
<1> HIDE DEF d, removed
<1>3. ASSUME NEW p \in Inner
      PROVE  /\ p \in Places /\ Left(p) \in Places /\ Right(p) \in Places
             /\ Left(p) \in Inner <=> Right(p) \in Inner
             /\ HashesOf(E)[p] = <<HashesOf(E)[Left(p)], HashesOf(E)[Right(p)]>>
             /\ HashesOf(N)[p] = <<HashesOf(N)[Left(p)], HashesOf(N)[Right(p)]>>
  <2>1. p \in Places
    BY DEF Inner
  <2>2. /\ Left(p) \in Places /\ Right(p) \in Places
        /\ Len(Left(p)) = Len(p) + 1 /\ Len(Right(p)) = Len(p) + 1
    BY <2>1, PlaceFacts
  <2>3. Left(p) \in Inner <=> Right(p) \in Inner
    BY <2>2 DEF Inner
  <2> QED BY <1>1, <2>1, <2>2, <2>3, HashAt
\* Away from the batch a node has the row that it had, which is not removed.
<1>4. ASSUME NEW p \in WayTo(N), p \notin WayTo(es)
      PROVE  p \in WayTo(E) /\ RowAt(N, p) = RowAt(E, p)
  <2>1. p \in Inner /\ p \in Places /\ Under(N, p) # {}
    BY DEF WayTo, Inner
  <2>2. Under(es, p) = {}
    BY <1>4, <2>1 DEF WayTo
  <2>3. Under(es, Left(p)) = {} /\ Under(es, Right(p)) = {}
    BY <2>1, <2>2, UnderChildren DEF Fresh
  <2>4. Under(E, p) # {}
    BY <1>1, <2>1, <2>2
  <2>5. /\ HashesOf(E)[p] = HashesOf(N)[p]
        /\ HashesOf(E)[Left(p)] = HashesOf(N)[Left(p)]
        /\ HashesOf(E)[Right(p)] = HashesOf(N)[Right(p)]
    BY <1>3, <2>1, <2>2, <2>3, HashAfter
  <2> QED BY <2>1, <2>4, <2>5 DEF WayTo, RowAt
<1>5. ASSUME NEW p \in WayTo(N), p \notin WayTo(es), NEW q \in WayTo(es)
      PROVE  <<HashesOf(N)[Left(p)], HashesOf(N)[Right(p)]>> # <<NodeHash(d, Left(q)), NodeHash(d, Right(q))>>
  <2> SUFFICES ASSUME <<HashesOf(N)[Left(p)], HashesOf(N)[Right(p)]>>
                        = <<NodeHash(d, Left(q)), NodeHash(d, Right(q))>>
               PROVE  FALSE
    OBVIOUS
  <2>1. p \in Inner /\ q \in Inner /\ Under(N, p) # {}
    BY DEF WayTo
  <2>2. p \in WayTo(E) /\ RowAt(N, p) = RowAt(E, p)
    BY <1>4, <1>5
  <2>3. HashesOf(N)[Left(p)] = HashesOf(E)[Left(p)] /\ HashesOf(N)[Right(p)] = HashesOf(E)[Right(p)]
    BY <2>2 DEF RowAt
  <2>4. Under(E, p) # {}
    BY <2>2 DEF WayTo
  <2>5. CASE Left(q) \in Inner
    <3>1. NodeHash(d, Left(q)) = HashesOf(E)[Left(q)] /\ NodeHash(d, Right(q)) = HashesOf(E)[Right(q)]
      BY <1>2, <1>3, <2>1, <2>5
    <3>2. <<HashesOf(E)[Left(p)], HashesOf(E)[Right(p)]>> = <<HashesOf(E)[Left(q)], HashesOf(E)[Right(q)]>>
      BY <2>3, <3>1
    <3>3. HashesOf(E)[p] = HashesOf(E)[q]
      BY <1>3, <2>1, <3>2
    <3> QED BY <1>1, <1>3, <1>5, <2>1, <2>4, <3>3, OnePlace
  <2>6. CASE Left(q) \notin Inner
    <3>1. HashesOf(N)[p] = HashesOf(N)[q]
      BY <1>2, <1>3, <2>1, <2>6
    <3> QED BY <1>1, <1>3, <1>5, <2>1, <3>1, OnePlace
  <2> QED BY <2>5, <2>6
<1>6. RowsOf(N, WayTo(N)) \subseteq new
  <2> SUFFICES ASSUME NEW p \in WayTo(N) PROVE RowAt(N, p) \in new
    BY DEF RowsOf
  <2>1. CASE p \in WayTo(es)
    BY <2>1 DEF RowsOf
  <2>2. CASE p \notin WayTo(es)
    <3>1. RowAt(N, p) \in rows
      BY <1>4, <2>2 DEF RowsExact, RowsOf
    <3>2. <<HashesOf(N)[Left(p)], HashesOf(N)[Right(p)]>> \notin removed
      BY <1>2, <1>5, <2>2
    <3>3. RowAt(N, p).left = HashesOf(N)[Left(p)] /\ RowAt(N, p).right = HashesOf(N)[Right(p)]
      BY DEF RowAt
    <3> QED BY <3>1, <3>2, <3>3
  <2> QED BY <2>1, <2>2
<1>7. WayTo(es) \subseteq WayTo(N) /\ WayTo(E) \subseteq WayTo(N)
  BY <1>1 DEF WayTo, Inner
<1>8. ASSUME NEW k \in new, k \notin RowsOf(N, WayTo(N)) PROVE Len(k.left) < 2 /\ Len(k.right) < 2
  <2>1. k \notin RowsOf(N, WayTo(es))
    BY <1>7, <1>8 DEF RowsOf
  <2>2. k \in rows /\ <<k.left, k.right>> \notin removed
    BY <2>1
  <2>3. CASE k \notin RowsOf(E, WayTo(E))
    BY <2>2, <2>3 DEF RowsExact
  <2>4. CASE k \in RowsOf(E, WayTo(E))
    <3>1. PICK p \in WayTo(E) : k = RowAt(E, p)
      BY <2>4 DEF RowsOf
    <3>2. p \in WayTo(N) /\ p \in Inner
      BY <1>7 DEF WayTo
    <3>3. p \in WayTo(es)
      <4> SUFFICES ASSUME p \notin WayTo(es) PROVE FALSE
        OBVIOUS
      <4>1. RowAt(N, p) = k
        BY <1>4, <3>1, <3>2
      <4> QED BY <1>8, <3>2, <4>1 DEF RowsOf
    <3>4. k.left = HashesOf(E)[Left(p)] /\ k.right = HashesOf(E)[Right(p)]
      BY <3>1 DEF RowAt
    <3>5. Left(p) \notin Inner /\ Right(p) \notin Inner
      <4> SUFFICES ASSUME Left(p) \in Inner PROVE FALSE
        BY <1>3, <3>2
      <4>1. NodeHash(d, Left(p)) = k.left /\ NodeHash(d, Right(p)) = k.right
        BY <1>2, <1>3, <3>2, <3>4
      <4>2. <<NodeHash(d, Left(p)), NodeHash(d, Right(p))>> \in removed
        BY <1>2, <3>3
      <4> QED BY <2>2, <4>1, <4>2
    <3>6. ASSUME NEW q \in Places, q \notin Inner PROVE Len(HashesOf(E)[q]) < 2
      <4>1. HashesOf(E)[q] = <<>> \/ \E e : HashesOf(E)[q] = <<e>>
        BY <1>1, <3>6, HashAt
      <4>2. Len(<<>>) = 0 /\ \A e : Len(<<e>>) = 1
        OBVIOUS
      <4>3. Len(HashesOf(E)[q]) = 0 \/ Len(HashesOf(E)[q]) = 1
        BY <4>1, <4>2
      <4>4. \A n : n = 0 \/ n = 1 => n < 2
        OBVIOUS
      <4> QED BY ONLY <4>3, <4>4
    <3> QED BY <1>3, <3>2, <3>4, <3>5, <3>6
  <2> QED BY <2>3, <2>4
<1> QED BY <1>6, <1>8 DEF RowsExact, d, removed

-----------------------------------------------------------------------------
(* The nodes in memory are the tree of the elements, and the known hashes  *)
(* are hashes; a failed write leaves a subset in the database.             *)
SmirkInv ==
    /\ nodes = TreeOf(entries)
    /\ entries \in SUBSET Elements /\ Separate(entries)
    /\ stored \subseteq entries
    /\ RowsTrue(initial) /\ RowsTrue(known)
    /\ fails \in Nat
    /\ fails = 0 => stored = entries /\ RowsExact(entries, known)

\* An empty tree and an empty database.
LEMMA SmirkInitInv == SmirkInit => SmirkInv
<1> SUFFICES ASSUME SmirkInit PROVE SmirkInv
  OBVIOUS
<1>1. /\ nodes = EmptyTree /\ entries = {} /\ initial = {}
      /\ stored = {} /\ known = {} /\ fails = 0
  BY DEF SmirkInit
<1>2. WayTo({}) = {}
  BY DEF WayTo, Under
<1>3. RowsExact({}, {})
  BY <1>2 DEF RowsExact, RowsOf
<1>4. Separate({}) /\ RowsTrue({})
  BY DEF Separate, RowsTrue
<1> QED BY <1>1, <1>3, <1>4, EmptyTreeIs DEF SmirkInv

\* insert_batch, whether or not the write fails.
LEMMA InsertBatchStep ==
    ASSUME SmirkInv, NEW es \in Batches, NEW ok \in BOOLEAN, InsertBatch(es, ok)
    PROVE  SmirkInv'
<1> DEFINE N == entries \cup es
           dirty == InsertNode(nodes, es)
           new == Recalculate(dirty, initial)
<1>1. es \in SUBSET Elements /\ Separate(es) /\ ~ Collides(es, entries)
  BY DEF Batches, kSubset, InsertBatch
<1>2. Fresh(entries, es, N)
  BY <1>1 DEF Fresh, SmirkInv
<1> HIDE DEF N
<1>3. N \in SUBSET Elements /\ Separate(N)
  BY <1>2, FreshFacts
<1>4. nodes = TreeOf(entries) /\ new = TreeOf(N)
  BY <1>2, RecalculateIs DEF SmirkInv
<1>5. nodes' = TreeOf(N) /\ entries' = N /\ initial' = initial
  BY <1>4 DEF InsertBatch, N
<1>6. WayTo(es) \subseteq WayTo(N) /\ WayTo(es) \subseteq Inner
  BY DEF WayTo, Under, N
<1>7. SetHashes(new, dirty) = RowsOf(N, WayTo(es))
  <2>1. Visited(dirty) = WayTo(es)
    BY <1>2, <1>4, DirtyIs
  <2> QED BY <1>3, <1>4, <1>6, <2>1, RowsAre DEF SetHashes
<1>8. CASE ok
  <2>1. /\ known' = {k \in known : <<k.left, k.right>> \notin RemovedHashes(dirty)} \cup RowsOf(N, WayTo(es))
        /\ stored' = stored \cup es /\ fails' = fails
    BY <1>7, <1>8 DEF InsertBatch
  <2>2. RowsTrue(known')
    <3>1. RowsTrue(known) /\ RowsTrue(RowsOf(N, WayTo(es)))
      BY <1>3, <1>6, RowsOfTrue DEF SmirkInv
    <3> QED BY <2>1, <3>1 DEF RowsTrue
  <2>3. stored' \subseteq N /\ (stored = entries => stored' = N)
    BY <2>1 DEF SmirkInv, N
  <2>4. fails = 0 => RowsExact(N, known')
    BY <1>2, <1>4, <2>1, RowsStep DEF SmirkInv
  <2> HIDE DEF dirty, new
  <2> QED BY <1>3, <1>5, <2>1, <2>2, <2>3, <2>4 DEF SmirkInv
<1>9. CASE ~ ok
  <2>1. fails' = fails + 1 /\ stored' = stored /\ known' = known
    BY <1>9 DEF InsertBatch
  <2>2. fails' \in Nat /\ fails' # 0 /\ stored' \subseteq N
    BY <2>1 DEF SmirkInv, N
  <2> QED BY <1>3, <1>5, <2>1, <2>2 DEF SmirkInv
<1> QED BY <1>8, <1>9

\* persist_hashes adds rows of the tree.
LEMMA PersistStep ==
    ASSUME SmirkInv, PersistHashes
    PROVE  SmirkInv'
<1>1. KnownHashes(nodes) = RowsOf(entries, WayTo(entries))
  <2>1. Parents(nodes) = WayTo(entries)
    BY ParentsAre DEF SmirkInv
  <2> QED BY <2>1, RowsAre DEF SmirkInv, KnownHashes
<1>2. RowsTrue(RowsOf(entries, WayTo(entries)))
  <2>1. WayTo(entries) \in SUBSET Inner
    BY DEF WayTo
  <2> QED BY <2>1, RowsOfTrue DEF SmirkInv
<1>3. /\ known' = known \cup RowsOf(entries, WayTo(entries))
      /\ UNCHANGED <<nodes, entries, initial, stored, fails>>
  BY <1>1 DEF PersistHashes
<1>4. RowsTrue(known')
  BY <1>2, <1>3 DEF SmirkInv, RowsTrue
<1>5. RowsExact(entries, known) => RowsExact(entries, known')
  BY <1>3 DEF RowsExact
<1> QED BY <1>3, <1>4, <1>5 DEF SmirkInv

\* load_tree rebuilds the tree of what is stored.
LEMMA LoadStep ==
    ASSUME SmirkInv, Load
    PROVE  SmirkInv'
<1>1. stored \in SUBSET Elements /\ Separate(stored)
  BY DEF SmirkInv, Separate
<1>2. Fresh({}, stored, stored)
  BY <1>1 DEF Fresh, Separate, Collides
<1>3. nodes' = TreeOf(stored)
  BY <1>2, EmptyTreeIs, RecalculateIs DEF SmirkInv, Load
<1> QED BY <1>1, <1>3 DEF SmirkInv, Load

\* Every step preserves the invariant.
LEMMA SmirkStep ==
    ASSUME SmirkInv, [SmirkNext]_smirkVars
    PROVE  SmirkInv'
<1>1. CASE \E es \in Batches, ok \in BOOLEAN : InsertBatch(es, ok)
  BY <1>1, InsertBatchStep
<1>2. CASE PersistHashes
  BY <1>2, PersistStep
<1>3. CASE Load
  BY <1>3, LoadStep
<1>4. CASE UNCHANGED smirkVars
  BY <1>4 DEF smirkVars, SmirkInv
<1> QED BY <1>1, <1>2, <1>3, <1>4 DEF SmirkNext

(* The root in memory and the root of a proposal are those of the elements. *)
THEOREM RootsCanonicalHolds == SmirkSpec => []RootsCanonical
<1>1. ASSUME SmirkInv PROVE RootsCanonical
  <2>1. NodeHash(nodes, <<>>) = RootOf(entries)
    BY <1>1, NodeHashOf, RootPlace DEF SmirkInv, RootOf
  <2>2. ASSUME NEW es \in Batches, ~ Collides(es, entries)
        PROVE  RootHashWith(nodes, es, initial) = RootOf(entries \cup es)
    <3>1. es \in SUBSET Elements /\ Separate(es)
      BY DEF Batches, kSubset
    <3>2. Fresh(entries, es, entries \cup es)
      BY <1>1, <2>2, <3>1 DEF Fresh, SmirkInv
    <3> QED BY <1>1, <3>2, RootHashWithIs DEF SmirkInv
  <2> QED BY <2>1, <2>2 DEF RootsCanonical
<1> QED BY <1>1, SmirkInitInv, SmirkStep, PTL DEF SmirkSpec

(* The paths prove what the tree has.                                      *)
THEOREM PathsProveHolds == SmirkSpec => []PathsProve
<1>1. ASSUME SmirkInv PROVE PathsProve
  <2> SUFFICES ASSUME NEW e \in Elements
               PROVE  LET there == {<<x>> : x \in {x \in entries : Lsb(x) = Lsb(e)}}
                          leaf == IF there = {} THEN <<>> ELSE CHOOSE x \in there : TRUE
                          given == MerklePathsForNotes({e})
                      IN  /\ ComputeRootHash(leaf, PathFor(nodes, e), e) = NodeHash(nodes, <<>>)
                          /\ \A x \in DOMAIN given.paths :
                                 ComputeRootHash(<<x>>, given.paths[x], x) = given.root
    BY DEF PathsProve
  <2> DEFINE there == {<<x>> : x \in {x \in entries : Lsb(x) = Lsb(e)}}
             leaf == IF there = {} THEN <<>> ELSE CHOOSE x \in there : TRUE
             given == MerklePathsForNotes({e})
  <2>1. nodes = TreeOf(entries) /\ entries \in SUBSET Elements /\ Separate(entries)
    BY <1>1 DEF SmirkInv
  <2>2. NodeHash(nodes, <<>>) = RootOf(entries)
    BY <2>1, NodeHashOf, RootPlace DEF RootOf
  <2>3. Lsb(e) \in Places /\ Lsb(e) \notin Inner
    BY LsbIs, PlaceFacts
  <2>4. ASSUME NEW x \in entries, Lsb(x) = Lsb(e) PROVE HashesOf(entries)[Lsb(e)] = <<x>>
    <3>1. x \in Under(entries, Lsb(e))
      BY <2>1, <2>3, <2>4, UnderLeaf DEF Under
    <3> QED BY <2>1, <2>3, <3>1, HashAt
  <2>5. leaf = HashesOf(entries)[Lsb(e)]
    <3>1. CASE there = {}
      <4>1. \A x \in entries : Lsb(x) # Lsb(e)
        BY <3>1
      <4>2. Under(entries, Lsb(e)) = {}
        BY <2>1, <2>3, <4>1, UnderLeaf DEF Under
      <4> QED BY <2>1, <2>3, <3>1, <4>2, HashAt
    <3>2. CASE there # {}
      <4>1. leaf \in there
        BY <3>2
      <4>2. \A y \in there : y = HashesOf(entries)[Lsb(e)]
        BY <2>4
      <4> QED BY <4>1, <4>2
    <3> QED BY <3>1, <3>2
  <2>6. ComputeRootHash(leaf, PathFor(nodes, e), e) = NodeHash(nodes, <<>>)
    <3> HIDE DEF leaf, there
    <3> QED BY <2>1, <2>2, <2>5, ProvesRoot
  <2>7. ASSUME NEW x \in DOMAIN given.paths PROVE ComputeRootHash(<<x>>, given.paths[x], x) = given.root
    <3>1. /\ given.root = NodeHash(nodes, <<>>)
          /\ given.paths = [y \in {e} \cap entries |-> PathFor(nodes, y)]
      BY DEF MerklePathsForNotes, MerklePaths
    <3>2. x = e /\ x \in entries /\ given.paths[x] = PathFor(nodes, e)
      BY <2>7, <3>1
    <3>3. HashesOf(entries)[Lsb(e)] = <<x>>
      BY <2>4, <3>2
    <3>4. ComputeRootHash(<<x>>, PathFor(nodes, e), e) = RootOf(entries)
      BY <2>1, <3>3, ProvesRoot
    <3> HIDE DEF given
    <3> QED BY <2>2, <3>1, <3>2, <3>4
  <2> QED BY <2>6, <2>7
<1> QED BY <1>1, SmirkInitInv, SmirkStep, PTL DEF SmirkSpec

(* The database holds the elements and the hashes of the tree.             *)
THEOREM DatabaseExactHolds == SmirkSpec => []DatabaseExact
<1>1. ASSUME SmirkInv PROVE DatabaseExact
  <2>1. KnownHashes(nodes) = RowsOf(entries, WayTo(entries))
    <3>1. Parents(nodes) = WayTo(entries)
      BY <1>1, ParentsAre DEF SmirkInv
    <3> QED BY <1>1, <3>1, RowsAre DEF SmirkInv, KnownHashes
  <2> QED BY <1>1, <2>1 DEF SmirkInv, DatabaseExact, RowsExact
<1> QED BY <1>1, SmirkInitInv, SmirkStep, PTL DEF SmirkSpec

-----------------------------------------------------------------------------
(* Chips: the field.                                                       *)

\* A quotient and a remainder determine the number.
LEMMA Residue ==
    ASSUME NEW a \in Int, NEW q \in Int, NEW r \in F, a = q * P + r
    PROVE  a % P = r
<1>1. P \in Nat \ {0} /\ r \in 0 .. P - 1
  BY ChipsAssumption DEF F
<1> DEFINE d == a \div P
           s == a % P
<1>2. d \in Int /\ s \in 0 .. P - 1 /\ a = d * P + s
  BY <1>1
<1> HIDE DEF d, s
<1>3. ~ (d < q)
  <2> SUFFICES ASSUME d < q PROVE FALSE
    OBVIOUS
  <2> DEFINE e == q - d - 1
  <2>1. e \in Nat /\ q = d + 1 + e
    BY <1>2
  <2> HIDE DEF e
  <2>2. e * P \in Nat
    BY <1>1, <2>1
  <2>3. q * P = d * P + P + e * P
    BY <1>1, <1>2, <2>1
  <2> DEFINE x == d * P
             y == e * P
             z == q * P
  <2>4. x \in Int /\ z \in Int
    BY <1>1, <1>2
  <2> HIDE DEF x, y, z
  <2>5. z = x + P + y /\ a = x + s /\ a = z + r /\ y \in Nat
    BY <1>2, <2>2, <2>3 DEF x, y, z
  <2> QED BY <1>1, <1>2, <2>4, <2>5
<1>4. ~ (q < d)
  <2> SUFFICES ASSUME q < d PROVE FALSE
    OBVIOUS
  <2> DEFINE e == d - q - 1
  <2>1. e \in Nat /\ d = q + 1 + e
    BY <1>2
  <2> HIDE DEF e
  <2>2. e * P \in Nat
    BY <1>1, <2>1
  <2>3. d * P = q * P + P + e * P
    BY <1>1, <1>2, <2>1
  <2> DEFINE x == d * P
             y == e * P
             z == q * P
  <2>4. x \in Int /\ z \in Int
    BY <1>1, <1>2
  <2> HIDE DEF x, y, z
  <2>5. x = z + P + y /\ a = x + s /\ a = z + r /\ y \in Nat
    BY <1>2, <2>2, <2>3 DEF x, y, z
  <2> QED BY <1>1, <1>2, <2>4, <2>5
<1>5. d = q
  BY <1>2, <1>3, <1>4
<1> DEFINE x == q * P
<1>6. x \in Int /\ a = x + s /\ a = x + r
  BY <1>1, <1>2, <1>5
<1> HIDE DEF x
<1>7. s = r
  BY <1>1, <1>2, <1>6
<1> QED BY <1>7 DEF s

\* Every number has a quotient and a remainder.
LEMMA Quotient ==
    ASSUME NEW a \in Int
    PROVE  a % P \in F /\ \E q \in Int : a = q * P + (a % P)
<1>1. P \in Nat \ {0}
  BY ChipsAssumption
<1> DEFINE d == a \div P
<1>2. d \in Int /\ a % P \in 0 .. P - 1 /\ a = d * P + (a % P)
  BY <1>1
<1> HIDE DEF d
<1> QED BY <1>2 DEF F

\* The operations of the field stay in it.
LEMMA FieldClosed ==
    ASSUME NEW a \in F, NEW b \in F
    PROVE  Plus(a, b) \in F /\ Minus(a, b) \in F /\ Times(a, b) \in F
<1>1. P \in Nat \ {0} /\ a \in 0 .. P - 1 /\ b \in 0 .. P - 1
  BY ChipsAssumption DEF F
<1>2. a + b \in Int /\ a + P - b \in Int /\ a * b \in Int
  BY <1>1
<1>3. (a + b) % P \in F /\ (a + P - b) % P \in F /\ (a * b) % P \in F
  BY <1>2, Quotient
<1> QED BY <1>3 DEF Plus, Minus, Times

\* Zero and one in the field.
LEMMA Units ==
    ASSUME NEW a \in F
    PROVE  /\ 0 \in F /\ 1 \in F
           /\ Times(0, a) = 0 /\ Times(a, 0) = 0 /\ Times(1, a) = a /\ Times(a, 1) = a
           /\ Plus(a, 0) = a /\ Plus(0, a) = a /\ Minus(a, 0) = a /\ Minus(a, a) = 0
<1>1. P \in Nat /\ P >= 2 /\ a \in 0 .. P - 1
  BY ChipsAssumption DEF F
<1>2. 0 \in F /\ 1 \in F
  BY <1>1 DEF F
<1>3. 0 * a = 0 /\ a * 0 = 0 /\ 1 * a = a /\ a * 1 = a /\ a + 0 = a /\ 0 + a = a
  BY <1>1
<1>4. 0 % P = 0 /\ a % P = a
  <2>1. 0 \in Int /\ 0 = 0 * P + 0 /\ a \in Int /\ a = 0 * P + a
    BY <1>1
  <2> QED BY <1>2, <2>1, Residue
<1>5. (a + P - 0) % P = a
  <2>1. a + P - 0 \in Int /\ a + P - 0 = 1 * P + a
    BY <1>1
  <2> QED BY <2>1, Residue
<1>6. (a + P - a) % P = 0
  <2>1. a + P - a \in Int /\ a + P - a = 1 * P + 0
    BY <1>1
  <2> QED BY <1>2, <2>1, Residue
<1> QED BY <1>2, <1>3, <1>4, <1>5, <1>6 DEF Plus, Minus, Times

\* Only equal elements have the difference zero.
LEMMA Difference ==
    ASSUME NEW a \in F, NEW b \in F
    PROVE  Minus(a, b) = 0 <=> a = b
<1>1. P \in Nat \ {0} /\ a \in 0 .. P - 1 /\ b \in 0 .. P - 1
  BY ChipsAssumption DEF F
<1>2. CASE b <= a
  <2>1. a - b \in F /\ a + P - b \in Int /\ a + P - b = 1 * P + (a - b)
    BY <1>1, <1>2 DEF F
  <2>2. Minus(a, b) = a - b
    BY <2>1, Residue DEF Minus
  <2> QED BY <1>1, <2>2
<1>3. CASE a < b
  <2>1. a + P - b \in F /\ a + P - b \in Int /\ a + P - b = 0 * P + (a + P - b)
    BY <1>1, <1>3 DEF F
  <2>2. Minus(a, b) = a + P - b
    BY <2>1, Residue DEF Minus
  <2> QED BY <1>1, <1>3, <2>2
<1> QED BY <1>1, <1>2, <1>3

\* The step of Euclid's algorithm on the multiples of an element: what the
\* modulus leaves over a multiple is itself a multiple.
LEMMA EuclidStep ==
    ASSUME NEW a \in F, NEW i \in F, NEW m \in F \ {0}, Times(a, i) = m
    PROVE  \E j \in F : Times(a, j) = P % m
<1>1. P \in Nat \ {0} /\ a \in Int /\ i \in Int /\ m \in 1 .. P - 1
  BY ChipsAssumption DEF F
<1>2. PICK k \in Int : a * i = k * P + m
  <2>1. a * i \in Int
    BY <1>1
  <2> QED BY <2>1, Quotient DEF Times
<1> DEFINE q == P \div m
           r == P % m
<1>3. q \in Int /\ r \in 0 .. m - 1 /\ P = q * m + r
  BY <1>1
<1> HIDE DEF q, r
<1> DEFINE j == (0 - q * i) % P
<1>4. 0 - q * i \in Int
  BY <1>1, <1>3
<1>5. j \in F
  BY <1>4, Quotient
<1>6. PICK t \in Int : 0 - q * i = t * P + j
  BY <1>4, Quotient
<1> HIDE DEF j
<1>7. j \in Int
  BY <1>5 DEF F
<1> DEFINE u == 0 - (1 + q * k + a * t)
<1>8. u \in Int
  BY <1>1, <1>2, <1>3, <1>6
<1>9. a * j = u * P + r
  <2>1. a * (0 - q * i) = a * (t * P + j)
    BY <1>6
  <2>2. a * (0 - q * i) = 0 - q * (a * i)
    BY <1>1, <1>3
  <2>3. a * (t * P + j) = (a * t) * P + a * j
    BY <1>1, <1>6, <1>7
  <2>4. q * (a * i) = q * (k * P + m)
    BY <1>2
  <2>5. q * (k * P + m) = (q * k) * P + q * m
    BY <1>1, <1>2, <1>3
  <2>6. u * P = 0 - (P + (q * k) * P + (a * t) * P)
    BY <1>1, <1>2, <1>3, <1>6
  <2> DEFINE x == (a * t) * P
             y == (q * k) * P
             z == q * m
             w == a * j
             v == u * P
             g == q * (a * i)
  <2>7. x \in Int /\ y \in Int /\ z \in Int /\ w \in Int /\ v \in Int /\ g \in Int
    BY <1>1, <1>2, <1>3, <1>6, <1>7, <1>8
  <2>8. 0 - g = x + w /\ g = y + z /\ v = 0 - (P + y + x) /\ P = z + r
    BY <1>3, <2>1, <2>2, <2>3, <2>4, <2>5, <2>6
  <2> HIDE DEF x, y, z, w, v, g, u
  <2>9. w = v + r
    BY <1>1, <1>3, <2>7, <2>8
  <2> QED BY <2>9 DEF w, v
<1>10. a * j \in Int /\ r \in F
  BY <1>1, <1>3, <1>7 DEF F
<1> HIDE DEF u
<1>11. Times(a, j) = r
  BY <1>8, <1>9, <1>10, Residue DEF Times
<1> QED BY <1>5, <1>11 DEF r

\* Every element but zero has an inverse.
LEMMA InverseExists ==
    ASSUME NEW a \in F \ {0}
    PROVE  \E i \in F : Times(a, i) = 1
<1> DEFINE T == {m \in F \ {0} : \E i \in F : Times(a, i) = m}
<1>1. a \in T
  BY Units
<1>2. PICK m \in T : \A n \in T : m <= n
  <2>1. T \subseteq Nat
    BY ChipsAssumption DEF F
  <2> HIDE DEF T
  <2> QED BY <1>1, <2>1, LeastExists
<1>3. m \in F \ {0} /\ \E i \in F : Times(a, i) = m
  BY <1>2
<1>4. PICK j \in F : Times(a, j) = P % m
  BY <1>3, EuclidStep
<1>5. P \in Nat \ {0} /\ m \in 1 .. P - 1
  BY <1>3, ChipsAssumption DEF F
<1>6. P % m \in 0 .. m - 1
  BY <1>5
<1>7. m = 1
  <2> SUFFICES ASSUME m # 1 PROVE FALSE
    OBVIOUS
  <2>1. m \in 2 .. P - 1
    BY <1>5
  <2>2. P % m # 0
    BY <2>1, FieldAssumption
  <2> DEFINE r == P % m
  <2>3. r \in F \ {0}
    BY <1>5, <1>6, <2>2 DEF F
  <2>4. r \in T
    BY <1>4, <2>3
  <2> HIDE DEF T
  <2>5. m <= r
    BY <1>2, <2>4
  <2> HIDE DEF r
  <2>6. r \in 0 .. m - 1
    BY <1>6 DEF r
  <2> QED BY <1>5, <2>5, <2>6
<1> QED BY <1>3, <1>7

\* A product is zero only when a factor is.
LEMMA NoZeroDivisors ==
    ASSUME NEW a \in F, NEW b \in F, Times(a, b) = 0
    PROVE  a = 0 \/ b = 0
<1> SUFFICES ASSUME a # 0 PROVE b = 0
  OBVIOUS
<1>1. PICK i \in F : Times(a, i) = 1
  BY InverseExists
<1>2. P \in Nat \ {0} /\ a \in Int /\ b \in Int /\ i \in Int
  BY ChipsAssumption DEF F
<1>3. a * i \in Int /\ a * b \in Int
  BY <1>2
<1>4. PICK k \in Int : a * i = k * P + 1
  BY <1>1, <1>3, Quotient DEF Times
<1>5. PICK l \in Int : a * b = l * P + 0
  BY <1>3, Quotient DEF Times
<1> DEFINE q == i * l - b * k
<1>6. q \in Int
  BY <1>2, <1>4, <1>5
<1>7. b = q * P + 0
  <2>1. b * (a * i) = b * (k * P + 1)
    BY <1>4
  <2>2. b * (k * P + 1) = (b * k) * P + b
    BY <1>2, <1>4
  <2>3. i * (a * b) = i * (l * P + 0)
    BY <1>5
  <2>4. i * (l * P + 0) = (i * l) * P
    BY <1>2, <1>5
  <2>5. i * (a * b) = b * (a * i)
    BY <1>2
  <2>6. q * P = (i * l) * P - (b * k) * P
    BY <1>2, <1>4, <1>5
  <2> DEFINE x == (b * k) * P
             y == (i * l) * P
             z == q * P
  <2>7. x \in Int /\ y \in Int /\ z \in Int
    BY <1>2, <1>4, <1>5, <1>6
  <2>8. x + b = y /\ z = y - x
    BY <2>1, <2>2, <2>3, <2>4, <2>5, <2>6
  <2> HIDE DEF x, y, z, q
  <2>9. b = z + 0
    BY <1>2, <2>7, <2>8
  <2> QED BY <2>9 DEF z
<1>8. 0 \in F
  BY Units
<1> HIDE DEF q
<1>9. b % P = 0
  BY <1>2, <1>6, <1>7, <1>8, Residue
<1>10. b % P = b
  <2>1. 1 * b = b
    BY <1>2
  <2> QED BY <2>1, Units DEF Times
<1> QED BY <1>9, <1>10

\* A cell that passes the range check is a bit.
LEMMA BitChecked ==
    ASSUME NEW w \in F
    PROVE  RangeCheck(w) <=> w \in {0, 1}
<1>1. 0 \in F /\ 1 \in F /\ Minus(1, w) \in F
  BY Units, FieldClosed
<1>2. ASSUME RangeCheck(w) PROVE w \in {0, 1}
  <2>1. w = 0 \/ Minus(1, w) = 0
    BY <1>1, <1>2, NoZeroDivisors DEF RangeCheck
  <2> QED BY <1>1, <2>1, Difference
<1>3. ASSUME w \in {0, 1} PROVE RangeCheck(w)
  <2>1. CASE w = 0
    BY <1>1, <2>1, Units DEF RangeCheck
  <2>2. CASE w = 1
    <3>1. Minus(1, w) = 0
      BY <1>1, <2>2, Difference
    <3> QED BY <1>1, <3>1, Units DEF RangeCheck
  <2> QED BY <1>3, <2>1, <2>2
<1> QED BY <1>2, <1>3

-----------------------------------------------------------------------------
(* Chips: recursive definitions over the rows of a chip.                   *)

RestsOf(rest, value) ==
    rest = [i \in 0 .. Bits |-> IF i = 0 THEN value ELSE rest[i - 1] \div 2]

\* The rests that decompose_word shifts: the word's bits are their parities.
LEMMA DecomposeIs ==
    ASSUME NEW value \in Nat
    PROVE  \E rest \in [0 .. Bits -> Nat] :
              /\ rest[0] = value /\ \A i \in 1 .. Bits : rest[i] = rest[i - 1] \div 2
              /\ DecomposeWord(value) = [i \in 1 .. Bits |-> rest[i - 1] % 2]
<1> USE ChipsAssumption
<1> DEFINE g == [x \in (1 .. Bits) \X Nat |-> x[2] \div 2]
<1>1. \A i \in 1 .. Bits : \A t \in Nat : g[<<i, t>>] = t \div 2 /\ g[<<i, t>>] \in Nat
  <2> SUFFICES ASSUME NEW i \in 1 .. Bits, NEW t \in Nat
               PROVE  g[<<i, t>>] = t \div 2 /\ g[<<i, t>>] \in Nat
    OBVIOUS
  <2>1. g[<<i, t>>] = t \div 2
    OBVIOUS
  <2>2. t \div 2 \in Nat
    OBVIOUS
  <2> HIDE DEF g
  <2> QED BY <2>1, <2>2
<1> HIDE DEF g
<1>2. \E w \in [0 .. Bits -> Nat] : w[0] = value /\ \A i \in 1 .. Bits : w[i] = g[<<i, w[i - 1]>>]
  <2>1. RowStep(Bits, Nat, g) /\ Bits \in Nat /\ value \in Nat
    BY <1>1 DEF RowStep
  <2>2. \E w : FromFirst(Bits, Nat, value, g, w)
    BY <2>1, RowsUp
  <2> QED BY <2>2 DEF FromFirst
<1>3. \E w : RestsOf(w, value)
  <2>1. PICK w \in [0 .. Bits -> Nat] : w[0] = value /\ \A i \in 1 .. Bits : w[i] = g[<<i, w[i - 1]>>]
    BY <1>2
  <2>2. ASSUME NEW i \in 0 .. Bits PROVE w[i] = IF i = 0 THEN value ELSE w[i - 1] \div 2
    <3>1. CASE i = 0
      BY <2>1, <3>1
    <3>2. CASE i # 0
      <4>1. i \in 1 .. Bits /\ w[i - 1] \in Nat
        BY <2>1, <3>2
      <4> QED BY <1>1, <2>1, <3>2, <4>1
    <3> QED BY <3>1, <3>2
  <2>3. w = [i \in 0 .. Bits |-> w[i]]
    BY <2>1
  <2>4. RestsOf(w, value)
    BY <2>2, <2>3 DEF RestsOf
  <2> QED BY <2>4
<1> DEFINE rest == CHOOSE w : RestsOf(w, value)
<1>4. RestsOf(rest, value)
  BY <1>3
<1>5. DecomposeWord(value) = [i \in 1 .. Bits |-> rest[i - 1] % 2]
  BY DEF DecomposeWord, RestsOf
<1> HIDE DEF rest
<1>6. rest[0] = value /\ \A i \in 1 .. Bits : rest[i] = rest[i - 1] \div 2
  BY <1>4 DEF RestsOf
<1>7. rest \in [0 .. Bits -> Nat]
  <2> DEFINE Bad == {i \in 0 .. Bits : rest[i] \notin Nat}
  <2>1. Bad = {}
    <3> SUFFICES ASSUME Bad # {} PROVE FALSE
      OBVIOUS
    <3>1. PICK i \in Bad : \A j \in Bad : i <= j
      <4>1. Bad \subseteq Nat
        OBVIOUS
      <4> HIDE DEF Bad
      <4> QED BY <4>1, LeastExists
    <3>2. i \in 1 .. Bits /\ i - 1 \in 0 .. Bits
      BY <1>6
    <3>3. i - 1 \notin Bad
      <4> HIDE DEF Bad
      <4> QED BY <3>1, <3>2
    <3>4. rest[i - 1] \in Nat /\ rest[i] = rest[i - 1] \div 2
      BY <1>6, <3>2, <3>3
    <3>5. rest[i] \in Nat
      BY <3>4
    <3> QED BY <3>5
  <2>2. rest = [i \in 0 .. Bits |-> rest[i]]
    BY <1>4 DEF RestsOf
  <2>3. \A i \in 0 .. Bits : rest[i] \in Nat
    BY <2>1
  <2> QED BY <2>2, <2>3
<1> QED BY <1>5, <1>6, <1>7

IsNumbers(n, bits) ==
    n = [i \in 0 .. Bits |-> IF i = Bits THEN 0 ELSE bits[i + 1] + 2 * n[i + 1]]

\* The integers of a word's suffixes.
LEMMA NumbersAre ==
    ASSUME NEW bits, \A i \in 1 .. Bits : bits[i] \in {0, 1}
    PROVE  /\ Numbers(bits) \in [0 .. Bits -> Nat] /\ Numbers(bits)[Bits] = 0
           /\ \A i \in 1 .. Bits : Numbers(bits)[i - 1] = bits[i] + 2 * Numbers(bits)[i]
<1> USE ChipsAssumption
<1> DEFINE g == [x \in (1 .. Bits) \X Nat |-> bits[x[1]] + 2 * x[2]]
<1>1. \A i \in 1 .. Bits : \A t \in Nat : g[<<i, t>>] = bits[i] + 2 * t /\ g[<<i, t>>] \in Nat
  <2> SUFFICES ASSUME NEW i \in 1 .. Bits, NEW t \in Nat
               PROVE  g[<<i, t>>] = bits[i] + 2 * t /\ g[<<i, t>>] \in Nat
    OBVIOUS
  <2>1. g[<<i, t>>] = bits[i] + 2 * t
    OBVIOUS
  <2>2. bits[i] + 2 * t \in Nat
    OBVIOUS
  <2> HIDE DEF g
  <2> QED BY <2>1, <2>2
<1> HIDE DEF g
<1>2. PICK w \in [0 .. Bits -> Nat] : w[Bits] = 0 /\ \A i \in 1 .. Bits : w[i - 1] = g[<<i, w[i]>>]
  <2>1. RowStep(Bits, Nat, g) /\ Bits \in Nat /\ 0 \in Nat
    BY <1>1 DEF RowStep
  <2>2. \E w : FromLast(Bits, Nat, 0, g, w)
    BY <2>1, RowsDown
  <2> QED BY <2>2 DEF FromLast
<1>3. IsNumbers(w, bits)
  <2>1. ASSUME NEW i \in 0 .. Bits PROVE w[i] = IF i = Bits THEN 0 ELSE bits[i + 1] + 2 * w[i + 1]
    <3>1. CASE i = Bits
      BY <1>2, <3>1
    <3>2. CASE i # Bits
      <4>1. i + 1 \in 1 .. Bits /\ (i + 1) - 1 = i /\ w[i + 1] \in Nat
        BY <1>2, <3>2
      <4> QED BY <1>1, <1>2, <3>2, <4>1
    <3> QED BY <3>1, <3>2
  <2>2. w = [i \in 0 .. Bits |-> w[i]]
    BY <1>2
  <2> QED BY <2>1, <2>2 DEF IsNumbers
<1> DEFINE n == Numbers(bits)
<1>4. n = CHOOSE d : IsNumbers(d, bits)
  BY DEF Numbers, IsNumbers
<1>5. IsNumbers(n, bits)
  BY <1>3, <1>4
<1> HIDE DEF n
<1>6. n[Bits] = 0 /\ \A i \in 1 .. Bits : n[i - 1] = bits[i] + 2 * n[i]
  <2>1. n[Bits] = 0
    BY <1>5 DEF IsNumbers
  <2>2. ASSUME NEW i \in 1 .. Bits PROVE n[i - 1] = bits[i] + 2 * n[i]
    <3>1. i - 1 \in 0 .. Bits /\ i - 1 # Bits /\ (i - 1) + 1 = i
      OBVIOUS
    <3> QED BY <1>5, <3>1 DEF IsNumbers
  <2> QED BY <2>1, <2>2
<1>7. n \in [0 .. Bits -> Nat]
  <2> DEFINE Bad == {i \in 0 .. Bits : n[i] \notin Nat}
  <2>1. Bad = {}
    <3> SUFFICES ASSUME Bad # {} PROVE FALSE
      OBVIOUS
    <3>1. PICK i \in Bad : \A j \in Bad : j <= i
      <4>1. Bad \subseteq 0 .. Bits /\ Bits \in Nat
        OBVIOUS
      <4> HIDE DEF Bad
      <4> QED BY <4>1, GreatestExists
    <3>2. i + 1 \in 1 .. Bits /\ i + 1 \in 0 .. Bits /\ (i + 1) - 1 = i
      BY <1>6
    <3>3. i + 1 \notin Bad
      <4> HIDE DEF Bad
      <4> QED BY <3>1, <3>2
    <3>4. n[i + 1] \in Nat /\ n[i] = bits[i + 1] + 2 * n[i + 1] /\ bits[i + 1] \in {0, 1}
      BY <1>6, <3>2, <3>3
    <3>5. n[i] \in Nat
      BY <3>4
    <3> QED BY <3>5
  <2>2. n = [i \in 0 .. Bits |-> n[i]]
    BY <1>5 DEF IsNumbers
  <2>3. \A i \in 0 .. Bits : n[i] \in Nat
    BY <2>1
  <2> QED BY <2>2, <2>3
<1> QED BY <1>6, <1>7 DEF n

-----------------------------------------------------------------------------
(* Chips: words and numbers.                                               *)

\* Reversing a word twice gives the word.
LEMMA BigEndianTwice ==
    ASSUME NEW S, NEW words \in [1 .. Bits -> S]
    PROVE  /\ BigEndian(words) \in [1 .. Bits -> S]
           /\ BigEndian(BigEndian(words)) = words
<1> USE ChipsAssumption
<1> DEFINE b == BigEndian(words)
<1>1. \A i \in 1 .. Bits : Bits + 1 - i \in 1 .. Bits /\ Bits + 1 - (Bits + 1 - i) = i
  OBVIOUS
<1>2. b \in [1 .. Bits -> S] /\ \A i \in 1 .. Bits : b[i] = words[Bits + 1 - i]
  BY <1>1 DEF BigEndian
<1> HIDE DEF b
<1>3. \A i \in 1 .. Bits : b[Bits + 1 - i] = words[i]
  BY <1>1, <1>2
<1>4. BigEndian(b) = [i \in 1 .. Bits |-> words[i]]
  BY <1>3 DEF BigEndian
<1>5. words = [i \in 1 .. Bits |-> words[i]]
  OBVIOUS
<1> QED BY <1>2, <1>4, <1>5 DEF b

\* The bits of a number are the word of the number.
LEMMA WordOfNumber ==
    ASSUME NEW words \in [1 .. Bits -> {0, 1}]
    PROVE  Value(words) \in Nat /\ DecomposeWord(Value(words)) = words
<1> USE ChipsAssumption
<1> DEFINE n == Numbers(words)
<1>1. \A i \in 1 .. Bits : words[i] \in {0, 1}
  OBVIOUS
<1>2. /\ n \in [0 .. Bits -> Nat] /\ n[Bits] = 0
      /\ \A i \in 1 .. Bits : n[i - 1] = words[i] + 2 * n[i]
  BY <1>1, NumbersAre
<1> HIDE DEF n
<1>3. n[0] \in Nat
  BY <1>2
<1>4. PICK rest \in [0 .. Bits -> Nat] :
         /\ rest[0] = n[0] /\ \A i \in 1 .. Bits : rest[i] = rest[i - 1] \div 2
         /\ DecomposeWord(n[0]) = [i \in 1 .. Bits |-> rest[i - 1] % 2]
  BY <1>3, DecomposeIs
<1>5. ASSUME NEW i \in 1 .. Bits
      PROVE  n[i - 1] \div 2 = n[i] /\ n[i - 1] % 2 = words[i]
  <2> DEFINE x == n[i]
  <2>1. x \in Nat /\ n[i - 1] = words[i] + 2 * x /\ words[i] \in {0, 1}
    BY <1>2
  <2> HIDE DEF x
  <2>2. CASE words[i] = 0
    <3>1. n[i - 1] = 2 * x
      BY <2>1, <2>2
    <3>2. (2 * x) \div 2 = x /\ (2 * x) % 2 = 0
      BY <2>1
    <3> QED BY <2>2, <3>1, <3>2 DEF x
  <2>3. CASE words[i] = 1
    <3>1. n[i - 1] = 1 + 2 * x
      BY <2>1, <2>3
    <3>2. (1 + 2 * x) \div 2 = x /\ (1 + 2 * x) % 2 = 1
      BY <2>1
    <3> QED BY <2>3, <3>1, <3>2 DEF x
  <2> QED BY <2>1, <2>2, <2>3
<1> DEFINE Bad == {i \in 0 .. Bits : rest[i] # n[i]}
<1>6. Bad = {}
  <2> SUFFICES ASSUME Bad # {} PROVE FALSE
    OBVIOUS
  <2>1. PICK i \in Bad : \A j \in Bad : i <= j
    <3>1. Bad \subseteq Nat
      OBVIOUS
    <3> HIDE DEF Bad
    <3> QED BY <3>1, LeastExists
  <2>2. i \in 1 .. Bits /\ i - 1 \in 0 .. Bits
    BY <1>4
  <2>3. i - 1 \notin Bad
    <3> HIDE DEF Bad
    <3> QED BY <2>1, <2>2
  <2>4. rest[i - 1] = n[i - 1]
    BY <2>2, <2>3
  <2>5. rest[i] = n[i]
    BY <1>4, <1>5, <2>2, <2>4
  <2> QED BY <2>5
<1>7. ASSUME NEW i \in 1 .. Bits PROVE rest[i - 1] % 2 = words[i]
  <2>1. i - 1 \in 0 .. Bits
    OBVIOUS
  <2>2. rest[i - 1] = n[i - 1]
    BY <1>6, <2>1
  <2> QED BY <1>5, <2>2
<1>8. [i \in 1 .. Bits |-> rest[i - 1] % 2] = [i \in 1 .. Bits |-> words[i]]
  BY <1>7
<1>9. words = [i \in 1 .. Bits |-> words[i]]
  OBVIOUS
<1>10. DecomposeWord(n[0]) = words
  BY <1>4, <1>8, <1>9
<1> QED BY <1>3, <1>10 DEF n, Value

\* The word of a number that fits in it is of bits, and its number is that one.
LEMMA NumberOfWord ==
    ASSUME NEW x \in Nat, x < Power[Bits]
    PROVE  /\ DecomposeWord(x) \in [1 .. Bits -> {0, 1}]
           /\ Value(DecomposeWord(x)) = x
<1> USE ChipsAssumption
<1> DEFINE w == DecomposeWord(x)
           n == Numbers(w)
<1>1. PICK rest \in [0 .. Bits -> Nat] :
         /\ rest[0] = x /\ \A i \in 1 .. Bits : rest[i] = rest[i - 1] \div 2
         /\ w = [i \in 1 .. Bits |-> rest[i - 1] % 2]
  BY DecomposeIs
<1>2. /\ Power[0] = 1 /\ \A i \in 1 .. Bits : Power[i] = 2 * Power[i - 1]
      /\ \A i \in 0 .. Bits : Power[i] \in Nat
  BY PowerIs
<1> HIDE DEF w
<1>3. ASSUME NEW i \in 1 .. Bits
      PROVE  /\ rest[i - 1] \in Nat /\ rest[i] \in Nat
             /\ w[i] \in {0, 1} /\ rest[i - 1] = w[i] + 2 * rest[i]
  <2> DEFINE y == rest[i - 1]
  <2>1. y \in Nat /\ rest[i] = y \div 2 /\ w[i] = y % 2
    <3>1. i - 1 \in 0 .. Bits
      OBVIOUS
    <3> QED BY <1>1, <3>1
  <2> HIDE DEF y
  <2>2. y \div 2 \in Nat /\ y % 2 \in {0, 1} /\ y = (y % 2) + 2 * (y \div 2)
    BY <2>1
  <2> QED BY <2>1, <2>2 DEF y
<1>4. w \in [1 .. Bits -> {0, 1}]
  BY <1>1, <1>3
<1>5. /\ n \in [0 .. Bits -> Nat] /\ n[Bits] = 0
      /\ \A i \in 1 .. Bits : n[i - 1] = w[i] + 2 * n[i]
  BY <1>3, NumbersAre
<1> HIDE DEF n
<1> DEFINE Wide == {i \in 0 .. Bits : ~ (rest[i] < Power[Bits - i])}
<1>6. Wide = {}
  <2> SUFFICES ASSUME Wide # {} PROVE FALSE
    OBVIOUS
  <2>1. PICK i \in Wide : \A j \in Wide : i <= j
    <3>1. Wide \subseteq Nat
      OBVIOUS
    <3> HIDE DEF Wide
    <3> QED BY <3>1, LeastExists
  <2>2. i # 0
    <3>1. Bits - 0 = Bits
      OBVIOUS
    <3>2. 0 \notin Wide
      BY <1>1, <3>1
    <3> HIDE DEF Wide
    <3> QED BY <2>1, <3>2
  <2>3. i \in 1 .. Bits /\ i - 1 \in 0 .. Bits
    BY <2>2
  <2>4. i - 1 \notin Wide
    <3> HIDE DEF Wide
    <3> QED BY <2>1, <2>3
  <2> DEFINE p == Power[Bits - i]
             y == rest[i - 1]
             z == rest[i]
  <2>5. Bits - (i - 1) \in 1 .. Bits /\ Bits - (i - 1) - 1 = Bits - i /\ Bits - i \in 0 .. Bits
    BY <2>3
  <2>6. Power[Bits - (i - 1)] = 2 * p /\ p \in Nat
    BY <1>2, <2>5
  <2>7. y < 2 * p
    BY <2>3, <2>4, <2>6
  <2>8. y \in Nat /\ z \in Nat /\ y = w[i] + 2 * z /\ w[i] \in {0, 1}
    BY <1>3, <2>3
  <2> HIDE DEF p, y, z
  <2>9. z < p
    BY <2>6, <2>7, <2>8
  <2> QED BY <2>9 DEF p, z
<1>7. rest[Bits] = 0
  <2>1. Bits \in 0 .. Bits /\ Bits - Bits = 0 /\ rest[Bits] \in Nat
    OBVIOUS
  <2>2. rest[Bits] < Power[Bits - Bits]
    BY <1>6, <2>1
  <2> QED BY <1>2, <2>1, <2>2
<1> DEFINE Bad == {i \in 0 .. Bits : n[i] # rest[i]}
<1>8. Bad = {}
  <2> SUFFICES ASSUME Bad # {} PROVE FALSE
    OBVIOUS
  <2>1. PICK i \in Bad : \A j \in Bad : j <= i
    <3>1. Bad \subseteq 0 .. Bits /\ Bits \in Nat
      OBVIOUS
    <3> HIDE DEF Bad
    <3> QED BY <3>1, GreatestExists
  <2>2. i + 1 \in 1 .. Bits /\ i + 1 \in 0 .. Bits /\ (i + 1) - 1 = i
    BY <1>5, <1>7
  <2>3. i + 1 \notin Bad
    <3> HIDE DEF Bad
    <3> QED BY <2>1, <2>2
  <2>4. n[i + 1] = rest[i + 1]
    BY <2>2, <2>3
  <2>5. n[i] = w[i + 1] + 2 * n[i + 1] /\ rest[i] = w[i + 1] + 2 * rest[i + 1]
    BY <1>3, <1>5, <2>2
  <2>6. n[i] = rest[i]
    BY <2>4, <2>5
  <2> QED BY <2>6
<1>9. n[0] = x
  <2>1. 0 \in 0 .. Bits
    OBVIOUS
  <2> QED BY <1>1, <1>8, <2>1
<1> QED BY <1>4, <1>9 DEF n, w, Value

\* A remainder may be taken before doubling and adding.
LEMMA PlusDouble ==
    ASSUME NEW b \in {0, 1}, NEW n \in Nat
    PROVE  Plus(b, Times(2, n % P)) = (b + 2 * n) % P
<1>1. P \in Nat \ {0}
  BY ChipsAssumption
<1> DEFINE r == n % P
           t == Times(2, r)
           s == Plus(b, t)
<1>2. r \in F
  BY Quotient
<1>3. PICK q \in Int : n = q * P + r
  BY Quotient
<1>4. r \in Int
  BY <1>1, <1>2 DEF F
<1> HIDE DEF r
<1>5. 2 * r \in Int
  BY <1>4
<1>6. t \in F /\ \E l \in Int : 2 * r = l * P + t
  BY <1>5, Quotient DEF Times
<1>7. PICK l \in Int : 2 * r = l * P + t
  BY <1>6
<1>8. t \in Int
  BY <1>1, <1>6 DEF F
<1> HIDE DEF t
<1>9. b + t \in Int
  BY <1>8
<1>10. s \in F /\ \E m \in Int : b + t = m * P + s
  BY <1>9, Quotient DEF Plus
<1>11. PICK m \in Int : b + t = m * P + s
  BY <1>10
<1>12. s \in Int
  BY <1>1, <1>10 DEF F
<1> HIDE DEF s
<1> DEFINE u == 2 * q + l + m
<1>13. u \in Int /\ u * P = 2 * (q * P) + l * P + m * P
  BY <1>1, <1>3, <1>7, <1>11
<1>14. b + 2 * n = u * P + s
  <2> DEFINE x == q * P
             y == l * P
             z == m * P
             v == u * P
  <2>1. x \in Int /\ y \in Int /\ z \in Int /\ v \in Int
    BY <1>1, <1>3, <1>7, <1>11, <1>13
  <2>2. n = x + r /\ 2 * r = y + t /\ b + t = z + s /\ v = 2 * x + y + z
    BY <1>3, <1>7, <1>11, <1>13
  <2> HIDE DEF x, y, z, v, u
  <2>3. b + 2 * n = v + s
    BY <1>4, <1>8, <1>12, <2>1, <2>2
  <2> QED BY <2>3 DEF v
<1> HIDE DEF u
<1>15. (b + 2 * n) % P = s
  BY <1>10, <1>13, <1>14, Residue
<1> QED BY <1>15 DEF r, s, t

\* The running sum of a word is its number in the field.
LEMMA RunningSumIs ==
    ASSUME NEW words \in [1 .. Bits -> {0, 1}]
    PROVE  RunningSum(words)[0] = Value(words) % P
<1> USE ChipsAssumption
<1> DEFINE n == Numbers(words)
           z == RunningSum(words)
<1>1. \A i \in 1 .. Bits : words[i] \in {0, 1}
  OBVIOUS
<1>2. /\ n \in [0 .. Bits -> Nat] /\ n[Bits] = 0
      /\ \A i \in 1 .. Bits : n[i - 1] = words[i] + 2 * n[i]
  BY <1>1, NumbersAre
<1>3. \A i \in 0 .. Bits : z[i] = IF i = Bits THEN 0 ELSE Plus(words[i + 1], Times(2, z[i + 1]))
  <2>1. IsRunningSum(z, words)
    BY RunningSumExists
  <2> HIDE DEF z
  <2> QED BY <2>1 DEF IsRunningSum
<1> HIDE DEF n, z
<1>4. 0 % P = 0
  BY Remainder
<1> DEFINE Bad == {i \in 0 .. Bits : z[i] # n[i] % P}
<1>5. Bad = {}
  <2> SUFFICES ASSUME Bad # {} PROVE FALSE
    OBVIOUS
  <2>1. PICK i \in Bad : \A j \in Bad : j <= i
    <3>1. Bad \subseteq 0 .. Bits /\ Bits \in Nat
      OBVIOUS
    <3> HIDE DEF Bad
    <3> QED BY <3>1, GreatestExists
  <2>2. i \in 0 .. Bits /\ i # Bits
    <3>1. Bits \notin Bad
      BY <1>2, <1>3, <1>4
    <3> QED BY <3>1
  <2>3. i + 1 \in 1 .. Bits /\ i + 1 \in 0 .. Bits /\ (i + 1) - 1 = i
    BY <2>2
  <2>4. i + 1 \notin Bad
    <3> HIDE DEF Bad
    <3> QED BY <2>1, <2>3
  <2>5. z[i + 1] = n[i + 1] % P
    BY <2>3, <2>4
  <2>6. z[i] = Plus(words[i + 1], Times(2, z[i + 1]))
    BY <1>3, <2>2
  <2>7. n[i + 1] \in Nat /\ n[i] = words[i + 1] + 2 * n[i + 1] /\ words[i + 1] \in {0, 1}
    BY <1>1, <1>2, <2>3
  <2>8. Plus(words[i + 1], Times(2, n[i + 1] % P)) = (words[i + 1] + 2 * n[i + 1]) % P
    BY <2>7, PlusDouble
  <2>9. z[i] = n[i] % P
    BY <2>5, <2>6, <2>7, <2>8
  <2> QED BY <2>9
<1>6. z[0] = n[0] % P
  <2>1. 0 \in 0 .. Bits
    OBVIOUS
  <2> QED BY <1>5, <2>1
<1> QED BY <1>6 DEF n, z, Value

-----------------------------------------------------------------------------
(* Chips: the comparison.                                                  *)

\* The two columns that the comparison of one row adds, over bits.
Equality(m, a) == Plus(Times(m, a), Times(Minus(1, m), Minus(1, a)))
Smaller(m, a) == Times(m, Minus(1, a))

\* A row of the comparison multiplies by whether the bits agree and subtracts
\* whether the first is larger.
LEMMA RowOfBits ==
    ASSUME NEW m \in {0, 1}, NEW a \in {0, 1}
    PROVE  /\ Equality(m, a) = (IF m = a THEN 1 ELSE 0)
           /\ Smaller(m, a) = (IF m = 1 /\ a = 0 THEN 1 ELSE 0)
<1>1. 0 \in F /\ 1 \in F
  BY Units, ChipsAssumption DEF F
<1>2. Minus(1, 0) = 1 /\ Minus(1, 1) = 0
  BY <1>1, Units
<1>3. Times(0, 0) = 0 /\ Times(0, 1) = 0 /\ Times(1, 0) = 0 /\ Times(1, 1) = 1
  BY <1>1, Units
<1>4. Plus(0, 0) = 0 /\ Plus(0, 1) = 1 /\ Plus(1, 0) = 1
  BY <1>1, Units
<1>5. CASE m = 0 /\ a = 0
  BY <1>2, <1>3, <1>4, <1>5 DEF Equality, Smaller
<1>6. CASE m = 0 /\ a = 1
  BY <1>2, <1>3, <1>4, <1>6 DEF Equality, Smaller
<1>7. CASE m = 1 /\ a = 0
  BY <1>2, <1>3, <1>4, <1>7 DEF Equality, Smaller
<1>8. CASE m = 1 /\ a = 1
  BY <1>2, <1>3, <1>4, <1>8 DEF Equality, Smaller
<1> QED BY <1>5, <1>6, <1>7, <1>8

IsCan(can, max, alpha) ==
    can = [i \in 0 .. Bits |-> IF i = 0 THEN 1 ELSE Times(can[i - 1], Equality(max[i], alpha[i]))]
IsLess(less, can, max, alpha) ==
    less = [i \in 0 .. Bits |-> IF i = 0 THEN 1
                                ELSE Minus(less[i - 1], Times(Smaller(max[i], alpha[i]), can[i - 1]))]

\* A recursion over the rows of the field's elements.
LEMMA CanExists ==
    ASSUME NEW max \in [1 .. Bits -> {0, 1}], NEW alpha \in [1 .. Bits -> {0, 1}]
    PROVE  \E can \in [0 .. Bits -> F] : IsCan(can, max, alpha)
<1> USE ChipsAssumption
<1> DEFINE g == [x \in (1 .. Bits) \X F |-> Times(x[2], Equality(max[x[1]], alpha[x[1]]))]
<1>1. \A i \in 1 .. Bits : \A t \in F : g[<<i, t>>] = Times(t, Equality(max[i], alpha[i])) /\ g[<<i, t>>] \in F
  <2> SUFFICES ASSUME NEW i \in 1 .. Bits, NEW t \in F
               PROVE  g[<<i, t>>] = Times(t, Equality(max[i], alpha[i])) /\ g[<<i, t>>] \in F
    OBVIOUS
  <2>1. g[<<i, t>>] = Times(t, Equality(max[i], alpha[i]))
    OBVIOUS
  <2>2. max[i] \in {0, 1} /\ alpha[i] \in {0, 1}
    OBVIOUS
  <2>3. Equality(max[i], alpha[i]) \in {0, 1}
    BY <2>2, RowOfBits
  <2>4. 0 \in F /\ 1 \in F
    BY Units
  <2>5. Times(t, Equality(max[i], alpha[i])) \in F
    BY <2>3, <2>4, FieldClosed
  <2> HIDE DEF g
  <2> QED BY <2>1, <2>5
<1> HIDE DEF g
<1>2. 1 \in F
  BY DEF F
<1>3. PICK w \in [0 .. Bits -> F] : w[0] = 1 /\ \A i \in 1 .. Bits : w[i] = g[<<i, w[i - 1]>>]
  <2>1. RowStep(Bits, F, g) /\ Bits \in Nat
    BY <1>1 DEF RowStep
  <2>2. \E w : FromFirst(Bits, F, 1, g, w)
    BY <1>2, <2>1, RowsUp
  <2> QED BY <2>2 DEF FromFirst
<1>4. ASSUME NEW i \in 0 .. Bits
      PROVE  w[i] = IF i = 0 THEN 1 ELSE Times(w[i - 1], Equality(max[i], alpha[i]))
  <2>1. CASE i = 0
    BY <1>3, <2>1
  <2>2. CASE i # 0
    <3>1. i \in 1 .. Bits /\ w[i - 1] \in F
      BY <1>3, <2>2
    <3> QED BY <1>1, <1>3, <2>2, <3>1
  <2> QED BY <2>1, <2>2
<1>5. w = [i \in 0 .. Bits |-> w[i]]
  BY <1>3
<1>6. IsCan(w, max, alpha)
  BY <1>4, <1>5 DEF IsCan
<1> QED BY <1>3, <1>6

\* The same for the second column.
LEMMA LessExists ==
    ASSUME NEW max \in [1 .. Bits -> {0, 1}], NEW alpha \in [1 .. Bits -> {0, 1}],
           NEW can \in [0 .. Bits -> F]
    PROVE  \E less \in [0 .. Bits -> F] : IsLess(less, can, max, alpha)
<1> USE ChipsAssumption
<1> DEFINE g == [x \in (1 .. Bits) \X F |->
                    Minus(x[2], Times(Smaller(max[x[1]], alpha[x[1]]), can[x[1] - 1]))]
<1>1. \A i \in 1 .. Bits : \A t \in F :
         /\ g[<<i, t>>] = Minus(t, Times(Smaller(max[i], alpha[i]), can[i - 1]))
         /\ g[<<i, t>>] \in F
  <2> SUFFICES ASSUME NEW i \in 1 .. Bits, NEW t \in F
               PROVE  /\ g[<<i, t>>] = Minus(t, Times(Smaller(max[i], alpha[i]), can[i - 1]))
                      /\ g[<<i, t>>] \in F
    OBVIOUS
  <2>1. g[<<i, t>>] = Minus(t, Times(Smaller(max[i], alpha[i]), can[i - 1]))
    OBVIOUS
  <2>2. max[i] \in {0, 1} /\ alpha[i] \in {0, 1} /\ i - 1 \in 0 .. Bits
    OBVIOUS
  <2>3. Smaller(max[i], alpha[i]) \in {0, 1} /\ can[i - 1] \in F
    BY <2>2, RowOfBits
  <2>4. 0 \in F /\ 1 \in F
    BY Units
  <2>5. Times(Smaller(max[i], alpha[i]), can[i - 1]) \in F
    BY <2>3, <2>4, FieldClosed
  <2>6. Minus(t, Times(Smaller(max[i], alpha[i]), can[i - 1])) \in F
    BY <2>5, FieldClosed
  <2> HIDE DEF g
  <2> QED BY <2>1, <2>6
<1> HIDE DEF g
<1>2. 1 \in F
  BY DEF F
<1>3. PICK w \in [0 .. Bits -> F] : w[0] = 1 /\ \A i \in 1 .. Bits : w[i] = g[<<i, w[i - 1]>>]
  <2>1. RowStep(Bits, F, g) /\ Bits \in Nat
    BY <1>1 DEF RowStep
  <2>2. \E w : FromFirst(Bits, F, 1, g, w)
    BY <1>2, <2>1, RowsUp
  <2> QED BY <2>2 DEF FromFirst
<1>4. ASSUME NEW i \in 0 .. Bits
      PROVE  w[i] = IF i = 0 THEN 1
                    ELSE Minus(w[i - 1], Times(Smaller(max[i], alpha[i]), can[i - 1]))
  <2>1. CASE i = 0
    BY <1>3, <2>1
  <2>2. CASE i # 0
    <3>1. i \in 1 .. Bits /\ w[i - 1] \in F
      BY <1>3, <2>2
    <3> QED BY <1>1, <1>3, <2>2, <3>1
  <2> QED BY <2>1, <2>2
<1>5. w = [i \in 0 .. Bits |-> w[i]]
  BY <1>3
<1>6. IsLess(w, can, max, alpha)
  BY <1>4, <1>5 DEF IsLess
<1> QED BY <1>3, <1>6

\* The columns of a comparison.
LEMMA LessThanIs ==
    ASSUME NEW max \in [1 .. Bits -> {0, 1}], NEW alpha \in [1 .. Bits -> {0, 1}]
    PROVE  \E can, less :
              /\ IsCan(can, max, alpha) /\ IsLess(less, can, max, alpha)
              /\ LessThan(max, alpha) <=> less[Bits] = 0
<1> DEFINE can == CHOOSE c : IsCan(c, max, alpha)
           less == CHOOSE l : IsLess(l, can, max, alpha)
<1>1. IsCan(can, max, alpha)
  BY CanExists
<1>2. can \in [0 .. Bits -> F]
  <2>1. PICK w \in [0 .. Bits -> F] : IsCan(w, max, alpha)
    BY CanExists
  <2> DEFINE Bad == {i \in 0 .. Bits : can[i] # w[i]}
  <2> HIDE DEF can
  <2>2. Bad = {}
    <3> SUFFICES ASSUME Bad # {} PROVE FALSE
      OBVIOUS
    <3>1. PICK i \in Bad : \A j \in Bad : i <= j
      <4>1. Bad \subseteq Nat
        BY ChipsAssumption
      <4> HIDE DEF Bad
      <4> QED BY <4>1, LeastExists
    <3>2. i \in 1 .. Bits /\ i - 1 \in 0 .. Bits /\ i \in 0 .. Bits /\ i # 0
      BY <1>1, <2>1, ChipsAssumption DEF IsCan
    <3>3. i - 1 \notin Bad
      <4> HIDE DEF Bad
      <4> QED BY <3>1, <3>2, ChipsAssumption
    <3>4. can[i - 1] = w[i - 1]
      BY <3>2, <3>3
    <3>5. can[i] = Times(can[i - 1], Equality(max[i], alpha[i]))
      BY <1>1, <3>2 DEF IsCan
    <3>6. w[i] = Times(w[i - 1], Equality(max[i], alpha[i]))
      BY <2>1, <3>2 DEF IsCan
    <3> QED BY <3>4, <3>5, <3>6
  <2>3. can = [i \in 0 .. Bits |-> can[i]]
    BY <1>1 DEF IsCan
  <2>4. \A i \in 0 .. Bits : can[i] \in F
    BY <2>1, <2>2
  <2> QED BY <2>3, <2>4
<1>3. IsLess(less, can, max, alpha)
  <2> HIDE DEF can
  <2> QED BY <1>2, LessExists
<1>4. LessThan(max, alpha) <=> less[Bits] = 0
  BY Zenon DEF LessThan, IsCan, IsLess, Equality, Smaller
<1> HIDE DEF can, less
<1> QED BY <1>1, <1>3, <1>4

\* The comparison accepts two words exactly when the second is the smaller number.
LEMMA Comparison ==
    ASSUME NEW max \in [1 .. Bits -> {0, 1}], NEW alpha \in [1 .. Bits -> {0, 1}]
    PROVE  LessThan(max, alpha) <=> Value(BigEndian(alpha)) < Value(BigEndian(max))
<1> USE ChipsAssumption
<1> DEFINE wm == Numbers(BigEndian(max))
           wa == Numbers(BigEndian(alpha))
<1>1. PICK can, less : /\ IsCan(can, max, alpha) /\ IsLess(less, can, max, alpha)
                       /\ LessThan(max, alpha) <=> less[Bits] = 0
  BY LessThanIs
<1>2. /\ wm \in [0 .. Bits -> Nat] /\ wm[Bits] = 0
      /\ \A i \in 1 .. Bits : wm[i - 1] = BigEndian(max)[i] + 2 * wm[i]
  <2>1. \A i \in 1 .. Bits : BigEndian(max)[i] \in {0, 1}
    <3>1. BigEndian(max) \in [1 .. Bits -> {0, 1}]
      BY BigEndianTwice
    <3> QED BY <3>1
  <2> QED BY <2>1, NumbersAre
<1>3. /\ wa \in [0 .. Bits -> Nat] /\ wa[Bits] = 0
      /\ \A i \in 1 .. Bits : wa[i - 1] = BigEndian(alpha)[i] + 2 * wa[i]
  <2>1. \A i \in 1 .. Bits : BigEndian(alpha)[i] \in {0, 1}
    <3>1. BigEndian(alpha) \in [1 .. Bits -> {0, 1}]
      BY BigEndianTwice
    <3> QED BY <3>1
  <2> QED BY <2>1, NumbersAre
<1> HIDE DEF wm, wa
<1> DEFINE Row(j) == /\ can[j] = (IF wa[Bits - j] = wm[Bits - j] THEN 1 ELSE 0)
                     /\ less[j] = (IF wa[Bits - j] < wm[Bits - j] THEN 0 ELSE 1)
           Bad == {j \in 0 .. Bits : ~ Row(j)}
<1>4. Row(0)
  <2>1. can[0] = 1 /\ less[0] = 1
    BY <1>1 DEF IsCan, IsLess
  <2>2. Bits - 0 = Bits
    OBVIOUS
  <2> QED BY <1>2, <1>3, <2>1, <2>2
<1>5. ASSUME NEW j \in 1 .. Bits, Row(j - 1) PROVE Row(j)
  <2> DEFINE k == Bits - j
             m == max[j]
             a == alpha[j]
             x == wm[k]
             y == wa[k]
             x0 == wm[Bits - (j - 1)]
             y0 == wa[Bits - (j - 1)]
  <2>1. /\ k \in 0 .. Bits /\ k + 1 \in 1 .. Bits /\ (k + 1) - 1 = k /\ Bits - (j - 1) = k + 1
        /\ Bits + 1 - (k + 1) = j /\ k + 1 \in 0 .. Bits
    OBVIOUS
  <2>2. m \in {0, 1} /\ a \in {0, 1}
    OBVIOUS
  <2>3. BigEndian(max)[k + 1] = m /\ BigEndian(alpha)[k + 1] = a
    BY <2>1 DEF BigEndian
  <2>4. x = m + 2 * x0 /\ y = a + 2 * y0 /\ x0 \in Nat /\ y0 \in Nat
    BY <1>2, <1>3, <2>1, <2>3
  <2>5. /\ can[j - 1] = (IF y0 = x0 THEN 1 ELSE 0)
        /\ less[j - 1] = (IF y0 < x0 THEN 0 ELSE 1)
    BY <1>5
  <2>6. can[j] = Times(can[j - 1], Equality(m, a))
    <3>1. j \in 0 .. Bits /\ j # 0
      OBVIOUS
    <3> QED BY <1>1, <3>1 DEF IsCan
  <2>7. less[j] = Minus(less[j - 1], Times(Smaller(m, a), can[j - 1]))
    <3>1. j \in 0 .. Bits /\ j # 0
      OBVIOUS
    <3> QED BY <1>1, <3>1 DEF IsLess
  <2> SUFFICES /\ can[j] = (IF y = x THEN 1 ELSE 0)
               /\ less[j] = (IF y < x THEN 0 ELSE 1)
    OBVIOUS
  <2> DEFINE c == can[j]
             c0 == can[j - 1]
             l == less[j]
             l0 == less[j - 1]
  <2>8. c = Times(c0, Equality(m, a)) /\ l = Minus(l0, Times(Smaller(m, a), c0))
    BY <2>6, <2>7
  <2>9. c0 = (IF y0 = x0 THEN 1 ELSE 0) /\ l0 = (IF y0 < x0 THEN 0 ELSE 1)
    BY <2>5
  <2>10. /\ Equality(m, a) = (IF m = a THEN 1 ELSE 0)
         /\ Smaller(m, a) = (IF m = 1 /\ a = 0 THEN 1 ELSE 0)
    BY <2>2, RowOfBits
  <2> SUFFICES c = (IF y = x THEN 1 ELSE 0) /\ l = (IF y < x THEN 0 ELSE 1)
    OBVIOUS
  <2> HIDE DEF k, m, a, x, y, x0, y0, c, c0, l, l0, Row, Bad
  <2>11. 0 \in F /\ 1 \in F
    BY Units DEF F
  <2>12. /\ Times(0, 0) = 0 /\ Times(0, 1) = 0 /\ Times(1, 0) = 0 /\ Times(1, 1) = 1
         /\ Minus(0, 0) = 0 /\ Minus(1, 0) = 1 /\ Minus(1, 1) = 0
    BY <2>11, Units
  <2>13. c = (IF y0 = x0 /\ m = a THEN 1 ELSE 0)
    BY <2>8, <2>9, <2>10, <2>12
  <2>14. l = (IF y0 < x0 \/ (y0 = x0 /\ m = 1 /\ a = 0) THEN 0 ELSE 1)
    <3>1. CASE y0 < x0
      <4>1. c0 = 0 /\ l0 = 0
        BY <2>4, <2>9, <3>1
      <4>2. Smaller(m, a) \in {0, 1}
        BY <2>10
      <4> QED BY <2>8, <2>12, <3>1, <4>1, <4>2
    <3>2. CASE y0 = x0
      <4>1. c0 = 1 /\ l0 = 1
        BY <2>4, <2>9, <3>2
      <4> QED BY <2>4, <2>8, <2>10, <2>12, <3>2, <4>1
    <3>3. CASE ~ (y0 < x0) /\ y0 # x0
      <4>1. c0 = 0 /\ l0 = 1
        BY <2>9, <3>3
      <4>2. Smaller(m, a) \in {0, 1}
        BY <2>10
      <4> QED BY <2>8, <2>12, <3>3, <4>1, <4>2
    <3> QED BY <3>1, <3>2, <3>3
  <2>15. y = x <=> (y0 = x0 /\ m = a)
    BY <2>2, <2>4
  <2>16. y < x <=> (y0 < x0 \/ (y0 = x0 /\ m = 1 /\ a = 0))
    BY <2>2, <2>4
  <2> QED BY <2>13, <2>14, <2>15, <2>16
<1> HIDE DEF Row
<1>6. Bad = {}
  <2> SUFFICES ASSUME Bad # {} PROVE FALSE
    OBVIOUS
  <2>1. PICK j \in Bad : \A i \in Bad : j <= i
    <3>1. Bad \subseteq Nat
      OBVIOUS
    <3> HIDE DEF Bad
    <3> QED BY <3>1, LeastExists
  <2>2. j \in 1 .. Bits /\ j - 1 \in 0 .. Bits
    BY <1>4
  <2>3. j - 1 \notin Bad
    <3> HIDE DEF Bad
    <3> QED BY <2>1, <2>2
  <2>4. Row(j - 1)
    BY <2>2, <2>3
  <2>5. Row(j)
    BY <1>5, <2>2, <2>4
  <2> QED BY <2>5
<1>7. Row(Bits)
  <2>1. Bits \in 0 .. Bits
    OBVIOUS
  <2> QED BY <1>6, <2>1
<1>8. less[Bits] = (IF wa[0] < wm[0] THEN 0 ELSE 1)
  <2>1. Bits - Bits = 0
    OBVIOUS
  <2> QED BY <1>7, <2>1 DEF Row
<1>9. LessThan(max, alpha) <=> wa[0] < wm[0]
  BY <1>1, <1>8
<1> QED BY <1>9 DEF wa, wm, Value

-----------------------------------------------------------------------------
(* Chips: the rows.                                                        *)

\* The witness of the zero test: an inverse, for every element but zero.
LEMMA WitnessOfZero ==
    ASSUME NEW v \in F
    PROVE  ValueInv(v) \in F /\ IsZeroGate(v, ValueInv(v))
<1>1. 0 \in F /\ 1 \in F
  BY Units
<1>2. CASE v = 0
  <2>1. ValueInv(v) \in F
    BY <1>1 DEF ValueInv
  <2>2. IsZeroExpr(v, ValueInv(v)) \in F
    BY <1>1, <2>1, FieldClosed DEF IsZeroExpr
  <2>3. Times(v, IsZeroExpr(v, ValueInv(v))) = 0
    BY <1>2, <2>2, Units
  <2> QED BY <2>1, <2>3 DEF IsZeroGate
<1>3. CASE v # 0
  <2>1. \E i \in F : Times(v, i) = 1
    BY <1>3, InverseExists
  <2>2. ValueInv(v) \in F /\ Times(v, ValueInv(v)) = 1
    BY <2>1 DEF ValueInv
  <2>3. IsZeroExpr(v, ValueInv(v)) = 0
    BY <1>1, <2>2, Units DEF IsZeroExpr
  <2>4. Times(v, IsZeroExpr(v, ValueInv(v))) = 0
    BY <2>3, Units
  <2> QED BY <2>2, <2>4 DEF IsZeroGate
<1> QED BY <1>2, <1>3

\* Every witness that the gate accepts tells whether the value is the constant.
LEMMA ConstantExact ==
    ASSUME NEW c \in F, NEW value \in F, NEW inv \in F, IsConstantGate(c, value, inv)
    PROVE  IsZeroExpr(Minus(value, c), inv) = (IF value = c THEN 1 ELSE 0)
<1> DEFINE v == Minus(value, c)
           e == IsZeroExpr(v, inv)
<1>1. 0 \in F /\ 1 \in F
  BY Units
<1>2. v \in F
  BY FieldClosed
<1>3. v = 0 <=> value = c
  BY Difference
<1>4. Times(v, e) = 0
  BY DEF IsConstantGate, IsZeroGate
<1> HIDE DEF v
<1>5. Times(v, inv) \in F
  BY <1>2, FieldClosed
<1>6. e \in F
  BY <1>1, <1>5, FieldClosed DEF IsZeroExpr
<1>7. CASE v = 0
  <2>1. Times(v, inv) = 0
    BY <1>7, Units
  <2>2. e = 1
    BY <1>1, <2>1, Units DEF IsZeroExpr
  <2> QED BY <1>3, <1>7, <2>2 DEF v
<1>8. CASE v # 0
  <2> HIDE DEF e
  <2>1. e = 0
    BY <1>2, <1>4, <1>6, <1>8, NoZeroDivisors
  <2> QED BY <1>3, <1>8, <2>1 DEF v, e
<1> QED BY <1>7, <1>8

\* A ternary over a bit is one of its two branches.
LEMMA TernaryOfBit ==
    ASSUME NEW a \in F, NEW b \in F
    PROVE  Ternary(1, a, b) = a /\ Ternary(0, a, b) = b
<1>1. 0 \in F /\ 1 \in F
  BY Units
<1>2. Minus(1, 1) = 0 /\ Minus(1, 0) = 1
  BY <1>1, Units
<1>3. Times(1, a) = a /\ Times(0, b) = 0 /\ Times(0, a) = 0 /\ Times(1, b) = b
  BY Units
<1>4. Plus(a, 0) = a /\ Plus(0, b) = b
  BY Units
<1> QED BY <1>2, <1>3, <1>4 DEF Ternary

\* A swap keeps or exchanges its inputs, and both can be had.
LEMMA SwapExact ==
    ASSUME NEW a \in F, NEW b \in F
    PROVE  /\ \A s \in F : \A l, r \in F :
                 SwapGate(a, b, s, l, r) => (l = a /\ r = b) \/ (l = b /\ r = a)
           /\ SwapGate(a, b, 1, b, a) /\ SwapGate(a, b, 0, a, b)
<1>1. 0 \in F /\ 1 \in F
  BY Units
<1>2. /\ Ternary(1, b, a) = b /\ Ternary(1, a, b) = a
      /\ Ternary(0, b, a) = a /\ Ternary(0, a, b) = b
  BY TernaryOfBit
<1>3. ASSUME NEW s \in F, NEW l \in F, NEW r \in F, SwapGate(a, b, s, l, r)
      PROVE  (l = a /\ r = b) \/ (l = b /\ r = a)
  <2>1. l = Ternary(s, b, a) /\ r = Ternary(s, a, b) /\ RangeCheck(s)
    BY <1>3 DEF SwapGate, RangeCheck
  <2>2. s \in {0, 1}
    BY <2>1, BitChecked
  <2> QED BY <1>2, <2>1, <2>2
<1>4. RangeCheck(0) /\ RangeCheck(1)
  BY <1>1, BitChecked
<1>5. SwapGate(a, b, 1, b, a) /\ SwapGate(a, b, 0, a, b)
  BY <1>2, <1>4 DEF SwapGate, RangeCheck
<1> QED BY <1>3, <1>5

\* The modulus as a word of the comparison.
LEMMA ModulusWord ==
    ASSUME NEW words \in [1 .. Bits -> {0, 1}]
    PROVE  LessThan(BigEndian(DecomposeWord(P)), BigEndian(words)) <=> Value(words) < P
<1> DEFINE d == DecomposeWord(P)
<1>1. d \in [1 .. Bits -> {0, 1}] /\ Value(d) = P
  BY ChipsAssumption, FieldAssumption, NumberOfWord
<1> HIDE DEF d
<1>2. BigEndian(d) \in [1 .. Bits -> {0, 1}] /\ BigEndian(BigEndian(d)) = d
  BY <1>1, BigEndianTwice
<1>3. BigEndian(words) \in [1 .. Bits -> {0, 1}] /\ BigEndian(BigEndian(words)) = words
  BY BigEndianTwice
<1>4. LessThan(BigEndian(d), BigEndian(words))
         <=> Value(BigEndian(BigEndian(words))) < Value(BigEndian(BigEndian(d)))
  BY <1>2, <1>3, Comparison
<1> QED BY <1>1, <1>2, <1>3, <1>4 DEF d

\* A leaf has the one decomposition that the insert circuit accepts.
LEMMA LeafExact ==
    ASSUME NEW leaf \in F
    PROVE  /\ \A words \in Words : LeafBits(leaf, words) => words = DecomposeWord(leaf)
           /\ LeafBits(leaf, DecomposeWord(leaf))
<1>1. P \in Nat /\ leaf \in Nat /\ leaf < P
  BY ChipsAssumption DEF F
<1>2. 0 \in F /\ 1 \in F
  BY Units
<1>3. ASSUME NEW words \in Words, LeafBits(leaf, words)
      PROVE  words = DecomposeWord(leaf)
  <2>1. \A i \in 1 .. Bits : words[i] \in {0, 1}
    <3>1. ASSUME NEW i \in 1 .. Bits PROVE words[i] \in {0, 1}
      <4>1. words[i] \in F
        BY DEF Words
      <4>2. RangeCheck(words[i])
        BY <1>3 DEF LeafBits, Decomposed
      <4> QED BY <4>1, <4>2, BitChecked
    <3> QED BY <3>1
  <2>2. words \in [1 .. Bits -> {0, 1}]
    BY <2>1 DEF Words
  <2>3. Value(words) \in Nat /\ DecomposeWord(Value(words)) = words
    BY <2>2, WordOfNumber
  <2>4. Value(words) < P
    BY <1>3, <2>2, ModulusWord DEF LeafBits
  <2>5. RunningSum(words)[0] = leaf
    BY <1>3 DEF LeafBits, Decomposed
  <2>6. RunningSum(words)[0] = Value(words) % P
    BY <2>2, RunningSumIs
  <2>7. Value(words) % P = Value(words)
    BY <2>3, <2>4, Remainder
  <2> QED BY <2>3, <2>5, <2>6, <2>7
<1>4. LeafBits(leaf, DecomposeWord(leaf))
  <2> DEFINE w == DecomposeWord(leaf)
  <2>1. leaf < Power[Bits]
    <3>1. Power[Bits] \in Nat
      BY PowerIs, ChipsAssumption
    <3> QED BY <1>1, <3>1, FieldAssumption
  <2>2. w \in [1 .. Bits -> {0, 1}] /\ Value(w) = leaf
    BY <1>1, <2>1, NumberOfWord
  <2> HIDE DEF w
  <2>3. RunningSum(w)[0] = leaf
    BY <1>1, <2>2, RunningSumIs, Remainder
  <2>4. \A i \in 1 .. Bits : RangeCheck(w[i])
    <3>1. ASSUME NEW i \in 1 .. Bits PROVE RangeCheck(w[i])
      <4>1. w[i] \in {0, 1}
        BY <2>2
      <4> QED BY <1>2, <4>1, BitChecked
    <3> QED BY <3>1
  <2>5. LessThan(BigEndian(DecomposeWord(P)), BigEndian(w))
    BY <1>1, <2>2, ModulusWord
  <2>6. LeafBits(leaf, w)
    BY <2>3, <2>4, <2>5 DEF LeafBits, Decomposed
  <2> QED BY <2>6 DEF w
<1> QED BY <1>3, <1>4

\* The rows that an action may assign are exact.
LEMMA AssignedRowsExact ==
    ASSUME ChipsNext
    PROVE  ChipsExact'
<1>1. CASE AssignIsConstant
  <2>1. PICK c \in F, value \in F, inv \in F :
           /\ IsConstantGate(c, value, inv)
           /\ row' = [chip |-> "is_constant", c |-> c, value |-> value,
                      out |-> IsZeroExpr(Minus(value, c), inv)]
    BY <1>1 DEF AssignIsConstant
  <2>2. IsZeroExpr(Minus(value, c), inv) = (IF value = c THEN 1 ELSE 0)
    BY <2>1, ConstantExact
  <2>3. /\ row'.chip = "is_constant" /\ row'.c = c /\ row'.value = value
        /\ row'.out = (IF value = c THEN 1 ELSE 0)
    BY <2>1, <2>2
  <2> QED BY <2>3 DEF ChipsExact
<1>2. CASE AssignSwap
  <2>1. PICK a \in F, b \in F, swap \in F, l \in F, r \in F :
           /\ SwapGate(a, b, swap, l, r)
           /\ row' = [chip |-> "swap", in |-> <<a, b>>, out |-> <<l, r>>]
    BY <1>2 DEF AssignSwap
  <2>2. (l = a /\ r = b) \/ (l = b /\ r = a)
    BY <2>1, SwapExact
  <2>3. row'.chip = "swap" /\ row'.in = <<a, b>> /\ row'.out = <<l, r>>
    BY <2>1
  <2>4. row'.in[1] = a /\ row'.in[2] = b
    BY <2>3
  <2>5. row'.out \in {row'.in, <<row'.in[2], row'.in[1]>>}
    BY <2>2, <2>3, <2>4
  <2> QED BY <2>3, <2>5 DEF ChipsExact
<1>3. CASE AssignLessThan
  <2>1. PICK max \in [1 .. Bits -> {0, 1}], alpha \in [1 .. Bits -> {0, 1}] :
           /\ LessThan(max, alpha)
           /\ row' = [chip |-> "is_less_than", max |-> max, alpha |-> alpha]
    BY <1>3 DEF AssignLessThan
  <2>2. Value(BigEndian(alpha)) < Value(BigEndian(max))
    BY <2>1, Comparison
  <2>3. row'.chip = "is_less_than" /\ row'.max = max /\ row'.alpha = alpha
    BY <2>1
  <2> QED BY <2>2, <2>3 DEF ChipsExact
<1>4. CASE AssignLeafBits
  <2>1. PICK leaf \in F, words \in Words :
           /\ LeafBits(leaf, words)
           /\ row' = [chip |-> "leaf_bits", leaf |-> leaf, words |-> words]
    BY <1>4 DEF AssignLeafBits
  <2>2. words = DecomposeWord(leaf)
    BY <2>1, LeafExact
  <2>3. row'.chip = "leaf_bits" /\ row'.leaf = leaf /\ row'.words = words
    BY <2>1
  <2> QED BY <2>2, <2>3 DEF ChipsExact
<1> QED BY <1>1, <1>2, <1>3, <1>4 DEF ChipsNext

\* Every row that the gates accept has the outputs that its callers rely on,
\* and the rows that `assign` computes are accepted, in every prime field and
\* for every width that holds the modulus (chips/is_constant.rs, swap.rs,
\* is_less_than.rs, binary_decomposition.rs).
THEOREM ChipsExactHolds == CircuitsSpec => []ChipsExact
<1>1. CircuitsInit => ChipsExact
  <2> SUFFICES ASSUME CircuitsInit PROVE ChipsExact
    OBVIOUS
  <2>1. row = NoRow /\ row.chip = "none"
    BY DEF CircuitsInit, NoRow
  <2>2. ASSUME NEW value \in F, NEW c \in F
        PROVE  /\ IsConstantGate(c, value, ValueInv(Minus(value, c)))
               /\ SwapGate(value, c, 1, c, value) /\ SwapGate(value, c, 0, value, c)
               /\ LeafBits(value, DecomposeWord(value))
    <3>1. Minus(value, c) \in F
      BY FieldClosed
    <3>2. IsConstantGate(c, value, ValueInv(Minus(value, c)))
      BY <3>1, WitnessOfZero DEF IsConstantGate
    <3> QED BY <3>2, SwapExact, LeafExact
  <2> QED BY <2>1, <2>2 DEF ChipsExact
<1>2. ChipsExact /\ [CircuitsNext]_circuitVars => ChipsExact'
  <2> SUFFICES ASSUME ChipsExact, [CircuitsNext]_circuitVars PROVE ChipsExact'
    OBVIOUS
  <2>1. CASE VerifyBlock
    BY <2>1 DEF VerifyBlock, ChipsExact
  <2>2. CASE ChipsNext
    BY <2>2, AssignedRowsExact
  <2>3. CASE UNCHANGED circuitVars
    BY <2>3 DEF circuitVars, ChipsExact
  <2> QED BY <2>1, <2>2, <2>3 DEF CircuitsNext
<1> QED BY <1>1, <1>2, PTL DEF CircuitsSpec
=============================================================================
