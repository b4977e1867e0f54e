----------------------------- MODULE SmirkTree -----------------------------
(***************************************************************************)
(* The sparse Merkle tree of pkg/smirk: the nodes in memory with their     *)
(* cached hashes, and the database of elements and known hashes from which *)
(* it is loaded.  Poseidon is injective: a hash is the pair of what is     *)
(* hashed, a leaf's hash is its element, and the null hash is <<>>.        *)
(*                                                                         *)
(* A node is at a place: the bits of the way to it from the root.  What    *)
(* lies below an empty node is empty, so a tree is a function from places  *)
(* to nodes, and a recursion over nodes speaks of the places it visits.    *)
(***************************************************************************)
EXTENDS Naturals, Sequences, FiniteSets, FiniteSetsExt

CONSTANTS Elements,     \* non-zero naturals
          Levels,       \* DEPTH, 161 in the node
          MaxBatch,     \* bound: elements of a batch
          MaxFails      \* bound: failed database writes

ASSUME SmirkAssumption ==
    Elements \subseteq Nat \ {0} /\ Levels \in Nat \ {0, 1} /\ MaxBatch \in Nat /\ MaxFails \in Nat

VARIABLES nodes,        \* the tree in memory
          entries,      \* its elements
          initial,      \* SimpleHashCache::initial: the hashes read at the last load
          stored,       \* elements in the database
          known,        \* KnownHash rows in the database
          fails

smirkVars == <<nodes, entries, initial, stored, known, fails>>

----------------------------------------------------------------------------
\* Element::lsb: the low bits, the most significant first, so from the root down.
Shifted(e) == LET s[i \in 0 .. Levels - 1] == IF i = 0 THEN e ELSE s[i - 1] \div 2 IN s
Lsb(e) == [i \in 1 .. Levels - 1 |-> Shifted(e)[Levels - 1 - i] % 2]

Places == UNION {[1 .. k -> {0, 1}] : k \in 0 .. Levels - 1}
Inner == {p \in Places : Len(p) < Levels - 1}
Left(p) == Append(p, 0)
Right(p) == Append(p, 1)
OnWay(q, p) == Len(q) <= Len(p) /\ \A i \in 1 .. Len(q) : q[i] = p[i]
Under(es, p) == {e \in es : OnWay(p, Lsb(e))}

HashMerge(l, r) == <<l, r>>
EmptyTreeHash ==
    LET h[d \in 1 .. Levels] == IF d = 1 THEN <<>> ELSE HashMerge(h[d - 1], h[d - 1])
    IN  h

\* SimpleHashCache::hash: a known result is used without hashing.
CacheHash(kn, l, r) ==
    IF \E k \in kn : k.left = l /\ k.right = r
    THEN (CHOOSE k \in kn : k.left = l /\ k.right = r).result
    ELSE HashMerge(l, r)

Leaf(e) == [kind |-> "leaf", element |-> e]
Empty == [kind |-> "empty"]
Parent(hash, dirty) == [kind |-> "parent", hash |-> hash, dirty |-> dirty]
EmptyTree == [p \in Places |-> Empty]
Parents(t) == {p \in Places : t[p].kind = "parent"}
Dirty(t) == {p \in Parents(t) : t[p].dirty}

\* Node::hash; an empty node's depth is that of its place.
NodeHash(t, p) == IF t[p].kind = "leaf" THEN <<t[p].element>>
                  ELSE IF t[p].kind = "empty" THEN EmptyTreeHash[Levels - Len(p)]
                  ELSE t[p].hash

\* The hashes after those at `visited` are computed from the children's.
Rehashed(visited, own, kn) ==
    LET h[p \in Places] ==
          IF p \in visited THEN CacheHash(kn, h[Left(p)], h[Right(p)]) ELSE own[p]
    IN  h

----------------------------------------------------------------------------
\* Node::insert_without_hashing, for elements that do not collide: the nodes on
\* the way are marked, empty ones are split, and those at the end become leaves.
InsertNode(t, es) ==
    [p \in Places |->
        IF Under(es, p) = {} \/ t[p].kind = "leaf" THEN t[p]
        ELSE IF p \in Inner THEN Parent(NodeHash(t, p), TRUE)
        ELSE Leaf(CHOOSE e \in Under(es, p) : TRUE)]

\* Node::recalculate_hashes turns back at the first node that is not marked.
Visited(t) == {p \in Places : \A q \in Places : OnWay(q, p) => q \in Dirty(t)}

\* Mutation: the marks are cleared, the right half is not recalculated.
RecalculateLeft(t, kn) ==
    LET h == Rehashed({p \in Visited(t) : \A i \in 1 .. Len(p) : p[i] = 0},
                      [p \in Places |-> NodeHash(t, p)], kn)
    IN  [p \in Places |-> IF p \in Visited(t) THEN Parent(h[p], FALSE) ELSE t[p]]

Recalculate(t, kn) ==
    LET h == Rehashed(Visited(t), [p \in Places |-> NodeHash(t, p)], kn)
    IN  [p \in Places |-> IF p \in Visited(t) THEN Parent(h[p], FALSE) ELSE t[p]]

\* hash_remove_callback: the children's hashes of each visited node before the
\* recalculation.
RemovedHashes(t) == {<<NodeHash(t, Left(p)), NodeHash(t, Right(p))>> : p \in Visited(t)}

\* Tree::known_hashes, and those of them that hash_set_callback is called for: at
\* the nodes that were visited.
Rows(t, at) ==
    {[left |-> NodeHash(t, Left(p)), right |-> NodeHash(t, Right(p)), result |-> t[p].hash] : p \in at}
KnownHashes(t) == Rows(t, Parents(t))
SetHashes(t, before) == Rows(t, Visited(before))

----------------------------------------------------------------------------
\* Tree::root_hash_with: the root if elements were inserted, without inserting.
LeafHashWith(t, es, p) ==
    IF Len(p) = Levels - 1 /\ t[p].kind = "empty" /\ Under(es, p) # {}
    THEN <<CHOOSE e \in Under(es, p) : TRUE>> ELSE NodeHash(t, p)
RootHashWith(t, es, kn) ==
    Rehashed({p \in Inner : Under(es, p) # {}}, [p \in Places |-> LeafHashWith(t, es, p)], kn)[<<>>]

\* The place next to the one that k bits of the way p lead to
Beside(p, k) == [i \in 1 .. k |-> IF i = k THEN 1 - p[k] ELSE p[i]]

\* Mutation: the siblings below an empty node are of its own depth.
PathForDepth(t, e) ==
    [j \in 1 .. Levels - 1 |->
        IF t[SubSeq(Lsb(e), 1, Levels - 1 - j)] = Empty THEN EmptyTreeHash[j + 1]
        ELSE NodeHash(t, Beside(Lsb(e), Levels - j))]

\* Tree::path_for, in the order of the path it returns: from the leaf up.
PathFor(t, e) == [j \in 1 .. Levels - 1 |-> NodeHash(t, Beside(Lsb(e), Levels - j))]

\* get_merkle_paths: the path of an element, or an error when the tree lacks it;
\* get_merkle_paths_for_notes: the root, and the paths of those that are found.
MerklePaths(t, es) == [e \in es \cap entries |-> PathFor(t, e)]
MerklePathsForNotes(es) == [root |-> NodeHash(nodes, <<>>), paths |-> MerklePaths(nodes, es)]

\* Path::compute_root_hash over zk_primitives::compute_merkle_root.
ComputeRootHash(leaf, siblings, e) ==
    LET up[i \in 0 .. Levels - 1] ==
          IF i = 0 THEN leaf
          ELSE IF Lsb(e)[Levels - i] = 1 THEN HashMerge(siblings[i], up[i - 1])
                                         ELSE HashMerge(up[i - 1], siblings[i])
    IN  up[Levels - 1]

----------------------------------------------------------------------------
\* Batch::insert and merge refuse two elements with the same low bits, and
\* check_collisions those that the tree has.
Separate(es) == \A x, y \in es : Lsb(x) = Lsb(y) => x = y
Collides(es, with) == \E x \in es, y \in with : Lsb(x) = Lsb(y)
Batches == {es \in UNION {kSubset(n, Elements) : n \in 1 .. MaxBatch} : Separate(es)}

SmirkInit == /\ nodes = EmptyTree /\ entries = {} /\ initial = {}
             /\ stored = {} /\ known = {} /\ fails = 0

\* Mutation: what is removed is what the nodes have after the recalculation.
InsertBatchKeepsOld(es, ok) ==
    LET dirty == InsertNode(nodes, es)
        new == Recalculate(dirty, initial)
    IN  /\ ~Collides(es, entries)
        /\ nodes' = new /\ entries' = entries \cup es
        /\ IF ok
           THEN stored' = stored \cup es /\ known' = known \cup SetHashes(new, dirty) /\ fails' = fails
           ELSE fails < MaxFails /\ fails' = fails + 1 /\ UNCHANGED <<stored, known>>
        /\ UNCHANGED initial

\* Persistent::insert_batch.  The removal of a node's key precedes its setting, and
\* two nodes have the same key only when both of its halves are empty, which is
\* never set: a key that is both removed and set ends set.  The write of the batch
\* may fail after the tree in memory has changed.
InsertBatch(es, ok) ==
    LET dirty == InsertNode(nodes, es)
        new == Recalculate(dirty, initial)
        removed == RemovedHashes(dirty)
    IN  /\ ~Collides(es, entries)
        /\ nodes' = new
        /\ entries' = entries \cup es
        /\ \/ /\ ok
              /\ known' = {k \in known : <<k.left, k.right>> \notin removed} \cup SetHashes(new, dirty)
              /\ stored' = stored \cup es
              /\ UNCHANGED fails
           \/ /\ ~ok /\ fails < MaxFails
              /\ fails' = fails + 1
              /\ UNCHANGED <<stored, known>>
        /\ UNCHANGED initial

\* persist_hashes: hashes of the tree that the database lacks are added.
PersistHashes ==
    /\ known' = known \cup KnownHashes(nodes)
    /\ UNCHANGED <<nodes, entries, initial, stored, fails>>

\* load_tree: one batch of everything stored, hashed with the known hashes.
Load ==
    /\ initial' = known
    /\ entries' = stored
    /\ nodes' = Recalculate(InsertNode(EmptyTree, stored), known)
    /\ UNCHANGED <<stored, known, fails>>

SmirkNext == \/ \E es \in Batches, ok \in BOOLEAN : InsertBatch(es, ok)
             \/ PersistHashes
             \/ Load

SmirkSpec == SmirkInit /\ [][SmirkNext]_smirkVars

----------------------------------------------------------------------------
\* The reference: the hash of every place of the full tree over the elements.
HashesOf(es) ==
    LET h[p \in Places] ==
          IF p \in Inner THEN HashMerge(h[Left(p)], h[Right(p)])
          ELSE IF \E e \in es : Lsb(e) = p THEN <<CHOOSE e \in es : Lsb(e) = p>>
          ELSE <<>>
    IN  h
RootOf(es) == HashesOf(es)[<<>>]

(* The root in memory is the root of the elements, after any sequence of   *)
(* batches, failed writes and loads: no node keeps a stale hash            *)
(* (recalculate_hashes visits dirty nodes only), and the hashes read from  *)
(* the database do not change the result. And root_hash_with, by which a   *)
(* validator computes the root of a proposal before it commits, is the     *)
(* root after the commit.                                                  *)
RootsCanonical ==
    /\ NodeHash(nodes, <<>>) = RootOf(entries)
    /\ \A es \in Batches : ~Collides(es, entries) =>
           RootHashWith(nodes, es, initial) = RootOf(entries \cup es)

(* The path of any element proves what the tree has in its place: the      *)
(* element, another one with the same low bits, or null.  So the paths     *)
(* that a node gives its wallets lead to the root it gives with them.      *)
PathsProve ==
    \A e \in Elements :
        LET there == {<<x>> : x \in {x \in entries : Lsb(x) = Lsb(e)}}
            leaf == IF there = {} THEN <<>> ELSE CHOOSE x \in there : TRUE
            given == MerklePathsForNotes({e})
        IN  /\ ComputeRootHash(leaf, PathFor(nodes, e), e) = NodeHash(nodes, <<>>)
            /\ \A x \in DOMAIN given.paths :
                   ComputeRootHash(<<x>>, given.paths[x], x) = given.root

(* While no write has failed, the database holds the elements of the tree  *)
(* and the hash of each of its nodes, and obsolete hashes are removed,     *)
(* except of a pair of leaves: the lowest nodes have their new leaf before *)
(* hash_remove_callback looks at them, so that what it removes is what is  *)
(* set again.                                                              *)
DatabaseExact ==
    fails = 0 =>
        /\ stored = entries
        /\ KnownHashes(nodes) \subseteq known
        /\ \A k \in known \ KnownHashes(nodes) : Len(k.left) < 2 /\ Len(k.right) < 2
============================================================================
