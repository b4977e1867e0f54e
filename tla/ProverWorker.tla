---------------------------- MODULE ProverWorker ----------------------------
(***************************************************************************)
(* The provers (node/src/prover): each has a tree and a database on disk,  *)
(* a prover worker that follows the commit stream and proves the blocks it *)
(* locks in the shared Postgres database, and a rollup worker that sends   *)
(* proofs to the contract.  A prover stops at any step and is started      *)
(* again; its advisory locks end with its session, its Ethereum            *)
(* transaction stays in the pool.                                          *)
(***************************************************************************)
EXTENDS Rollup

CONSTANTS Provers,
          Faulty,       \* bound: those that may crash or whose node takes a fast snapshot
          MaxCrashes,   \* bound: crashes, timeouts and fast snapshots of all provers
          MaxDrops      \* bound: transactions dropped from Ethereum's pool

VARIABLES pv,           \* prover -> [pc, at, init]: prover worker, in memory
          rw,           \* prover -> [pc, proof]: rollup worker, in memory
          disk,         \* prover -> [tree, seen, root, rollups]
          rows,         \* rollup_proofs in Postgres
          locks,        \* advisory locks: <<prover, height, worker>>
          pool,         \* prover -> its pending Ethereum transaction
          gaps,         \* prover -> blocks that its node skipped by a fast snapshot
          crashes, drops

proverVars == <<pv, rw, disk, rows, locks, pool, gaps, crashes, drops>>

NoProof == [height |-> 0, old |-> {}, new |-> {}]
Down == [pc |-> "down", at |-> 0, init |-> 0]
RollupIdle == [pc |-> "idle", proof |-> NoProof]

ProverInit ==
    /\ pv = [p \in Provers |-> Down]
    /\ rw = [p \in Provers |-> RollupIdle]
    /\ disk = [p \in Provers |-> [tree |-> {}, seen |-> 0, root |-> {}, rollups |-> {}]]
    /\ rows = {} /\ locks = {} /\ crashes = 0 /\ drops = 0
    /\ pool = [p \in Provers |-> NoProof]
    /\ gaps = [p \in Provers |-> {}]

Go(p, pc) == pv' = [pv EXCEPT ![p].pc = pc]
SetLastSeen(p, h, root) == disk' = [disk EXCEPT ![p].seen = h, ![p].root = root]
Unlock(p, use) == {l \in locks : ~(l[1] = p /\ l[3] = use)}

\* The process ends: memory and session are gone.
Exit(p) ==
    /\ pv' = [pv EXCEPT ![p] = Down]
    /\ rw' = [rw EXCEPT ![p] = RollupIdle]
    /\ locks' = {l \in locks : l[1] # p}

----------------------------------------------------------------------------
\* run_prover, run_prover_worker until the commit stream

Boot(p) ==
    /\ pv[p].pc = "down"
    /\ pv' = [pv EXCEPT ![p] = [pc |-> "fill", at |-> 0, init |-> BlockHeight]]
    /\ UNCHANGED <<rw, disk, rows, locks, pool, gaps, crashes, drops>>

\* What the prover has got of its node: blocks, and for a proof the next one too.
Delivered(p) ==
    Max({0, disk[p].seen, IF pv[p].pc = "stream" THEN pv[p].at - 1 ELSE pv[p].at}
          \cup disk[p].tree \cup {r.height + 1 : r \in disk[p].rollups})

\* The node fell behind after some block and took a fast snapshot of the contract's
\* height: it has the leaves of the blocks in between, without their heights.
Jump(p) ==
    /\ p \in Faulty /\ crashes < MaxCrashes /\ gaps[p] = {}
    /\ crashes' = crashes + 1
    /\ \E h \in Delivered(p) + 1 .. BlockHeight - 1 :
           gaps' = [gaps EXCEPT ![p] = h .. BlockHeight - 1]
    /\ UNCHANGED <<pv, rw, disk, rows, locks, pool, drops>>

InsertedIn(p, h) == IF h \in gaps[p] THEN 0 ELSE h

\* Mutation: blocks that are not rolled up are taken too.
MissingAll(p) == Root(tip) \ disk[p].tree
\* What the contract had at the start is taken from the node's tree.
Missing(p) == {h \in Root(tip) : InsertedIn(p, h) <= pv[p].init /\ h \notin disk[p].tree}
Fill(p) ==
    /\ pv[p].pc = "fill"
    /\ disk' = [disk EXCEPT ![p].tree = @ \cup Missing(p)]
    /\ pv' = [pv EXCEPT ![p].pc = IF Missing(p) = {} THEN "check" ELSE "filled",
                        ![p].at = Max({0} \cup {InsertedIn(p, h) : h \in Missing(p)})]
    /\ UNCHANGED <<rw, rows, locks, pool, gaps, crashes, drops>>
FillSeen(p) ==
    /\ pv[p].pc = "filled"
    /\ SetLastSeen(p, pv[p].at, disk[p].tree)
    /\ Go(p, "check")
    /\ UNCHANGED <<rw, rows, locks, pool, gaps, crashes, drops>>

\* Mutation: the tree is not compared with the last block seen.
RootMatchesAlways(p) == TRUE
RootMatches(p) == disk[p].root = disk[p].tree

Check(p) ==
    /\ pv[p].pc = "check"
    /\ \/ /\ RootMatches(p)
          /\ pv' = [pv EXCEPT ![p].pc = "stream", ![p].at = disk[p].seen + 1]
          /\ UNCHANGED disk
       \/ /\ ~RootMatches(p)
          /\ SetLastSeen(p, 0, {})
          /\ Go(p, "wipe")
    /\ UNCHANGED <<rw, rows, locks, pool, gaps, crashes, drops>>

\* delete_smirk, then the panic that lets the supervisor restart the prover
Wipe(p) ==
    /\ pv[p].pc = "wipe"
    /\ disk' = [disk EXCEPT ![p].tree = {}]
    /\ Exit(p)
    /\ UNCHANGED <<rows, pool, gaps, crashes, drops>>

----------------------------------------------------------------------------
\* The commit stream

Next1(p) == pv' = [pv EXCEPT ![p].pc = "stream", ![p].at = @ + 1]

\* A block that the node skipped is neither stored nor committed.
StreamGap(p) ==
    /\ pv[p].pc = "stream" /\ pv[p].at \in gaps[p]
    /\ Next1(p)
    /\ UNCHANGED <<rw, disk, rows, locks, pool, gaps, crashes, drops>>

\* The next commit of the stream has, or has no, transactions.
Streams(p) == pv[p].pc = "stream" /\ pv[p].at <= tip /\ pv[p].at \notin gaps[p]

StreamEmpty(p) ==
    /\ Streams(p) /\ ~HasTxn(pv[p].at)
    /\ SetLastSeen(p, pv[p].at, Root(pv[p].at))
    /\ Next1(p)
    /\ UNCHANGED <<rw, rows, locks, pool, gaps, crashes, drops>>

\* we_are_the_prover_for_this_block: no proof in Postgres, and the lock is free.
\* Locks of one session do not exclude each other.
Ours(p, h) ==
    /\ h > pv[p].init
    /\ ~\E r \in rows : r.height = h
    /\ ~\E l \in locks : l[2] = h /\ l[1] # p

\* apply_block_to_tree panics when the tree has a leaf of the block.
ApplyBlock(p, h, then) ==
    IF h \in disk[p].tree
    THEN Exit(p) /\ UNCHANGED disk
    ELSE disk' = [disk EXCEPT ![p].tree = @ \cup {h}] /\ Go(p, then) /\ UNCHANGED <<rw, locks>>

StreamSkip(p) ==
    /\ Streams(p) /\ HasTxn(pv[p].at)
    /\ ~Ours(p, pv[p].at)
    /\ ApplyBlock(p, pv[p].at, "skipped")
    /\ UNCHANGED <<rows, pool, gaps, crashes, drops>>
SkipSeen(p) ==
    /\ pv[p].pc = "skipped"
    /\ SetLastSeen(p, pv[p].at, Root(pv[p].at))
    /\ Next1(p)
    /\ UNCHANGED <<rw, rows, locks, pool, gaps, crashes, drops>>

StreamLock(p) ==
    /\ Streams(p) /\ HasTxn(pv[p].at)
    /\ Ours(p, pv[p].at)
    /\ locks' = locks \cup {<<p, pv[p].at, "prove">>}
    /\ Go(p, "prove")
    /\ UNCHANGED <<rw, disk, rows, pool, gaps, crashes, drops>>

\* Prover::prove works on a copy of the tree: from the root it has to the root it
\* gets when the leaves of the block are inserted.
NewProof(p, h) == [height |-> h, old |-> disk[p].tree, new |-> disk[p].tree \cup {h}]
\* gen_batch: the copy refuses a leaf that it has.
GenBatchOk(p, h) == h \notin disk[p].tree

\* The worker waits for the next commit, whose approvals sign this block (after a gap
\* they sign another one, but then the contract is past this block); CollisionError and
\* RootMismatch end the process.  The proof is stored before the tree moves on.
Prove(p) ==
    LET h == pv[p].at
        proof == NewProof(p, h)
    IN  /\ pv[p].pc = "prove" /\ \E k \in h + 1 .. tip : k \notin gaps[p]
        /\ IF GenBatchOk(p, h) /\ proof.new = Root(h)
           THEN /\ disk' = [disk EXCEPT ![p].rollups = {r \in @ : r.height # h} \cup {proof}]
                /\ Go(p, "apply") /\ UNCHANGED <<rw, locks>>
           ELSE Exit(p) /\ UNCHANGED disk
        /\ UNCHANGED <<rows, pool, gaps, crashes, drops>>

Apply(p) ==
    /\ pv[p].pc = "apply"
    /\ ApplyBlock(p, pv[p].at, "seen")
    /\ UNCHANGED <<rows, pool, gaps, crashes, drops>>

Seen(p) ==
    /\ pv[p].pc = "seen"
    /\ SetLastSeen(p, pv[p].at, Root(pv[p].at))
    /\ Go(p, "insert")
    /\ UNCHANGED <<rw, rows, locks, pool, gaps, crashes, drops>>

\* The primary key refuses a second proof of a block; unwrap ends the process.
InsertRow(p) ==
    LET proof == CHOOSE r \in disk[p].rollups : r.height = pv[p].at
    IN  /\ pv[p].pc = "insert"
        /\ IF \E r \in rows : r.height = pv[p].at
           THEN Exit(p) /\ UNCHANGED rows
           ELSE /\ rows' = rows \cup {proof}
                /\ Next1(p)
                /\ locks' = Unlock(p, "prove")
                /\ UNCHANGED rw
        /\ UNCHANGED <<disk, pool, gaps, crashes, drops>>

----------------------------------------------------------------------------
\* run_rollup_worker

Up(p) == pv[p].pc # "down"

\* list_rollups: the proofs in the prover's own database above a height
RollupsAbove(p, h) == {r \in disk[p].rollups : r.height > h}

\* The first proof above the contract's height
PickRollup(p) ==
    LET above == RollupsAbove(p, BlockHeight)
    IN  /\ Up(p) /\ rw[p].pc = "idle" /\ above # {}
        /\ \E r \in above : /\ \A q \in above : r.height <= q.height
                            /\ rw' = [rw EXCEPT ![p] = [pc |-> "picked", proof |-> r]]
        /\ UNCHANGED <<pv, disk, rows, locks, pool, gaps, crashes, drops>>

\* When it does not continue the contract's root, the one that does is looked up in
\* Postgres: some minutes after it was added, and unless another prover has its lock.
ReadRoot(p) ==
    /\ rw[p].pc = "picked"
    /\ \/ /\ rw[p].proof.old = RootHash
          /\ rw' = [rw EXCEPT ![p].pc = "ready"]
          /\ UNCHANGED locks
       \/ /\ rw[p].proof.old # RootHash
          /\ \/ \E r \in rows :
                  /\ r.old = RootHash
                  /\ ~\E l \in locks : l[2] = r.height /\ l[1] # p
                  /\ rw' = [rw EXCEPT ![p] = [pc |-> "ready", proof |-> r]]
                  /\ locks' = locks \cup {<<p, r.height, "roll">>}
             \/ rw' = [rw EXCEPT ![p] = RollupIdle] /\ UNCHANGED locks
    /\ UNCHANGED <<pv, disk, rows, pool, gaps, crashes, drops>>

RollupEnds(p) == rw' = [rw EXCEPT ![p] = RollupIdle] /\ locks' = Unlock(p, "roll")

\* Client::call, after the worker has compared the pending with the latest nonce:
\* nothing is sent while a transaction of this signer is pending, nor when the
\* estimate of its gas reverts.
Sendable(p, proof) == pool[p] = NoProof /\ VerifyBlockOk(proof)
SendRollup(p) ==
    /\ rw[p].pc = "ready"
    /\ IF Sendable(p, rw[p].proof)
       THEN /\ pool' = [pool EXCEPT ![p] = rw[p].proof]
            /\ rw' = [rw EXCEPT ![p].pc = "sent"]
            /\ UNCHANGED locks
       ELSE RollupEnds(p) /\ UNCHANGED pool
    /\ UNCHANGED <<pv, disk, rows, gaps, crashes, drops>>

\* Mined or dropped, the receipt is not looked at.
RollupDone(p) ==
    /\ rw[p].pc = "sent" /\ pool[p] = NoProof
    /\ RollupEnds(p)
    /\ UNCHANGED <<pv, disk, rows, pool, gaps, crashes, drops>>

Drop(p) ==
    /\ pool[p] # NoProof /\ drops < MaxDrops
    /\ pool' = [pool EXCEPT ![p] = NoProof]
    /\ drops' = drops + 1
    /\ UNCHANGED <<pv, rw, disk, rows, locks, gaps, crashes>>

\* A crash, or a rollup transaction that is not mined within five minutes.
Crash(p) ==
    /\ p \in Faulty /\ Up(p) /\ crashes < MaxCrashes
    /\ crashes' = crashes + 1
    /\ Exit(p)
    /\ UNCHANGED <<disk, rows, pool, gaps, drops>>

Mine(p) ==
    /\ pool[p] # NoProof
    /\ pool' = [pool EXCEPT ![p] = NoProof]
    /\ VerifyBlock2(pool[p])
    /\ UNCHANGED <<pv, rw, disk, rows, locks, gaps, crashes, drops>>

ProverStep(p) ==
    \/ Boot(p) \/ Fill(p) \/ FillSeen(p) \/ Check(p) \/ Wipe(p)
    \/ StreamGap(p) \/ StreamEmpty(p) \/ StreamSkip(p) \/ SkipSeen(p) \/ StreamLock(p)
    \/ Prove(p) \/ Apply(p) \/ Seen(p) \/ InsertRow(p)
RollupStep(p) == PickRollup(p) \/ ReadRoot(p) \/ SendRollup(p) \/ RollupDone(p)
============================================================================
