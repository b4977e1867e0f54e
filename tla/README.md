# A formal model of the Payy node

The repository implements a privacy-preserving payment rollup. A *validator*
node collects transactions, each a zero-knowledge proof that spends and creates
notes, and turns them into blocks; other nodes follow its chain; *prover* nodes
aggregate proofs and submit them to a contract on an Ethereum chain; a *burn
substitutor* pays out burns before their block is rolled up. This directory holds
TLA+ modules for these parts, the TLC configurations that check them, and TLAPS
proofs.

## Inventory

Paths are below `src/pkg/` unless they start with `eth/` or `mobile-app/`.

| Component | State | Operations | What is hard | What makes it correct | Module |
|---|---|---|---|---|---|
| Mempool (`node/src/mempool.rs`) | transactions by hash, the pool queue, leases by height, one waiting request per transaction | add, add_wait, commit, free, lease_txns, lease_batch | commit holds the lock twice; blocks lease unknown keys, twice, or out of order | a transaction is in one place; every waiting request is answered | `Mempool` |
| Block production (`node/src/node/{proposal,transaction,tick_worker,block}.rs`, `utxo.rs`, `block.rs`) | confirmed height, the proposal being made | submit, receive_transaction, create_proposal, commit_proposal | validation is separated from use by awaits; errors are assigned to transactions; crashes | no leaf twice; "ok" is durable; no valid transaction is rejected | `ValidatorNode`, `Ledger` |
| Follower transactions (the same files) | the mempool of a node that only relays | submit, receive_transaction, receive_proposal, tick | blocks out of order, twice, before the request waits | a request is told what its block says | `FollowerMempool` |
| Store, tree, recovery (`node/src/node/load.rs`, `block-store`, `smirk/src/storage`) | two RocksDB databases and the tree in memory | set, insert_batch, load_db_and_smirk, reset | two databases written one after the other; crash in between, failed write, fast sync in between | store, tree and height agree; a restart loses no block | `FollowerStorage` |
| Block cache (`node/src/cache.rs`) | confirmed height, greatest height seen, blocks by hash, hash by height | insert, confirm, remove, get_next_commit_block, is_out_of_sync | bounded, filled in any order, several blocks per height, lock per operation | index and blocks match; the next block stays available | `BlockCache` |
| Sync worker, tick worker (`node/src/sync.rs`, `primitives/src/tick_worker.rs`) | the snapshot under way; the ticker's permit | request, offer, accept, slow and fast chunks; wake, sleep | timeouts, late answers, a height that moves meanwhile, lost wake-ups | the node catches up, on the right tree | `NodeSync` |
| Merkle tree (`smirk`) | nodes with cached hashes, a database of elements and hashes | insert_batch, path_for, root_hash_with, load, persist | stale hashes, failed writes | the root is that of the elements | `SmirkTree` |
| Circuits (`zk-circuits`) | none | UTXO, insert, batch, aggregate, burn, mint, points, compliance | what a prover may choose freely | value is conserved, a leaf is inserted once | `Chips`, `Circuits` |
| Prover and rollup workers (`node/src/prover`, `prover`) | a tree and a database per prover, rows and advisory locks in Postgres | fill, follow the commit stream, prove, roll up | crashes, several provers, a fast snapshot below them, Ethereum's pool | every block is rolled up once, in order | `ProverWorker`, `RollupSystem` |
| Rollup contract (`eth/contracts/rollup`) | balances, mints, burns, substitutions, root, validator sets | mint, burn, verifyBlock2, substituteBurn, setValidators | order of mints, burns, substitutions and verified blocks | a burn is paid once; the balance covers the notes | `Rollup`, `ValidatorSets` |
| Burn substitutor (`burn-substitutor`) | a cursor | tick | retries after partial failure, races with the rollup | each burn is advanced at most once | `BurnSubstitutor` |
| Validator set (`node/src/node.rs`, `contracts/src/rollup.rs`) | each node's copy of the sets | load, listen, reload; leader and validators of a height | sets change while blocks are made; events lost or doubled | copies are prefixes of the contract's sets; blocks have the signatures the contract wants | `ValidatorSets` |
| Commit stream, listing (`node/src/node.rs`, `block-store/src`, `primitives/src/pagination.rs`, `node/src/rpc/routes/{txn,blocks}.rs`) | listeners, cursors | commit_stream, list_txns, list_blocks | registration between commits, pages while the chain grows | no block or transaction missed or repeated | `Listing` |
| Payment links (`node/src/rpc/routes/payment_links.rs`) | links and their status | create, claim, cancel, list | expiry racing claim and cancel | claimed at most once | `PaymentLinks` |
| Doomslug (`doomslug`) | approvals by height and block, a timer | on_approval, on_block, process_timer, ready_to_produce_block | replaced approvals, thresholds, delays | one block per height can be ready | `Doomslug` |
| Pool (`primitives/src/pool.rs`) | free values, waiters | get, drop | a waiter that gives up | a value has one holder | `Pool` |
| RPC library, network library, wire format, wallets | | | | not modelled, see the end | |

The components meet in the node's shared state: the RPC handlers and the network
handler put transactions into the mempool and blocks into the cache; the tick
worker takes from both, writes the store and then the tree, answers the requests
and notifies the commit streams; the sync worker writes the tree, the cache and the
height. Each of them is a task of its own; locks are taken for single operations.
Prover workers live in the process of a node, read its commit stream and tree, and
share a Postgres database; their rollup workers and the burn substitutor call the
contract.

## Modules

**Mempool** The operations of `mempool.rs`, one action per critical section
(`commit` is `Commit` followed by `Free`). It has no next-state relation:
`ValidatorNode` and `FollowerMempool` use different operations. A transaction is
its hash, a change is a leaf; `ChangesOf` includes the zero padding, which the
conflict check of `lease_batch` does not skip.

**ValidatorNode** (extends Mempool) The submit handlers, the network handler, the
tick worker and a crash. Validation and insertion of a transaction are separate
actions, since an await lies between them; each transaction of a batch is validated
in a step of its own; the error branches of `create_proposal` are the three
disjuncts of `TickValidateBlock`. A root is the set of leaves below it: the hash is
taken to be injective. The contract's answer for a mint or a burn is
nondeterministic.

**Ledger** The abstract specification of what a validator promises: a chain that
only grows, no leaf twice, one answer per request; "ok" only for what is in the
chain, and nothing that was answered "err" enters it afterwards (mints and burns
excepted, since the contract may confirm them later; a transaction may be in the
chain already when its request gets an "err", because a peer sent the same one).
`ValidatorNode` implements it with `chain <- store`, `request <- asked` and the
answers as the client sees them.

**FollowerMempool** (extends Mempool) A node that relays transactions and learns
their fate from blocks. The validator is `Produce`: any set of transactions that
were sent and do not conflict. Blocks are delivered in any order, repeatedly, or
never.

**FollowerStorage** The durable state of a follower: each step of the tick worker
between two lock acquisitions or writes, `load_db_and_smirk` with one action per
branch, a crash anywhere (also between the two renames of a reset), failed writes,
and the fast sync of a prover. `trouble` is a history variable: it says that since
the last start a write failed, or that fast sync overtook a commit.

**BlockCache** The cache between arrivals and the tick worker. A block is its hash,
`Good` are those that `validate_block` accepts. `pc = "dead"` stands for the panic
on an empty index, which ends `Node::run`.

**NodeSync** (extends BlockCache) A node that is behind and the peers that help it:
the sync worker's two waiting loops and its channel, `background_worker` with the
stored permit of its `Notify`, the handlers of the peers, messages in flight that
arrive in any order or are lost. A block is its height, a tree the set of the blocks
whose leaves it has; commits are one step, `FollowerStorage` takes them apart.
Heights are unsigned: `max_seen_height - height` of a report that is older than the
height is taken modulo `Word`. Snapshot ids are random in the code, so `Ask` takes
one that is not in use. The second the worker sleeps after a request is no different
from a report taken later. `handle_snapshot_request` looks only at the peer's
height, not at what it stores.

**SmirkTree** Inserting and marking nodes, recalculating their hashes, the batch that the
database writes, and the known hashes that a load starts from, against the root computed
over every position. A tree is a function from places (the bits of the way from the root)
to nodes; what lies below an empty node is empty. Where the code recurses over nodes, an
operator says which places it visits: inserting those with a new element below them,
recalculating those above which every node is marked. Only the hashes themselves are
computed by a recursive function.

**Chips, Circuits** `Chips` has the gates of the arithmetic chips over the field of
`P` elements: a witness row is any assignment of cells, and the properties say that
the gates leave exactly the intended ones. `Circuits` has one relation per circuit,
what a prover may choose against the public inputs it then proves, and the contract
that accepts blocks of two aggregates. Poseidon is injective (a hash is the sequence
that is hashed), so a root is the tree itself.

**Rollup, BurnSubstitutor, ProverWorker, RollupSystem** `Rollup` is the contract and
its users, one step per call; the chain is a constant, a block has at most one
transaction, and a root is the set of the blocks with a transaction below it.
`BurnSubstitutor` and `ProverWorker` extend it, `RollupSystem` composes the three.
A prover's tree, its own database, the rows and the session locks in Postgres, its
transaction in Ethereum's pool and the contract are separate pieces of state, and
each step of the workers between two of them is an action; a crash loses the memory
and the session, the transaction stays in the pool. `Jump` is a fast snapshot of the
node below a prover, chosen when it starts to matter: the blocks between the last
one the prover has got and the contract's height are then neither stored nor
committed, and their leaves have no height. Whether the node is far enough behind
for one is not modelled.

**Listing** The block store, commit streams of a prover and of a polling request,
and the cursors of `list_txns` and `list_blocks`. **PaymentLinks** The table of links
and a clock. **Doomslug** The approval trackers and the timer, as state machines over
a clock. **ValidatorSets** The sets in the contract, every node's copy with its load,
its event stream and its reload after a transport error, and the signatures of
blocks. **Pool** `get` and the drop of a guard, one action per step between two
operations on the mutex or a channel.

**MC modules** `MCParts` and `MCServices` run components that share no state; `part`
says which one a behaviour runs. `MCValidatorNode`, `MCFollowerMempool`,
`MCNodeSync` and `MCRollup` give constants their values.

**BoundedSets, MempoolLemmas** Lemmas about sets of numbers and sums over finite sets,
and about what the operations of the mempool do to the pool queue. **ValidatorNodeProofs,
FollowerMempoolProofs, FollowerStorageProofs, RollupProofs, PartsProofs** (the block
cache, `NodeSync`, the circuits, their chips and the tree of `smirk`) and **ServicesProofs** (payment links, validator
sets, pool, Doomslug, commit streams, pages) Theorems, see below.

Definitions announced as a *mutation* are plausible slips in the definition that
follows them. No specification uses them; replacing the definition by its
mutation must make TLC find the property that `PROJECT.json` pairs it with
violated, which shows that the property depends on that code.

## Runs

| Run | Shows | Bounds |
|---|---|---|
| storage_node | Agreement, LoadPanicsOnlyAtFirstBlock, NoBlockLost, CatchesUp for a follower | 4 blocks, 2 leaves, block 3 in `bad_blocks`, 2 crashes |
| storage_prover | Agreement, TreeIsPrefix with fast sync and a failed write | 4 blocks, 2 crashes, 1 failed write |
| validator | MempoolCoherent, NoDoubleSpend, OkIsDurable, NoInnocentRejected; EveryRequestAnswered; ImplementsLedger | 3 transactions, two of which spend one note, one mint; 2 clients, 1 peer message, 1 crash, 2 empty blocks, a window of 2 roots |
| follower | NothingLost, OkIsCommitted, ReleasedByCommit | 3 transactions, 2 clients, 2 blocks |
| parts | circuits: ChipsExact, ValueConserved, PublicInputsMatch, LeavesStay; tree: RootsCanonical, PathsProve, DatabaseExact; cache: IndexSound, NoOrphan, ConfirmedCached, ReachesTip | a field of 7 elements, values of 2 bits, 8 leaves, 2 blocks of two UTXO proofs; 4 elements of which two collide, 4 levels, 1 failed write; 8 heights, capacity 4, the last block invalid |
| provers | ProverTreeExact, ContractFollowsChain, EverythingRolledUp | 2 provers, 4 blocks with an empty one, 1 crash, timeout or fast snapshot, 1 dropped transaction |
| rollup | BurnPaidOnce, MoneyAddsUp | a mint, a burn and a transfer; 1 prover, 1 crash, 1 dropped transaction, 1 failure of the substitutor |
| sync | TreeAtHeight, PanicOnlyInWindow, CatchesUpWithPeers | 1 peer, 4 blocks of which the last has leaves, 3 of them there at the start; 2 ids, 1 lost message or early timeout, 1 report in the channel |
| services | StreamExact, ListsSound, PaymentLinksSound, DoomslugSafe, ValidatorsAgree, PoolSound | 3 blocks of up to 2 transactions, page sizes 1 and 2; 2 links, 2 users, 3 instants; 2 validators, 3 heights; 3 sets, 3 blocks, 2 failures; 3 tasks, 2 values, 4 gets |

The bounds are the least at which the cases of interest happen: a recovery needs two
stored blocks and a reset one more; conflicts need two transactions of one note, and
batches with an innocent bystander a third; eviction must have a choice between the
next block and a later one; a proof of a block needs its successor, and a prover that
skips a block another prover that has its lock; a late answer needs a second request;
a field of 7 elements has words of three bits that exceed the modulus and values of
two bits whose sums do not wrap. Crashes, jumps and timeouts of provers are those of
one of the two, which by symmetry is any. Nodes and clients that stop are legal, a
prover that has the last block waits for ever, and a pool may hang (see below), so no
run checks for deadlock; that something happens where it must is what the liveness
properties say.

Three runs expect a violation; each states what a comment or a message in the code
says and is recorded as a finding:

- **storage_race** A fast snapshot that arrives while the tick worker commits one
  of the blocks it covers makes `commit_proposal` panic.
- **sync_overtaken** A node that commits blocks from the network while it waits for
  an offer reads its new height when the offer comes, and keeps the target of its
  request. If it has passed the target, the range it accepts ends before it starts;
  the peer's `BTreeMap::range` panics, and the task that handles the peer's network
  events ends. `CatchesUpWithPeers` holds in spite of it only while a peer is left.
- **prover_replays** A prover whose node takes a fast snapshot while it runs ends with
  `RootMismatch`, starts again and completes its tree from the node's. The leaves of
  the snapshot count as inserted at height 0, so the last block seen is set to 0 with
  the whole tree's root; the commit stream starts at block 1, and applying the first
  stored block that has leaves panics, at every restart, until the contract is past
  that block. `ContractFollowsChain` holds in these behaviours, and
  `EverythingRolledUp` because the other prover goes on.

### Fairness

- *storage_node*: the tick worker is woken after every block (weak fairness of
  `Tick`), a node that is down is started again, and slow sync repeats its request
  every five seconds until the next block arrives.
- *validator*: the ticker is rescheduled a second after each proposal (weak fairness
  of `Tick`); nothing is assumed of clients, peers, the contract or a restart.
- *parts*: the fairness of the block cache only, which `ReachesTip` is about: the tick
  worker, and strong fairness for the arrival of the next good block, which a node
  that is out of sync keeps asking for.
- *sync*: weak fairness of the node's tasks and timers, of its peers' commits and
  answers, and of delivery; losses and early timeouts are bounded. No arrival of any
  particular message is assumed after that, so `CatchesUpWithPeers` depends on the
  wake-ups: with notifications that are forgotten it is violated.
- *provers*, *rollup*: users register, validators produce, each worker runs and a
  process that ended is started by its supervisor, and Ethereum mines a pending
  transaction or drops it.

## Known behaviours

What the code does and a reader may not expect; the models have all of it, and no
property contradicts it.

- After an exit between the two writes of block 1 every start panics
  (`node/load.rs:71`): block 0 is not stored. `LoadPanicsOnlyAtFirstBlock`.
- `submit_transaction_and_wait` sends the transaction before it waits
  (`transaction.rs:50`). At a follower a block committed in between leaves the request
  waiting for ever. A second request with the same transaction is closed.
- With two validators both propose at every height; the one that is not the leader
  rejects the whole batch with `InvalidSignature` (`proposal.rs:236`).
- The approvals of a block are in the header of the next one and only its producer's.
  So the last block of a validator set is signed by the next set, which the contract
  does not accept (`RollupV5.sol:349`), and with a set of two or more validators the
  two thirds of signatures it wants never come together. A set that is added between
  `RollupContract::load` and the worker's first filter is missed until the next
  event or transport error. `setValidators` checks neither that a set is non-empty
  nor that it lies ahead of the current height.
- A fast snapshot that comes late may set the confirmed height back, over empty
  blocks only (`TreeAtHeight`); these are then committed and streamed again. Between
  its `confirm` and its `receive_proposal` a tick finds an empty index and panics
  (`PanicOnlyInWindow`).
- Pages before a cursor lose or repeat transactions when a block has several
  (`routes/txn.rs:239`); `ListsSound` is about the others. A poll misses a block that
  is committed between its empty page and its registration, and its time limit starts
  only with the first commit after that.
- Creating a payment link with the id of another one replaces it. A second claim after
  the expiry turns a claimed link into an expired one, which can then be cancelled; it
  stays claimed by the first one.
- Doomslug: `ApprovalContent::hash` is a `todo!()` for skips, so these cannot be signed;
  with a total stake of 1 the threshold is 0.
- The pool hands a guard to a waiter under its mutex. When the waiter gives up between
  `is_closed` and `send`, the guard comes back and is dropped while the mutex is held,
  and its drop locks the mutex again. The pool has no user outside its tests yet.
- Obsolete hashes of the lowest inner nodes stay in the tree's database
  (`DatabaseExact`).
- `prove_transfer` also prepares a mint or a burn of two notes, which satisfies the
  circuit but not the public inputs computed for it (`PublicInputsMatch`).
- A leaf of a fast snapshot has no height: requests for its block fail.

## Theorems

All are proved for every value of the constants that the modules' assumptions
allow; further hypotheses are named below. An inductive invariant is called
`...Inv` and has its own comment; what follows says why it is needed.

`ValidatorNodeProofs`, for any transactions, clients, peer messages and crashes.
`EveryHeight` says that leases exist for all heights, as in the code, where a height
is never out of range; `ValidatorAssumption` has, apart from types, that inputs and
outputs are among the changes that conflicts are detected by.

- **MempoolCoherentHolds**. `LeaseInv`: all keys are in the pool, once, or in the
  lease for the next height, and that lease is what the worker's step has left of its
  batch. `SenderInv`: a request that waits is the sender of a transaction that is there.
- **NoDoubleSpendHolds**. `ChainInv` ties store, tree and height to the step of
  the worker, so a batch that was validated against the tree was validated against the
  store; `BatchInv` says that its transactions neither conflict with the tree nor
  with each other when it is stored.
- **OkIsDurableHolds** from `ChainInv` and `SenderInv`: the answers are sent after the
  block is stored, and to those whose transaction is in it.
- **NoInnocentRejectedHolds** and **ImplementsLedgerHolds**, if there is one validator.
  With more, a node that is not the leader rejects its whole batch (see Known
  behaviours), so the hypothesis cannot be dropped. `AnchorInv`: a transaction has the
  root of a stored block. `ProposalInv`: `lease_batch` leaves no conflict within a
  batch and the tree does not change between `validate_transaction` and
  `validate_block`, so what is found at fault is. For the refinement `ErrInv` says that
  a transaction answered "err" can never be part of a later block: a leaf of it is in
  the tree or its root has left the window.

`FollowerMempoolProofs`, for any blocks in any order: **NothingLostHolds**,
**OkIsCommittedHolds** and **ReleasedByCommitHolds** (an action property). A
follower's pool may hold a key twice and a lease may name unknown transactions, so
the invariant is weaker than a validator's: `Kept` (each transaction is pooled or
leased), `SenderInv`, and `SentInv`, by which leases are finite and `free` meets all
their keys.

`RollupProofs`, for any chain, number of provers, crashes, dropped transactions,
failures of the substitutor and fast snapshots, with the substitutor or without.
`IdsAssumption`: the ids of burns are finitely many, are those of one block each
and no mint's.

- **ContractFollowsChainHolds** (an action property). `ProofsInv`: each proof on a
  disk, in Postgres or in Ethereum's pool leads from the root of the block before to
  the root of its block. It holds with any fast snapshots, although those make the
  tree of a prover wrong: `gen_batch` refuses a leaf that the tree already has, and a
  tree that lacks one gives an old root which the block does not have.
- **ProverTreeExactHolds**. `TreeInv` relates the tree of a prover to the step its
  worker is at, `LockInv` says that who proves a block has its lock and that the
  rows have no proof of it.
- **BurnPaidOnceHolds**, **MoneyAddsUpHolds**. `BurnOk` is the life of one burn: whose
  it is, who was paid and by which block. The sums follow because a call changes the
  money of at most one unpaid burn.

`FollowerStorageProofs`, for every chain and number of blocks, crashes and failed
writes:

- **TypeCorrect**. `Shape` ties the process counters to the variables they govern;
  without it a confirmed height could leave its range.
- **AgreementHolds**, if fast sync is not used or no block's validation is skipped.
  The hypothesis is needed: a fast snapshot leaves out every leaf of its target block,
  also one that an earlier block had inserted, which only a block of `bad_blocks` can
  contain. `AgreeInv` adds that the commit in progress is that of the confirmed height.
- **NoBlockLostHolds** (an action property), **LoadPanicsOnlyAtFirstBlockHolds**,
  without fast sync and failed writes. `RecoveryInv`: the store is `1..n`, the tree's
  database is at block `n`, or at `n - 1` in the middle of a commit, and where the
  tick worker stands relative to `n`; the "too far out of sync" branch and any panic
  beyond block 1 contradict it.
- **TreeIsPrefixHolds**, with fast sync and failed writes, if no block's validation is
  skipped. `PrefixInv`: the tree has what the chain has below the block that is being
  committed, so inserting its leaves leads to a prefix again, also after an overtaking
  snapshot.

`PartsProofs`. The block cache, for any capacity:

- **IndexSoundHolds**, also with several blocks per height; **NoOrphanHolds**, if no
  two blocks share a height. With two, a block that is replaced in the index stays in
  the map. **ConfirmedCachedHolds**, with one block per height and room for three:
  `KeptInv` says that no block of the cache is below the confirmed one, so the last
  of three, which is the one evicted, is above the next.
- **TreeAtHeightHolds** and **PanicOnlyInWindowHolds** of `NodeSync`, for any number of
  peers, ids, losses and timeouts; `OneChain` is the module's own representation of
  blocks by their heights. `SyncInv` types the messages in flight by what is sent
  with what (a fast answer's range ends at a height the contract has verified), and
  `WindowInv` says that the index is empty only between the sync worker's `confirm` and
  its `receive_proposal` of the same snapshot.

The circuits, for a tree of any depth, any finite sets of notes and secrets and any
number of blocks. Two assumptions: the modulus has room for the sum of two values of
`RangeBits` bits (240 bits and a modulus of 254 in the code), and `Position` gives
each leaf a path of the tree's depth (that a leaf has only one is `ChipsExactHolds`). Two
leaves may share a position: one of them then has no place in the tree. Only
`PublicInputsMatchHolds` needs `SourceAssumption`, that the sources of notes do not,
which for 160 bits of a hash fails with negligible probability: a source that collides
with a listed one could not be shown compliant, and a list with a collision not built.

- **ValueConservedHolds** and **LeavesStayHolds** (an action property). `RootsInv`: the
  leaves of a root that the contract still knows are in the current tree, so a note that
  is proved against an old root is a note of the current one. `Sound`, of each tree:
  every leaf is at its position, hence in the tree once; every note was range checked as
  an output, so the circuit's sums modulo `P` are sums of numbers; a nullifier belongs to a
  note of the tree and its owner, so a note has one. The steps are `PathInsert` (recomputing a
  path from another leaf changes that leaf only), `BatchIs` (the leaves of a batch are
  new and different), `RangeBound` (the running sum of a decomposition is below the power
  of two), `UtxoIs` (what the constraints leave to the prover) and `Applied` (what a
  transaction adds to the worth of the notes that can be spent).
- **PublicInputsMatchHolds**. The two computations differ in the value at most
  (`InstanceIs`), which of two notes is the first note's exactly when the second is
  worth nothing, as no sum of range-checked values wraps around (`RequestIs`; that the
  notes of the tree are range-checked is `RootsInv`). For compliance, `Paired` says that
  every node above the leaves has two children: such a tree is what each of its paths
  computes (`PathBack`), inserting keeps it so, hence the tree of a list of sources can
  be built (`SourcesFit`) and a null leaf at a position is provable exactly when the
  leaf is null (`ComplianceMatches`).

The chips, for any prime modulus of fewer bits than a decomposition has
(`FieldAssumption`; 254 and 256 in the code):

- **ChipsExactHolds**. The provers know nothing of fields, so the laws that the gates
  need are proved of remainders: `NoZeroDivisors` and that
  every value but zero has an inverse, by the least positive multiple that a value has
  modulo `P`, which divides `P`. The running sum of a row is the number of its words
  modulo `P`; the comparison, read from its most significant bit, is over exactly where
  the prefixes first differ, so a row it accepts is below the modulus; and words
  below the modulus with the same number modulo `P` are the same words. The honest row
  is accepted because `decompose_word` gives the words of the number itself.

The tree of `smirk`, for any elements and any number of levels:

- **RootsCanonicalHolds**, **PathsProveHolds** and **DatabaseExactHolds**. `SmirkInv`: the
  nodes in memory are exactly `TreeOf` the elements, the tree whose every node has the
  reference's hash; every known hash, in the database or read at the last load, is a
  hash; what is stored is a subset of the elements, and all of them with exactly
  their rows while no write has failed. `FromLeavesUp` is the induction over places,
  stated of a set of places; with it `RehashedRight` shows that hashes computed at the
  visited nodes are right if those of the others are, which `DirtyIs` shows of the
  places without a new element below them. `OnePlace` is what `DatabaseExact` rests
  on: a hash that is not that of an empty tree is had by one place only, so the
  key of a row that is removed is not the key of a node that stays.

`ServicesProofs`:

- **PaymentLinksSoundHolds**, for any users and links (`LinksInv`).
- **ValidatorsAgreeHolds**, for any sets with a non-empty membership. `ContractInv`:
  the sequence of sets is strictly increasing in `validFrom`, so a copy, once a prefix,
  stays one. `SignersInv`: the producer of a block was its leader by the sets it knew.
- **PoolSoundHolds**, for any tasks and finitely many values. `PlacesInv` partitions
  the values into free, held and sent; `WaitersInv` and `TicketsInv` say that tickets
  are not shared and that a value in the pool means that all waiters gave up;
  `GuardInv` ties the mutex to the step of its holder.
- **DoomslugSafeHolds**, for any validators, stakes and delays that the assertion in
  `process_timer` allows. `TrackersInv`: the witnesses of a block are exactly those
  whose last approval it is, and their stake is what was added; so two ready blocks
  have disjoint witnesses with more than two thirds each, which is more than there is.
  The hypothesis `RealStakes` is needed: with a total stake of 1 the threshold is 0.
  `TimerInv`: an endorsement is due within half the skip delay, so none is pending at
  a timeout, and what was sent is at most the largest target.
- **StreamExactHolds** of `Listing`, for any chain. `ListingInv`: blocks above the
  confirmed height have no transactions, so one that has some is new when it is stored and
  lies beyond everything a stream was told; a stream that is registered has everything
  from the first block it was told, and what lies below comes from the store when it is
  polled.
- **ListsSoundHolds** of `Listing`, for any chain, page sizes and clients. `Lists` says
  that a sequence has the elements of a set in a strict order, each once; a set
  has one such listing (`ListsUnique`), and flattening, filtering and cutting keep
  it one (`TxnsListed`, `ListsFiltered`, `ListsFirst`). A page after a transaction is
  therefore a beginning of what comes after it (`PageNext`: the one block more that
  is fetched is what keeps it from being empty too early), and while every block has
  one transaction a page before one is an end of what comes before it (`PagePrev`:
  the cursor's block leaves the page, so nothing is cut off at the wrong end).
  `ClientInv`: what the client has seen is a part of the list without a gap; commits
  add to the list at one end only, by `ListingInv`. That `list_blocks` turns back to the
  same page (`TurnsBack`) holds in every state: a page that has a next one is full, and
  is all that comes before the first block of the next.

`BoundedSets` proves that a bounded set of natural numbers has a greatest element, from
the well-foundedness of `<`, that a fold over a finite set picks each element once, that
sums over disjoint sets add up, that a finite set of numbers is listed by the ranks of
its elements, and that a recursion over the first numbers has a function. The library's
induction theorems cannot be instantiated here, so each of these, the loop of
`process_timer` and every recursive function of the circuits is by a smallest
counterexample; what a recursive function computes is an explicit predicate (`IsUp`,
`IsDown`, `IsBatch`, `IsRunningSum`, `IsRehashed`) of which one shows that a function
exists. Some definitions have a form that this needs: `Ascending` and `Filtered` of
`Listing` are stated by rank, `BatchInsert` goes through its leaves in order by a
recursive function, `Power` replaces `2^RangeBits`, of which the provers know nothing,
the trees of `SmirkTree` are functions over places whose hashes are computed by a
recursive function, and `DecomposeWord` shifts a number bit by bit. `MempoolLemmas`
computes what adding, leasing, freeing and committing do to the pool queue as a set of
keys, and that they repeat none.

Proof attempts corrected the model twice. `Prove` did not refuse leaves that the
prover's tree has, which `gen_batch` does (`prover/src/lib.rs:337`), and without it
`ProofsInv` is not inductive. The assertion that the skip delay is at least twice the
endorsement delay stood in `Skip`; the code checks it in every round of the timer
(`doomslug.rs:469`), and there it is part of `TimerRound`.

Only model-checked:

- the liveness properties (`CatchesUp`, `EveryRequestAnswered`, `ReachesTip`,
  `EverythingRolledUp`, `CatchesUpWithPeers`): fairness and ENABLED are out of the
  prover's reach;
- the properties of the three runs that expect a violation, which are false.

## Plan

Every invariant and action property of the passing runs is proved. Next are models: fast
sync with `bad_blocks`, the ring of recent roots in the contract, several transactions per
block in `Rollup`, block production with two validators that take turns.

## Not modelled

- Poseidon, signatures and the verifier circuit of the aggregation: hashes are taken
  to be injective, proofs and signatures to be valid.
- The ring of 64 recent roots and the migrations between versions of the contract;
  forks through stale copies of the validator sets; blocks of `bad_blocks` outside
  `FollowerStorage`. The call of a router's burn is taken to fail when its user is on
  the blacklist.
- The lock of a prover in Postgres: "no row, and the lock is free" is one step of the
  query, and the release by a spawned task falls together with the end of the
  iteration.
- The development faucet (`routes/prove.rs:311`), which puts a leaf into the node's
  tree without a block.
- The peer-to-peer library, the USDC client and the RPC library are plumbing whose
  effects are inputs of the models. Wire formats carry no state. The wallets
  (`mobile-app`, `payment-web`, `wasm-prover`) are user interfaces. Scripts and test
  utilities are not part of the running system.
