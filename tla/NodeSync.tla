------------------------------- MODULE NodeSync -------------------------------
(***************************************************************************)
(* A follower that is behind, and the peers that help it: the sync worker  *)
(* (sync.rs), the tick worker with its wake-ups (node/tick_worker.rs and   *)
(* primitives/tick_worker.rs), the block cache (BlockCache), the event     *)
(* handler (network_handler.rs, node/snapshot.rs) and the network (p2p2).  *)
(*                                                                         *)
(* One chain: a block is its height, the tree is the set of the blocks     *)
(* whose leaves it holds. A commit is one step here; FollowerStorage takes *)
(* it apart and crashes it. A snapshot id is random, so it is one that     *)
(* is not in use.                                                          *)
(***************************************************************************)
EXTENDS BlockCache, Sequences

CONSTANTS
    Peer,          \* the peers that serve snapshots
    FirstStored,   \* the lowest block each of them stores
    StartTip,      \* the highest block they all have at the start
    UnderWay,      \* the blocks up to it that still travel to the node
    NonEmpty,      \* the blocks that insert leaves
    Contract,      \* the heights the rollup contract may report
    Id,            \* bound: snapshot ids in use at once
    ChunkSize, Threshold, Prover,
    Word,          \* heights are unsigned: differences are taken modulo Word
    MaxReports,    \* bound: reports in the sync worker's channel
    MaxFaults      \* bound: lost messages and early timeouts

(* A block is its height.                                                  *)
OneChain == Block = 0..MaxHeight /\ HeightOf = [b \in Block |-> b]

ASSUME SyncAssumption ==
    /\ FirstStored \in [Peer -> Nat]
    /\ StartTip \in 0..MaxHeight /\ UnderWay \subseteq 1..StartTip
    /\ NonEmpty \subseteq 1..MaxHeight
    /\ Contract \subseteq 0..MaxHeight
    /\ ChunkSize \in Nat /\ Threshold \in Nat /\ Prover \in BOOLEAN
    /\ Word \in Nat /\ Word > MaxHeight
    /\ MaxReports \in Nat \ {0} /\ MaxFaults \in Nat

VARIABLES
    tree,        \* notes_tree
    tip,         \* the highest block the validator has broadcast
    peerHeight,  \* the confirmed height of each peer
    serving,     \* the peers whose event handler still runs
    net,         \* messages in flight
    channel,     \* the sync worker's channel
    sync,        \* what the sync worker is doing
    request,     \* the request it made last
    chunk,       \* what is left to apply of the chunk it received
    ticker,      \* background_worker: "run", "wait" or "sleep"
    permit,      \* the stored permit of its Notify
    faults

cache    == <<height, maxHeight, blocks, index, pc, blk>>
peers    == <<tip, peerHeight, serving>>
worker   == <<sync, request, chunk>>
syncVars == <<cache, tree, peers, net, channel, worker, ticker, permit, faults>>

NoRequest == [id |-> 0, to |-> 0, kind |-> "slow", peer |-> 0]

SyncInit ==
    /\ Init /\ height = 0
    /\ tree = {}
    /\ tip = StartTip
    /\ peerHeight = [p \in Peer |-> StartTip]
    /\ serving = Peer
    /\ net = {[type |-> "block", height |-> h] : h \in UnderWay}
    /\ channel = <<>>
    /\ sync = "idle" /\ request = NoRequest /\ chunk = {}
    /\ ticker = "run" /\ permit = FALSE
    /\ faults = 0

StateOf(h) == NonEmpty \cap (1..h)

(* The ids of the messages under way and of the last request.              *)
InUse == {m.id : m \in {n \in net : n.type # "block"}}
         \cup {channel[i].id : i \in DOMAIN channel} \cup {request.id}
-----------------------------------------------------------------------------
(* The validator produces and broadcasts a block; the peers commit it.     *)
Broadcast ==
    /\ tip < MaxHeight
    /\ tip' = tip + 1
    /\ net' = net \cup {[type |-> "block", height |-> tip + 1]}
    /\ UNCHANGED <<cache, tree, peerHeight, serving, channel,
                   worker, ticker, permit, faults>>

PeerCommit(p) ==
    /\ peerHeight[p] < tip
    /\ peerHeight' = [peerHeight EXCEPT ![p] = @ + 1]
    /\ UNCHANGED <<cache, tree, tip, serving, net, channel, worker,
                   ticker, permit, faults>>

(* A request fails on its way, or its connection is closed; nobody sends   *)
(* it again.                                                               *)
Lose(m) ==
    /\ faults < MaxFaults
    /\ faults' = faults + 1
    /\ net' = net \ {m}
    /\ UNCHANGED <<cache, tree, peers, channel, worker, ticker, permit>>

(* The answer of a peer enters the worker's channel when it is made: the   *)
(* network's delay is that of the request or of the worker.                *)
Answer(m, messages) ==
    /\ net' = net \ {m}
    /\ channel' = channel \o messages

(* handle_snapshot_request: a peer makes an offer if its height reaches    *)
(* the requested one; what it has stored it does not look at.              *)
ServeRequest(p, m) ==
    /\ m.type = "request" /\ m.peer = p /\ p \in serving
    /\ Answer(m, IF m.from > peerHeight[p]
                 THEN <<>>
                 ELSE <<[type |-> "offer", id |-> m.id, peer |-> p]>>)
    /\ UNCHANGED <<cache, tree, peers, worker, ticker, permit, faults>>

Lesser(a, b) == IF a < b THEN a ELSE b

Stored(p) == FirstStored[p]..peerHeight[p]

(* send_snapshot_chunk_slow: the blocks below `to` that are stored. The    *)
(* range of the cache is empty or backwards when the node has moved past   *)
(* `to`; a backwards range panics, which ends the peer's event handler.    *)
ServeSlow(p, m) ==
    LET to == Lesser(m.to, peerHeight[p] + 1) IN
    /\ m.type = "accept" /\ m.peer = p /\ p \in serving /\ m.kind = "slow"
    /\ \/ /\ m.from <= to
          /\ Answer(m, <<[type |-> "chunk", id |-> m.id, peer |-> p,
                          kind |-> "slow",
                          blocks |-> Stored(p) \cap (m.from..(to - 1))]>>)
          /\ UNCHANGED serving
       \/ /\ m.from > to
          /\ serving' = serving \ {p}
          /\ Answer(m, <<>>)
    /\ UNCHANGED <<cache, tree, tip, peerHeight, worker, ticker,
                   permit, faults>>

(* send_snapshot_chunk_fast: the target block, if there, and every leaf    *)
(* that the tree has up to it. The leaves of a peer's own fast snapshot,   *)
(* those below its first block, count as inserted at height 0.             *)
ServeFast(p, m) ==
    /\ m.type = "accept" /\ m.peer = p /\ p \in serving /\ m.kind = "fast"
    /\ Answer(m, <<[type |-> "chunk", id |-> m.id, peer |-> p, kind |-> "fast",
                    blocks |-> Stored(p) \cap {m.to},
                    elements |-> StateOf(FirstStored[p] - 1)
                                 \cup StateOf(Lesser(m.to, peerHeight[p]))]>>)
    /\ UNCHANGED <<cache, tree, peers, worker, ticker, permit, faults>>

(* A message to a peer whose handler has ended.                            *)
Unserved(m) ==
    /\ m.type \in {"request", "accept"} /\ m.peer \notin serving
    /\ net' = net \ {m}
    /\ UNCHANGED <<cache, tree, peers, channel, worker, ticker, permit, faults>>
-----------------------------------------------------------------------------
(* receive_proposal on the cache; the cache ignores old blocks.            *)
Receive(h) == IF h >= height THEN Insert(h) ELSE UNCHANGED cache

(* Mutation of Wake: a notification nobody waits for is forgotten.         *)
WakeWaiting == ticker' = "run" /\ permit' = FALSE

(* ticker.tick(): notify_one leaves a permit if the worker is not waiting. *)
Wake == ticker' = "run" /\ permit' = (ticker = "run")

(* handle_event for a block.                                               *)
DeliverBlock(m) ==
    /\ m.type = "block" /\ pc # "dead"
    /\ net' = net \ {m}
    /\ Receive(m.height)
    /\ Wake
    /\ UNCHANGED <<tree, peers, channel, worker, faults>>
-----------------------------------------------------------------------------
(* Message::OutOfSync, as long as the bound leaves room for another one.    *)
Reported ==
    IF Cardinality({i \in DOMAIN channel : channel[i].type = "behind"}) < MaxReports
    THEN Append(channel, [type |-> "behind", id |-> 0, max |-> maxHeight])
    ELSE channel

(* tick of a follower: commit the next block, or find that there is none.  *)
TickCommit ==
    /\ ticker = "run" /\ pc = "idle" /\ height + 1 \in Indexed
    /\ Confirm(height + 1)
    /\ tree' = tree \cup ({height + 1} \cap NonEmpty)
    /\ UNCHANGED <<maxHeight, pc, blk, peers, net, channel, worker, ticker,
                   permit, faults>>

TickLook ==
    /\ ticker = "run" /\ pc = "idle" /\ height + 1 \notin Indexed
    /\ pc' = "check"
    /\ UNCHANGED <<height, maxHeight, blocks, index, blk, tree, peers, net,
                   channel, worker, ticker, permit, faults>>

(* The end of the tick: is_out_of_sync panics on an empty index and ends   *)
(* the node; otherwise the worker hears of a node that is behind, and the  *)
(* ticker sleeps for five seconds or until somebody calls it, unless a     *)
(* permit makes it run again.                                              *)
TickEnd ==
    /\ ticker = "run" /\ pc = "check"
    /\ TickCheck
    /\ \/ /\ Indexed = {}
          /\ UNCHANGED <<channel, ticker, permit>>
       \/ /\ Indexed # {}
          /\ channel' = IF OutOfSync THEN Reported ELSE channel
          /\ permit' = FALSE
          /\ ticker' = IF permit THEN "run"
                       ELSE IF OutOfSync THEN "sleep" ELSE "wait"
    /\ UNCHANGED <<tree, peers, net, worker, faults>>

TickTimer ==
    /\ ticker = "sleep" /\ pc # "dead"
    /\ ticker' = "run"
    /\ UNCHANGED <<cache, tree, peers, net, channel, worker, permit, faults>>
-----------------------------------------------------------------------------
(* The worker takes the next message from its channel.                     *)
Take == /\ pc # "dead" /\ channel # <<>>
        /\ channel' = Tail(channel)

Offered == Head(channel).type = "offer" /\ Head(channel).id = request.id

Answered == /\ Head(channel).type = "chunk"
            /\ Head(channel).id = request.id
            /\ Head(channel).peer = request.peer

(* The worker is done with a report. It then sleeps for a second, which is *)
(* no different from taking the next message a second later.               *)
Rest == sync' = "idle" /\ request' = NoRequest /\ chunk' = {}

(* What the wait_for_ loops read and drop.                                 *)
Skip ==
    /\ Take
    /\ \/ sync = "idle" /\ Head(channel).type # "behind"
       \/ sync = "offer" /\ ~Offered
       \/ sync = "chunk" /\ ~Answered
    /\ UNCHANGED <<cache, tree, peers, net, worker, ticker, permit, faults>>

AlreadyInSync ==
    /\ Take /\ sync = "idle" /\ Head(channel).type = "behind"
    /\ ~OutOfSync
    /\ UNCHANGED <<cache, tree, peers, net, worker, ticker, permit, faults>>

(* handle_out_of_sync. The report may be older than the height, and the    *)
(* difference wraps; c is the contract's height, 0 if it cannot be read.   *)
Ask(id, c) ==
    LET m    == Head(channel)
        far  == (m.max - height) % Word > Threshold
        to   == height + 1 + ChunkSize
        fast == Prover /\ far /\ c > to
    IN
    /\ Take /\ sync = "idle" /\ m.type = "behind"
    /\ OutOfSync
    /\ id \notin InUse /\ \A i \in Id \ InUse : id <= i
    /\ c <= tip
    /\ request' = [id |-> id, peer |-> 0,
                   to |-> IF fast THEN c ELSE to,
                   kind |-> IF fast THEN "fast" ELSE "slow"]
    /\ net' = net \cup {[type |-> "request", id |-> id, peer |-> p,
                         from |-> height + 1] : p \in Peer}
    /\ sync' = "offer"
    /\ UNCHANGED <<cache, tree, peers, chunk, ticker, permit, faults>>

(* handle_snapshot_offer: the height is read again, the target is not.     *)
Accept ==
    LET p == Head(channel).peer IN
    /\ Take /\ sync = "offer" /\ Offered
    /\ request' = [request EXCEPT !.peer = p]
    /\ net' = net \cup {[type |-> "accept", id |-> request.id, peer |-> p,
                         from |-> height + 1, to |-> request.to,
                         kind |-> request.kind]}
    /\ sync' = "chunk"
    /\ UNCHANGED <<cache, tree, peers, chunk, ticker, permit, faults>>

(* No offer within ten seconds or no chunk within the configured time. As  *)
(* long as an answer may still come this counts as a fault.                *)
Pending == \/ \E m \in net : m.type # "block" /\ m.id = request.id
           \/ \E i \in DOMAIN channel : channel[i].id = request.id

Timeout ==
    /\ pc # "dead" /\ sync \in {"offer", "chunk"}
    /\ Pending => faults < MaxFaults
    /\ faults' = IF Pending THEN faults + 1 ELSE faults
    /\ Rest
    /\ UNCHANGED <<cache, tree, peers, net, channel, ticker, permit>>

TakeSlow ==
    /\ Take /\ sync = "chunk" /\ Answered /\ Head(channel).kind = "slow"
    /\ chunk' = Head(channel).blocks
    /\ sync' = "apply"
    /\ UNCHANGED <<cache, tree, peers, net, request, ticker, permit, faults>>

(* handle_snapshot_chunk_slow: one block after the other from the lowest,  *)
(* then a message to itself if blocks are still missing.                   *)
ApplySlow ==
    /\ pc # "dead" /\ sync = "apply"
    /\ \E h \in chunk :
        /\ \A i \in chunk : h <= i
        /\ Receive(h)
        /\ chunk' = chunk \ {h}
    /\ Wake
    /\ UNCHANGED <<tree, peers, net, channel, sync, request, faults>>

SlowDone ==
    /\ pc # "dead" /\ sync = "apply" /\ chunk = {}
    /\ channel' = IF OutOfSync THEN Reported ELSE channel
    /\ Rest
    /\ UNCHANGED <<cache, tree, peers, net, ticker, permit, faults>>

(* handle_snapshot_chunk_fast: the target block is there, its root is that *)
(* of the tree with the missing leaves, and its own leaves are missing.    *)
Missing == Head(channel).elements \ tree

(* Mutation of Fits: the root is not compared.                             *)
FitsUnchecked(to) == to \in NonEmpty => to \in Missing

Fits(to) == /\ tree \cup Missing = StateOf(to)
            /\ to \in NonEmpty => to \in Missing

FastRefused ==
    /\ Take /\ sync = "chunk" /\ Answered /\ Head(channel).kind = "fast"
    /\ \A to \in Head(channel).blocks : ~Fits(to)
    /\ Rest
    /\ UNCHANGED <<cache, tree, peers, net, ticker, permit, faults>>

FastInsert ==
    /\ Take /\ sync = "chunk" /\ Answered /\ Head(channel).kind = "fast"
    /\ \E to \in Head(channel).blocks :
        /\ Fits(to)
        /\ tree' = tree \cup (Missing \ {to})
        /\ Confirm(to - 1)
        /\ chunk' = {to}
    /\ sync' = "deliver"
    /\ UNCHANGED <<maxHeight, pc, blk, peers, net, request, ticker, permit,
                   faults>>

(* Mutation of FastDeliver: the target block is left to the slow sync.     *)
FastDeliverNothing ==
    /\ pc # "dead" /\ sync = "deliver"
    /\ Rest /\ Wake
    /\ UNCHANGED <<cache, tree, peers, net, channel, faults>>

FastDeliver ==
    /\ pc # "dead" /\ sync = "deliver"
    /\ \E to \in chunk : Receive(to)
    /\ Rest /\ Wake
    /\ UNCHANGED <<tree, peers, net, channel, faults>>
-----------------------------------------------------------------------------
Serve(p) == \E m \in net : ServeRequest(p, m) \/ ServeSlow(p, m) \/ ServeFast(p, m)
Deliver == \E m \in net : DeliverBlock(m) \/ Unserved(m)
Tick == TickCommit \/ TickLook \/ TickEnd \/ TickTimer
Work ==
    \/ Skip \/ AlreadyInSync \/ Accept \/ TakeSlow \/ ApplySlow \/ SlowDone
    \/ FastRefused \/ FastInsert \/ FastDeliver
    \/ \E id \in Id, c \in Contract \cup {0} : Ask(id, c)

SyncNext ==
    \/ Broadcast
    \/ \E p \in Peer : PeerCommit(p) \/ Serve(p)
    \/ \E m \in net : Lose(m)
    \/ Deliver \/ Tick \/ Work \/ Timeout

SyncSpec == SyncInit /\ [][SyncNext]_syncVars

(* The tasks run, requests arrive, and a timeout ends a wait for nothing.  *)
FairSyncSpec ==
    /\ SyncSpec
    /\ \A p \in Peer : WF_syncVars(PeerCommit(p)) /\ WF_syncVars(Serve(p))
    /\ WF_syncVars(Deliver)
    /\ WF_syncVars(Tick)
    /\ WF_syncVars(Work)
    /\ WF_syncVars(~Pending /\ Timeout)
-----------------------------------------------------------------------------
(* handle_snapshot_chunk_fast and the commits keep the tree on the state   *)
(* of the confirmed height, whichever answers arrive late. A fast snapshot *)
(* that comes too late may set the height back, so by this invariant never *)
(* below a block that inserted leaves.                                     *)
TreeAtHeight == tree = StateOf(height)

(* is_out_of_sync may only panic while a fast snapshot has confirmed the   *)
(* block below its target and not yet handed the target to the cache.      *)
PanicOnlyInWindow == pc = "dead" => sync = "deliver"

(* Whatever is lost, late or closed: as long as the node runs and a peer   *)
(* with every block answers, the node commits every block it has heard of. *)
CatchesUpWithPeers ==
    <>[](\/ height = maxHeight
         \/ pc = "dead"
         \/ \A p \in serving : FirstStored[p] > 1)

(* sync.rs:456: "An out of sync node accepted our snapshot offer, we       *)
(* should send a snapshot chunk."                                          *)
AcceptIsServed == serving = Peer
=============================================================================
