------------------------------ MODULE Listing ------------------------------
(***************************************************************************)
(* How a node shows its chain: the block store, commit_stream, and the     *)
(* pages of list_blocks and list_txns with their cursors.  A commit writes *)
(* the block and then tells the listeners; a fast snapshot moves the       *)
(* height without storing blocks, forward or back over empty ones.         *)
(* A block is its height and its number of transactions, a transaction is  *)
(* <<height, index in block>>.                                             *)
(***************************************************************************)
EXTENDS Integers, FiniteSets, SequencesExt

CONSTANTS MaxTip,       \* bound: height of the chain
          MaxTxns,      \* bound: transactions of a block
          MaxRestarts,  \* bound: restarts of the node
          MaxBacks,     \* bound: fast snapshots that set the height back
          Limits        \* page sizes a client asks for

ASSUME ListingAssumption == Limits \subseteq Nat

VARIABLES chain,        \* transactions per block, of every block of the network
          confirmed,    \* height of the node
          stored,       \* heights in the block store
          pending,      \* block written by a commit that has not told listeners, or 0
          streams,      \* commit streams: of the prover and of a polling request
          client,       \* one that pages through list_txns
          restarts, backs

listingVars == <<chain, confirmed, stored, pending, streams, client, restarts, backs>>

Streams == {"prover", "poll"}
Closed  == [pc |-> "closed", from |-> 0, out |-> <<>>]

ListingInit ==
    /\ chain = <<>> /\ confirmed = 0 /\ stored = {} /\ pending = 0 /\ restarts = 0 /\ backs = 0
    /\ streams = [s \in Streams |-> Closed]
    /\ client = [order |-> "asc", limit |-> 0, seen |-> <<>>, back |-> FALSE]

----------------------------------------------------------------------------
\* Listing

\* The keys in their order: the element of each rank.
Ascending(S) ==
    [i \in 1..Cardinality(S) |-> CHOOSE h \in S : Cardinality({k \in S : k <= h}) = i]
\* The elements of a sequence at some of its positions, in its order.
Filtered(s, I) == LET at == Ascending(I) IN [j \in DOMAIN at |-> s[at[j]]]
NonEmpty == {h \in stored : chain[h] > 0}

\* list: the keys between the bounds of the cursor.
Between(S, order, cursor) ==
    {h \in S : \/ cursor.type = "none"
               \/ cursor.inclusive /\ h = cursor.at
               \/ IF (cursor.type = "after") = (order = "asc") THEN h > cursor.at
                                                               ELSE h < cursor.at}

\* list_paginated: the keys next to the cursor, in the order asked for.
ListPaginated(S, order, cursor, limit) ==
    LET up     == Ascending(Between(S, order, cursor))
        listed == IF order = "asc" THEN up ELSE Reverse(up)
        n      == Len(listed)
    IN  IF cursor.type = "before"
        THEN SubSeq(listed, IF n > limit THEN n - limit + 1 ELSE 1, n)
        ELSE SubSeq(listed, 1, IF n > limit THEN limit ELSE n)

TxnsOf(blocks) ==
    FlattenSeq([i \in DOMAIN blocks |->
        [j \in 1..chain[blocks[i]] |-> <<blocks[i], j - 1>>]])

NoCursor == [type |-> "none", at |-> 0, txn |-> 0]
After(t)  == [type |-> "after", at |-> t[1], txn |-> t[2]]
Before(t) == [type |-> "before", at |-> t[1], txn |-> t[2]]

\* Mutation: no extra block for those that the cursor filters out.
TxnPageTight(order, cursor, limit) ==
    LET blocks == ListPaginated(NonEmpty, order,
                      [type |-> cursor.type, at |-> cursor.at, inclusive |-> TRUE], limit)
        txns   == TxnsOf(blocks)
        fresh  == Filtered(txns, {i \in DOMAIN txns :
                      cursor.type = "none" \/ txns[i][1] # cursor.at \/ txns[i][2] > cursor.txn})
    IN  SubSeq(fresh, 1, IF Len(fresh) > limit THEN limit ELSE Len(fresh))
\* list_txns_inner: one more block than transactions, without those of the
\* cursor's block up to the cursor.
TxnPage(order, cursor, limit) ==
    LET blocks == ListPaginated(NonEmpty, order,
                      [type |-> cursor.type, at |-> cursor.at, inclusive |-> TRUE], limit + 1)
        txns   == TxnsOf(blocks)
        fresh  == Filtered(txns, {i \in DOMAIN txns :
                      cursor.type = "none" \/ txns[i][1] # cursor.at \/ txns[i][2] > cursor.txn})
    IN  SubSeq(fresh, 1, IF Len(fresh) > limit THEN limit ELSE Len(fresh))

\* list_blocks, with and without the empty ones; its cursors are exclusive.
BlockPage(skipEmpty, order, cursor, limit) ==
    ListPaginated(IF skipEmpty THEN NonEmpty ELSE stored, order,
                  [type |-> cursor.type, at |-> cursor.at, inclusive |-> FALSE], limit)

----------------------------------------------------------------------------
\* The node's side

\* A block is new, or one the node has had before a fast snapshot set it back.
Grow(n) ==
    /\ confirmed < MaxTip
    /\ IF confirmed < Len(chain) THEN n = chain[confirmed + 1] /\ UNCHANGED chain
                           ELSE chain' = Append(chain, n)
    /\ confirmed' = confirmed + 1

CommitStore(n) ==
    /\ pending = 0
    /\ Grow(n)
    /\ stored' = stored \cup {confirmed + 1}
    /\ pending' = confirmed + 1
    /\ UNCHANGED <<streams, client, restarts, backs>>

Sent(s, h) ==
    CASE s.pc = "registered" -> [s EXCEPT !.out = Append(@, h)]
      [] s.pc = "open" /\ h >= s.from -> [s EXCEPT !.out = Append(@, h)]
      [] OTHER -> s
CommitNotify ==
    /\ pending # 0
    /\ streams' = [s \in Streams |-> Sent(streams[s], pending)]
    /\ pending' = 0
    /\ UNCHANGED <<chain, confirmed, stored, client, restarts, backs>>

\* A fast snapshot: blocks are passed over, or empty ones come again.
FastForward(n) == Grow(n) /\ UNCHANGED <<stored, pending, streams, client, restarts, backs>>
FastBack(h) ==
    /\ h < confirmed /\ \A k \in h + 1 .. confirmed : chain[k] = 0
    /\ confirmed' = h
    /\ backs < MaxBacks /\ backs' = backs + 1
    /\ UNCHANGED <<chain, stored, pending, streams, client, restarts>>

Restart ==
    /\ restarts < MaxRestarts
    /\ restarts' = restarts + 1
    /\ pending' = 0
    /\ streams' = [s \in Streams |-> Closed]
    /\ UNCHANGED <<chain, confirmed, stored, client, backs>>

\* commit_stream registers a listener ...
\* (Streams do not see each other: one at a time stands for all.)
Register(s, from) ==
    /\ \A t \in Streams \ {s} : streams[t].pc = "closed"
    /\ streams' = [streams EXCEPT ![s] = [pc |-> "registered", from |-> from, out |-> <<>>]]
StreamRegister(from) ==
    /\ streams["prover"].pc = "closed"
    /\ Register("prover", from)
    /\ UNCHANGED <<chain, confirmed, stored, pending, client, restarts, backs>>

\* The filter of the stream.
SelectFrom(out, from) == Filtered(out, {i \in DOMAIN out : out[i] >= from})

\* Mutation: the listing has no upper end.
OpenedAll(s) == [s EXCEPT !.pc = "open",
    !.out = Ascending({h \in stored : h >= s.from}) \o SelectFrom(s.out, s.from)]
\* ... and after the first commit lists what is stored below it.
Opened(s) == [s EXCEPT !.pc = "open",
    !.out = Ascending({h \in stored : s.from <= h /\ h < Head(s.out)})
                \o SelectFrom(s.out, s.from)]
StreamFirst(s) ==
    /\ streams[s].pc = "registered" /\ streams[s].out # <<>>
    /\ streams' = [streams EXCEPT ![s] = Opened(@)]
    /\ UNCHANGED <<chain, confirmed, stored, pending, client, restarts, backs>>

StreamClose ==
    /\ streams["prover"].pc # "closed"
    /\ streams' = [streams EXCEPT !["prover"] = Closed]
    /\ UNCHANGED <<chain, confirmed, stored, pending, client, restarts, backs>>

----------------------------------------------------------------------------
\* The client: pages at either end of what it has seen

NextPage == TxnPage(client.order, After(Last(client.seen)), client.limit)
PrevPage == TxnPage(client.order, Before(Head(client.seen)), client.limit)

See(page, atEnd) ==
    client' = IF atEnd THEN [client EXCEPT !.seen = @ \o page]
                       ELSE [client EXCEPT !.seen = page \o @, !.back = TRUE]
ListFirst(order, limit) ==
    /\ client.seen = <<>> /\ TxnPage(order, NoCursor, limit) # <<>>
    /\ client' = [client EXCEPT !.order = order, !.limit = limit,
                                !.seen = TxnPage(order, NoCursor, limit)]
    /\ UNCHANGED <<chain, confirmed, stored, pending, streams, restarts, backs>>
ListNext ==
    /\ streams["poll"].pc = "closed" /\ client.seen # <<>> /\ NextPage # <<>>
    /\ See(NextPage, TRUE)
    /\ UNCHANGED <<chain, confirmed, stored, pending, streams, restarts, backs>>
ListPrev ==
    /\ streams["poll"].pc = "closed" /\ client.seen # <<>> /\ PrevPage # <<>>
    /\ See(PrevPage, FALSE)
    /\ UNCHANGED <<chain, confirmed, stored, pending, streams, restarts, backs>>

\* list_txns with poll: towards newer blocks an empty page waits for one.
NewerPage == IF client.order = "asc" THEN NextPage ELSE PrevPage
NewestSeen == IF client.order = "asc" THEN Last(client.seen) ELSE Head(client.seen)
PollEmpty ==
    /\ streams["poll"].pc = "closed" /\ client.seen # <<>> /\ NewerPage = <<>>
    /\ streams' = [streams EXCEPT !["poll"].pc = "empty"]
    /\ UNCHANGED <<chain, confirmed, stored, pending, client, restarts, backs>>
\* A block committed in between is seen after the next commit.
PollRegister ==
    /\ streams["poll"].pc = "empty"
    /\ Register("poll", NewestSeen[1] + 1)
    /\ UNCHANGED <<chain, confirmed, stored, pending, client, restarts, backs>>
PollAnswer ==
    /\ streams["poll"].pc = "open"
    /\ \E h \in Range(streams["poll"].out) : chain[h] > 0
    /\ See(NewerPage, client.order = "asc")
    /\ streams' = [streams EXCEPT !["poll"] = Closed]
    /\ UNCHANGED <<chain, confirmed, stored, pending, restarts, backs>>
\* The time limit starts with the stream, which starts with a commit.
PollTimeout ==
    /\ streams["poll"].pc = "open"
    /\ streams' = [streams EXCEPT !["poll"] = Closed]
    /\ UNCHANGED <<chain, confirmed, stored, pending, client, restarts, backs>>

ListingNext ==
    \/ \E n \in 0..MaxTxns : CommitStore(n) \/ FastForward(n)
    \/ CommitNotify
    \/ \E h \in 0..MaxTip : FastBack(h)
    \/ Restart
    \/ \E from \in 1..MaxTip : StreamRegister(from)
    \/ \E s \in Streams : StreamFirst(s)
    \/ StreamClose
    \/ \E order \in {"asc", "desc"}, limit \in Limits : ListFirst(order, limit)
    \/ ListNext \/ ListPrev \/ PollEmpty \/ PollRegister \/ PollAnswer \/ PollTimeout

ListingSpec == ListingInit /\ [][ListingNext]_listingVars

----------------------------------------------------------------------------
(***************************************************************************)
(* A commit stream from a height has every block with transactions that    *)
(* the node committed from there on, however registration, commits, fast   *)
(* snapshots and restarts interleave, in order; only an empty block can    *)
(* come again.                                                             *)
(***************************************************************************)
StreamExact ==
    \A s \in Streams : LET out == streams[s].out IN
        streams[s].pc = "open" =>
            /\ {h \in NonEmpty \ {pending} : streams[s].from <= h /\ h <= confirmed} \subseteq Range(out)
            /\ \A i, j \in DOMAIN out : i < j => out[i] < out[j] \/ chain[out[j]] = 0

(***************************************************************************)
(* A client that follows the cursors of list_txns has seen a part of the   *)
(* list without gap or repetition, whatever is committed between its       *)
(* pages, and a page after the cursor is empty only at the end of the      *)
(* list.  Of pages before a cursor this is true while no block has two     *)
(* transactions.                                                           *)
(***************************************************************************)
All == TxnsOf(LET up == Ascending(NonEmpty) IN IF client.order = "asc" THEN up ELSE Reverse(up))
PagesExact ==
    client.seen # <<>> /\ (client.back => \A h \in stored : chain[h] <= 1) =>
        \E all \in {All} :
            /\ \E i \in DOMAIN all : client.seen = SubSeq(all, i, i + Len(client.seen) - 1)
            /\ NextPage = <<>> => Last(client.seen) = Last(all)

(***************************************************************************)
(* The page of list_blocks before the one that follows a page is that page *)
(* again, in both orders, with empty blocks and without.                   *)
(***************************************************************************)
BlocksTurnBack ==
    \A skip \in BOOLEAN, order \in {"asc", "desc"}, limit \in Limits :
        LET page == BlockPage(skip, order, NoCursor, limit)
            next == BlockPage(skip, order, After(<<Last(page), 0>>), limit)
        IN  page # <<>> /\ next # <<>> =>
                BlockPage(skip, order, Before(<<Head(next), 0>>), limit) = page

ListsSound == PagesExact /\ BlocksTurnBack
=============================================================================
