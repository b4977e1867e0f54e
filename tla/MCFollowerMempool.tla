-------------------------- MODULE MCFollowerMempool --------------------------
(* Values for FollowerMempool: t1 and t2 spend the same note.              *)
EXTENDS FollowerMempool

CONSTANTS t1, t2, t3

MCChanges == [k \in Txn |-> IF k = t3 THEN {"b"} ELSE {"a"}]
MCLease   == 1..MaxBlocks
=============================================================================
