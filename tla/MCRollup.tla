------------------------------ MODULE MCRollup ------------------------------
EXTENDS RollupSystem

Block(kind, id) == [kind |-> kind, id |-> id]
LongChain == <<Block("send", "s1"), Block("send", "s2"), Block("send", "s3"), Block("empty", "none")>>
SendChain == <<Block("send", "s1"), Block("empty", "none"), Block("send", "s2"), Block("send", "s3")>>
BurnChain == <<Block("mint", "m1"), Block("burn", "b1"), Block("send", "s1")>>
=============================================================================
