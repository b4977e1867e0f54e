----------------------------- MODULE MCNodeSync -----------------------------
(* The sync worker of a node, two peers and a chain of a few blocks.       *)
EXTENDS NodeSync

MCHeightOf == [b \in Block |-> b]
MCFull     == [p \in Peer |-> 0]
=============================================================================
