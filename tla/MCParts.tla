------------------------------ MODULE MCParts ------------------------------
(***************************************************************************)
(* Three parts that share no state: the circuits, the tree of the nodes,   *)
(* and a follower's block cache.  A behaviour runs one of them.            *)
(***************************************************************************)
EXTENDS Circuits, SmirkTree, BlockCache

CONSTANT Refused  \* heights of blocks that validate_block refuses

VARIABLE part

\* Eight places.  A commitment's place depends on its value and its blinding, a
\* nullifier's on those of its note, a source's on its secret; some leaves collide.
MCPlace(leaf) == CASE Len(leaf) = 4 -> leaf[1] + 3 * leaf[3]
                   [] Len(leaf) = 3 -> 1 + 3 * leaf[2] + (IF leaf[1] = Zero THEN 0 ELSE leaf[1][1] + leaf[3])
                   [] Len(leaf) = 1 -> leaf[1]
                   [] OTHER -> 0
MCPosition(leaf) == [i \in 1 .. Depth |-> (MCPlace(leaf) \div 2^(i - 1)) % 2]

\* One block per height
MCBlock  == 0 .. MaxHeight
MCGood   == MCBlock \ Refused
MCHeight == [b \in MCBlock |-> b]

PartsInit ==
    /\ part \in {"circuits", "smirk", "cache"}
    /\ CircuitsInit /\ SmirkInit /\ Init
    /\ part # "cache" => height = 0

PartsNext ==
    /\ UNCHANGED part
    /\ \/ part = "circuits" /\ CircuitsNext /\ UNCHANGED <<smirkVars, vars>>
       \/ part = "smirk" /\ SmirkNext /\ UNCHANGED <<circuitVars, vars>>
       \/ part = "cache" /\ Next /\ UNCHANGED <<circuitVars, smirkVars>>

\* The fairness is the cache's: ReachesTip is about the behaviours that run it.
PartsSpec ==
    PartsInit /\ [][PartsNext]_<<part, circuitVars, smirkVars, vars>> /\ CacheFair
=============================================================================
