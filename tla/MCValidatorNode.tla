--------------------------- MODULE MCValidatorNode ---------------------------
(* Values for ValidatorNode: t1 and t2 spend the same note, t3 is a mint    *)
(* whose unused leaves are zero, as are those of t2.                        *)
EXTENDS ValidatorNode

CONSTANTS t1, t2, t3

MCInputs  == [k \in Txn |-> IF k = t3 THEN {} ELSE {"note"}]
MCOutputs == [k \in Txn |-> IF k = t1 THEN {"change"}
                            ELSE IF k = t2 THEN {} ELSE {"minted"}]
MCChanges == [k \in Txn |-> MCInputs[k] \cup MCOutputs[k]
                            \cup (IF k = t1 THEN {} ELSE {"zero"})]
MCLease   == 1..(MaxEmpty + Cardinality(Txn))
=============================================================================
