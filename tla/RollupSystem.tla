---------------------------- MODULE RollupSystem ----------------------------
(***************************************************************************)
(* Users, validators, provers and the burn substitutor around one rollup   *)
(* contract.                                                               *)
(***************************************************************************)
EXTENDS BurnSubstitutor, ProverWorker

systemVars == <<rollupVars, subVars, proverVars>>

SystemInit == RollupInit /\ SubInit /\ ProverInit

ProversNext ==
    \/ UserNext /\ UNCHANGED <<subVars, proverVars>>
    \/ \E p \in Provers :
         \/ /\ ProverStep(p) \/ RollupStep(p) \/ Drop(p) \/ Crash(p) \/ Jump(p)
            /\ UNCHANGED <<rollupVars, subVars>>
         \/ Mine(p) /\ UNCHANGED subVars

SystemNext == ProversNext \/ (SubstitutorNext /\ UNCHANGED proverVars)

(* Users register and validators produce; processes run and are restarted; *)
(* a pending transaction is mined unless it is dropped.                    *)
SystemFair ==
    /\ WF_systemVars(UserNext /\ UNCHANGED <<subVars, proverVars>>)
    /\ \A p \in Provers :
         /\ WF_systemVars(ProverStep(p) /\ UNCHANGED <<rollupVars, subVars>>)
         /\ WF_systemVars(RollupStep(p) /\ UNCHANGED <<rollupVars, subVars>>)
         /\ WF_systemVars(Mine(p) /\ UNCHANGED subVars)

\* Without a substitutor, and with one
ProversSpec == SystemInit /\ [][ProversNext]_systemVars /\ SystemFair
SystemSpec == SystemInit /\ [][SystemNext]_systemVars /\ SystemFair

----------------------------------------------------------------------------
(* The contract only moves forward, and to the root that the chain has at  *)
(* its new height: no block with transactions is left out, rolled up twice *)
(* or out of order, whichever prover proved it, whatever was in its        *)
(* database when it stopped, and whenever its transaction is mined.        *)
ContractFollowsChain ==
    [][contract'.root # contract.root \/ contract'.height # contract.height =>
         /\ contract'.height \in contract.height + 1 .. tip
         /\ contract'.root = Root(contract'.height)]_systemVars

(* A prover on the commit stream has the tree of the block before: none    *)
(* ends with RootMismatch, a double spend or a tree that differs from the  *)
(* block, also after a crash between the tree, the database and Postgres,  *)
(* unless its node took a fast snapshot.  Whatever its node did, no proof  *)
(* of another history is stored, and none inserts a second proof of a      *)
(* block into Postgres, where unwrap on the primary key would end it       *)
(* (prover/worker.rs).                                                     *)
ProverTreeExact == \A p \in Provers :
    /\ gaps[p] = {} /\ pv[p].pc \in {"stream", "prove", "apply"} =>
           disk[p].tree = Root(pv[p].at - 1)
    /\ \A r \in disk[p].rollups : r.old = Root(r.height - 1) /\ r.new = Root(r.height)
    /\ pv[p].pc = "insert" => ~\E r \in rows : r.height = pv[p].at

(* block.rs:55: "Double-spend detected. This should never happen, this     *)
(* should have been caught before commit": the commit stream brings no     *)
(* prover a block whose leaves its tree has.                               *)
DoubleSpendNeverHappens == \A p \in Provers :
    Streams(p) /\ ~Ours(p, pv[p].at) => pv[p].at \notin disk[p].tree

(* The receiver of a burn gets its amount at most once, by substitution or *)
(* by the rollup of its block, also when the two race, a confirmation      *)
(* fails and the substitutor starts over.                                  *)
BurnPaidOnce == \A b \in Ids("burn") : usdc[b] <= 1

(* The substitutor is out of pocket for exactly the burns it paid whose    *)
(* blocks are not rolled up ("This will be returned to the msg.sender when *)
(* the rollup block for it is submitted"), and the contract has what was   *)
(* minted less the burns paid in rolled up blocks.                         *)
MoneyAddsUp ==
    /\ usdc[Substitutor] = Cardinality(Ids("burn")) - Cardinality(contract.substituted \ contract.rolledUp)
    /\ usdc["contract"] = Cardinality(contract.mints)
         - Cardinality({b \in contract.rolledUp \cap Ids("burn") : usdc[b] = 1})

(* Once the last block has a successor the contract catches up with it: a  *)
(* block that one prover skips because another one has its lock is not     *)
(* lost when that one stops.                                               *)
Provable == {h \in Heights : HasTxn(h) /\ h + 1 \in Heights}
EverythingRolledUp == tip = Max(Heights) ~> contract.height = Max(Provable)
============================================================================
