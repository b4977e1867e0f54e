------------------------------- MODULE Rollup -------------------------------
(***************************************************************************)
(* The rollup contract (eth/contracts/rollup, RollupV6 and what it         *)
(* inherits) as the provers, the burn substitutor and the users call it.   *)
(* A call is one step: it takes effect or it reverts.                      *)
(*                                                                         *)
(* The chain is a constant: block h has at most one transaction.  A root   *)
(* is the set of the blocks with a transaction below it, so that two       *)
(* different histories have different roots.  Every note is worth 1.       *)
(* Proofs and signatures are valid; the recent roots of transactions are   *)
(* taken to be in the ring of 64.                                          *)
(***************************************************************************)
EXTENDS Naturals, Integers, FiniteSets, FiniteSetsExt

CONSTANTS Chain,        \* height -> [kind, id]; kind of "empty", "mint", "burn", "send"
          StartTip      \* blocks committed before the provers start, of kind "empty" or "send"

ASSUME RollupAssumption ==
    /\ StartTip \in Nat
    /\ \A h \in DOMAIN Chain : h \in Nat \ {0} /\ Chain[h].kind \in {"empty", "mint", "burn", "send"}
    /\ \A h \in 1 .. StartTip : h \in DOMAIN Chain /\ Chain[h].kind \in {"empty", "send"}

VARIABLES tip,          \* blocks the nodes have committed
          contract,     \* the contract's storage
          usdc,         \* USDC of the contract, the substitutor and each burn's receiver
          blacklist     \* receivers that USDC refuses

rollupVars == <<tip, contract, usdc, blacklist>>

----------------------------------------------------------------------------
Heights == DOMAIN Chain
HasTxn(h) == Chain[h].kind # "empty"
Root(h) == {k \in 1 .. h : HasTxn(k)}
Ids(kind) == {Chain[h].id : h \in {k \in Heights : Chain[k].kind = kind}}
Substitutor == "substitutor"
Accounts == Ids("burn") \cup {Substitutor, "contract"}
NoBurn == [to |-> "none", amount |-> 0]

\* Leaves of mints, nullifiers of burns and addresses differ, and a note is burnt once.
ASSUME IdsAssumption ==
    /\ IsFiniteSet(Ids("burn"))
    /\ Ids("burn") \cap (Ids("mint") \cup {Substitutor, "contract"}) = {}
    /\ \A h, k \in Heights : /\ Chain[h].kind = "burn" /\ Chain[k].kind = "burn"
                             /\ Chain[h].id = Chain[k].id
                             => h = k

RollupInit ==
    /\ tip = StartTip
    /\ contract = [height |-> 0, root |-> {}, mints |-> {},
                   kind |-> [b \in Ids("burn") |-> 0],
                   burns |-> [b \in Ids("burn") |-> NoBurn],
                   toRouter |-> {}, substituted |-> {}, rolledUp |-> {}]
    /\ usdc = [a \in Accounts |-> IF a = Substitutor THEN Cardinality(Ids("burn")) ELSE 0]
    /\ blacklist = {}

\* mint, mintWithAuthorization: the money is taken, the commitment is added once.
Mint(m) ==
    /\ m \notin contract.mints
    /\ contract' = [contract EXCEPT !.mints = @ \cup {m}]
    /\ usdc' = [usdc EXCEPT !["contract"] = @ + 1]
    /\ UNCHANGED <<tip, blacklist>>

\* setBurnsKind: a nullifier has one burn, ever.
BurnIsNew(b) == contract.kind[b] = 0 /\ contract.burns[b].amount = 0

\* burn, burnToAddress
BurnToAddress(b) ==
    /\ BurnIsNew(b) /\ b \notin blacklist
    /\ contract' = [contract EXCEPT !.burns[b] = [to |-> b, amount |-> 1]]
    /\ UNCHANGED <<tip, usdc, blacklist>>

BurnToRouter(b) ==
    /\ BurnIsNew(b) /\ b \notin blacklist
    /\ contract' = [contract EXCEPT !.kind[b] = 1, !.toRouter = @ \cup {b}]
    /\ UNCHANGED <<tip, usdc, blacklist>>

Blacklist(b) ==
    /\ b \notin blacklist
    /\ blacklist' = blacklist \cup {b}
    /\ UNCHANGED <<tip, contract, usdc>>

\* What nodes, provers and the substitutor read: get_mint, has_burn,
\* was_burn_substituted, root_hash, block_height of the contract's client.
GetMint(m) == m \in contract.mints
HasBurn(b) == ~BurnIsNew(b)
WasBurnSubstituted(b) == b \in contract.substituted
RootHash == contract.root
BlockHeight == contract.height

\* A validator puts a mint or a burn into a block once the contract has it.
Produce ==
    /\ tip + 1 \in Heights
    /\ Chain[tip + 1].kind = "mint" => GetMint(Chain[tip + 1].id)
    /\ Chain[tip + 1].kind = "burn" => HasBurn(Chain[tip + 1].id)
    /\ tip' = tip + 1
    /\ UNCHANGED <<contract, usdc, blacklist>>

----------------------------------------------------------------------------
\* executeBurn: to whom the money goes, or "none".  A burn to a router ends at the
\* router or, when its call fails, at the return address, both of the same user.
Found(c, b) == c.kind[b] = 1 \/ c.burns[b].amount # 0
BurnReceiver(c, b) ==
    LET to == IF c.kind[b] = 1 THEN b ELSE c.burns[b].to
    IN  IF Found(c, b) /\ to \notin blacklist THEN to ELSE "none"
Transfer(u, from, to) ==
    IF to = "none" THEN u ELSE [u EXCEPT ![from] = @ - 1, ![to] = @ + 1]

\* verifyTxn: a transaction without a mint or a burn is skipped, a burn that the
\* contract does not have reverts the block, one that cannot be paid does not.
VerifyTxnOk(t) ==
    CASE t.kind = "mint" -> t.id \in contract.mints
      [] t.kind = "burn" -> Found(contract, t.id)
      [] OTHER -> TRUE
VerifyTxnUsdc(t) ==
    IF t.kind = "burn" THEN Transfer(usdc, "contract", BurnReceiver(contract, t.id)) ELSE usdc
VerifyTxnLeaves(t) == IF t.kind \in {"mint", "burn"} THEN {t.id} ELSE {}

\* Mutation: the old root is not compared with the contract's.
VerifyBlockOkAnyRoot(proof) == VerifyTxnOk(Chain[proof.height])
VerifyBlockOk(proof) == proof.old = contract.root /\ VerifyTxnOk(Chain[proof.height])

VerifyBlock2(proof) ==
    IF VerifyBlockOk(proof)
    THEN /\ usdc' = VerifyTxnUsdc(Chain[proof.height])
         /\ contract' = [contract EXCEPT !.root = proof.new, !.height = proof.height,
                                         !.rolledUp = @ \cup VerifyTxnLeaves(Chain[proof.height])]
         /\ UNCHANGED <<tip, blacklist>>
    ELSE UNCHANGED rollupVars

\* Mutation: a leaf that was rolled up can be substituted.
SubstituteOkLate(b) ==
    /\ b \notin contract.substituted
    /\ BurnReceiver(contract, b) # "none" /\ usdc[Substitutor] > 0
SubstituteOk(b) ==
    /\ b \notin contract.substituted /\ b \notin contract.rolledUp
    /\ BurnReceiver(contract, b) # "none" /\ usdc[Substitutor] > 0

\* Mutation: the burn keeps its receiver.
SubstituteBurnKeep(b) ==
    IF SubstituteOk(b)
    THEN /\ usdc' = Transfer(Transfer(usdc, Substitutor, "contract"), "contract", BurnReceiver(contract, b))
         /\ contract' = [contract EXCEPT !.substituted = @ \cup {b}]
         /\ UNCHANGED <<tip, blacklist>>
    ELSE UNCHANGED rollupVars

\* substituteBurn: the sender pays the receiver now and is the receiver from then on.
SubstituteBurn(b) ==
    IF SubstituteOk(b)
    THEN /\ usdc' = Transfer(Transfer(usdc, Substitutor, "contract"), "contract", BurnReceiver(contract, b))
         /\ contract' = [contract EXCEPT !.substituted = @ \cup {b}, !.kind[b] = 0,
                                         !.burns[b] = [to |-> Substitutor, amount |-> 1]]
         /\ UNCHANGED <<tip, blacklist>>
    ELSE UNCHANGED rollupVars

UserNext ==
    \/ \E m \in Ids("mint") : Mint(m)
    \/ \E b \in Ids("burn") : BurnToAddress(b) \/ BurnToRouter(b) \/ Blacklist(b)
    \/ Produce
============================================================================
