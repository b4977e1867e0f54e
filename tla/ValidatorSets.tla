---------------------------- MODULE ValidatorSets ----------------------------
(***************************************************************************)
(* The validator sets of the rollup contract (RollupV1.sol), the copy each *)
(* node keeps of them (contracts/src/rollup.rs), the leaders that follow   *)
(* from the copies, and the signatures the contract wants for a block.     *)
(*                                                                         *)
(* The worker that keeps the copy listens to a log filter: the filter has  *)
(* the sets added after it was made.  A node ends when its worker ends     *)
(* (bin/node.rs) and is started again.  Forks are left out: a block is     *)
(* what its leader produced on the one chain.                              *)
(***************************************************************************)
EXTENDS Naturals, Sequences

CONSTANTS Nodes,
          FirstMembers,         \* the first set, a sequence of nodes
          Memberships,          \* bound: what the owner may appoint later
          MaxTransportErrors,   \* MAX_CONSECUTIVE_TRANSPORT_ERRORS
          MaxSets, MaxBlocks, MaxFailures   \* bounds

ASSUME ValidatorSetsAssumption ==
    /\ \A m \in Memberships \cup {FirstMembers} : m # <<>> /\ m \in Seq(Nodes)
    /\ MaxBlocks \in Nat

VARIABLES sets,         \* validatorSets: [from, members]
          setIndex,     \* validatorSetIndex
          rolled,       \* blockHeight of the contract
          signers,      \* block -> [by, known]: who produced it, knowing how many sets
          copies,       \* node -> its validator_sets
          keeper,       \* node -> its worker: [pc, events, errors, start]
          failures

setsVars == <<sets, setIndex, rolled, signers, copies, keeper, failures>>

Off == [pc |-> "off", events |-> <<>>, errors |-> 0, start |-> 0]
MembersOf(s) == {s.members[i] : i \in DOMAIN s.members}

\* initialize calls _setValidators(0, ...).
SetsInit ==
    /\ sets = <<[from |-> 0, members |-> FirstMembers]>>
    /\ setIndex = 1 /\ rolled = 0 /\ signers = <<>> /\ failures = 0
    /\ copies = [n \in Nodes |-> <<>>]
    /\ keeper = [n \in Nodes |-> Off]

----------------------------------------------------------------------------
\* The contract.  Indices are from 1 here, from 0 in the code.

\* setValidators; every filter gets the event.
SetValidators(from, members) ==
    /\ Len(sets) < MaxSets
    /\ sets[Len(sets)].from < from
    /\ sets' = Append(sets, [from |-> from, members |-> members])
    /\ keeper' = [n \in Nodes |->
                    IF keeper[n].pc \in {"wait", "reload"}
                    THEN [keeper[n] EXCEPT !.events = Append(@, Len(sets) + 1)] ELSE keeper[n]]
    /\ UNCHANGED <<setIndex, rolled, signers, copies, failures>>

GetValidatorSets(first) == SubSeq(sets, first, Len(sets))

\* Mutation: a set holds from the block after validFrom.
UpdatedSetIndexLate(height) ==
    CHOOSE i \in setIndex .. Len(sets) :
        /\ \A j \in setIndex + 1 .. i : sets[j].from < height
        /\ i < Len(sets) => sets[i + 1].from >= height
\* updateValidatorSetIndex: forward from the set of the last verified block.
UpdatedSetIndex(height) ==
    CHOOSE i \in setIndex .. Len(sets) :
        /\ \A j \in setIndex + 1 .. i : sets[j].from <= height
        /\ i < Len(sets) => sets[i + 1].from > height

\* The signatures of block h are the approvals in the header of block h + 1: that of
\* its producer alone.
Approvals(h) == {signers[h + 1].by}

\* More than two thirds of the set of the block have signed, and nobody else.
SignedBy(h, members) ==
    /\ ((Len(members) * 2) \div 3) + 1 <= 1
    /\ \E i \in DOMAIN members : Approvals(h) = {members[i]}

\* verifyBlock2, as far as validators are concerned; otherwise it reverts.
RollUp(h) ==
    /\ h > rolled /\ h < Len(signers)
    /\ SignedBy(h, sets[UpdatedSetIndex(h)].members)
    /\ setIndex' = UpdatedSetIndex(h)
    /\ rolled' = h
    /\ UNCHANGED <<sets, signers, copies, keeper, failures>>

----------------------------------------------------------------------------
\* The nodes

\* validators_for_height: the last set whose validFrom the height has reached
ValidatorsForHeight(n, height) ==
    LET valid == {i \in DOMAIN copies[n] : height >= copies[n][i].from}
    IN  copies[n][CHOOSE i \in valid : \A j \in valid : j <= i].members

Leader(n, height) ==
    LET members == ValidatorsForHeight(n, height)
    IN  members[(height % Len(members)) + 1]

\* Every validator proposes; the block of the leader is the one that validates.
ProduceBlock(n) ==
    LET height == Len(signers) + 1
    IN  /\ keeper[n].pc # "off" /\ height <= MaxBlocks
        /\ Leader(n, height) = n
        /\ signers' = Append(signers, [by |-> n, known |-> Len(copies[n])])
        /\ UNCHANGED <<sets, setIndex, rolled, copies, keeper, failures>>

\* RollupContract::load, when the node starts
LoadSets(n) ==
    /\ keeper[n].pc = "off"
    /\ copies' = [copies EXCEPT ![n] = GetValidatorSets(1)]
    /\ keeper' = [keeper EXCEPT ![n].pc = "loaded"]
    /\ UNCHANGED <<sets, setIndex, rolled, signers, failures>>

\* worker starts, once the node's databases are open.
ListenFirst(n) ==
    /\ keeper[n].pc = "loaded"
    /\ keeper' = [keeper EXCEPT ![n].pc = "wait", ![n].start = Len(sets)]
    /\ UNCHANGED <<sets, setIndex, rolled, signers, copies, failures>>

\* An event: the sets from the first one that is missing are fetched.
SetAdded(n) ==
    LET index == Head(keeper[n].events)
    IN  /\ keeper[n].pc = "wait" /\ keeper[n].events # <<>>
        /\ copies' = IF index > Len(copies[n])
                     THEN [copies EXCEPT ![n] = @ \o GetValidatorSets(Len(@) + 1)]
                     ELSE copies
        /\ keeper' = [keeper EXCEPT ![n].events = Tail(@), ![n].errors = 0]
        /\ UNCHANGED <<sets, setIndex, rolled, signers, failures>>

\* Any error ends the node, as does one transport error too many.
EndNode(n) ==
    /\ keeper' = [keeper EXCEPT ![n] = Off]
    /\ copies' = [copies EXCEPT ![n] = <<>>]

NodeEnds(n) ==
    /\ keeper[n].pc # "off" /\ failures < MaxFailures
    /\ EndNode(n)
    /\ failures' = failures + 1
    /\ UNCHANGED <<sets, setIndex, rolled, signers>>

TransportError(n) ==
    /\ keeper[n].pc \in {"wait", "relisten"} /\ failures < MaxFailures
    /\ failures' = failures + 1
    /\ IF keeper[n].errors = MaxTransportErrors
       THEN EndNode(n)
       ELSE /\ keeper' = [keeper EXCEPT ![n].pc = "relisten", ![n].errors = @ + 1,
                                        ![n].events = <<>>]
            /\ UNCHANGED copies
    /\ UNCHANGED <<sets, setIndex, rolled, signers>>

\* A new filter, then all sets: what is added in between is in both.
Relisten(n) ==
    /\ keeper[n].pc = "relisten"
    /\ keeper' = [keeper EXCEPT ![n].pc = "reload"]
    /\ UNCHANGED <<sets, setIndex, rolled, signers, copies, failures>>
ReloadSets(n) ==
    /\ keeper[n].pc = "reload"
    /\ copies' = [copies EXCEPT ![n] = GetValidatorSets(1)]
    /\ keeper' = [keeper EXCEPT ![n].pc = "wait"]
    /\ UNCHANGED <<sets, setIndex, rolled, signers, failures>>

SetsNext ==
    \/ \E from \in 1 .. MaxBlocks, m \in Memberships : SetValidators(from, m)
    \/ \E h \in 1 .. MaxBlocks : RollUp(h)
    \/ \E n \in Nodes :
         \/ ProduceBlock(n) \/ LoadSets(n) \/ ListenFirst(n) \/ SetAdded(n)
         \/ NodeEnds(n) \/ TransportError(n) \/ Relisten(n) \/ ReloadSets(n)

SetsSpec == SetsInit /\ [][SetsNext]_setsVars

----------------------------------------------------------------------------
(* A node's copy is the beginning of the contract's sequence, whatever the *)
(* worker fetches twice, retries or gets late (validator_sets is extended  *)
(* by what is fetched from its own length on).                             *)
CopiesArePrefixes ==
    \A n \in Nodes : keeper[n].pc # "off" =>
        copies[n] = SubSeq(sets, 1, Len(copies[n])) /\ copies[n] # <<>>

(* A set that a listening node lacks is announced by an event it still has *)
(* to read; the only ones it can miss were added after it loaded the sets  *)
(* and before it made its first filter.                                    *)
MissedOnlyAtStart ==
    \A n \in Nodes : keeper[n].pc = "wait" =>
        \A i \in Len(copies[n]) + 1 .. Len(sets) :
            \/ i <= keeper[n].start
            \/ \E k \in DOMAIN keeper[n].events : keeper[n].events[k] = i

(* The contract and the nodes agree about who signs: a block whose next    *)
(* block was produced by a node that knew every set valid for it can be    *)
(* rolled up, if the set has one validator and holds for both blocks.  The *)
(* last block of a set is signed by the next set, which the contract does  *)
(* not accept.                                                             *)
SetHolds(h) == {i \in DOMAIN sets : sets[i].from <= h}
RollsUpUnlessLast ==
    \A h \in rolled + 1 .. Len(signers) - 1 :
        LET same == SetHolds(h) = SetHolds(h + 1)
            knew == SetHolds(h + 1) \subseteq 1 .. signers[h + 1].known
            members == sets[UpdatedSetIndex(h)].members
        IN  knew /\ same /\ Len(members) = 1 => SignedBy(h, members)

ValidatorsAgree == CopiesArePrefixes /\ MissedOnlyAtStart /\ RollsUpUnlessLast
=============================================================================
