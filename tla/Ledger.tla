------------------------------- MODULE Ledger -------------------------------
(***************************************************************************)
(* What a validator promises to those who submit transactions: a chain of  *)
(* blocks that only grows, in which no leaf occurs twice, and one answer   *)
(* to a request. "ok" means that the transaction is in the chain, "err"    *)
(* that it will not enter the chain from then on: it may be there already, *)
(* when a copy of it came from a peer. A refusal or a closed connection    *)
(* means nothing.                                                          *)
(***************************************************************************)
EXTENDS Sequences

CONSTANTS
    Txn, Client, NoTxn,
    Leaves,     \* the leaves of each transaction
    Retriable   \* transactions that may succeed after an "err"

VARIABLES
    chain,      \* the transactions of block 1, 2, ...
    request,    \* what each client asked for
    told        \* what it was told

Members == UNION {chain[i] : i \in DOMAIN chain}
Failed == {request[c] : c \in {c \in Client : told[c] = "err"}}

Init ==
    /\ chain = <<>>
    /\ request = [c \in Client |-> NoTxn]
    /\ told = [c \in Client |-> "open"]

(* A transaction is submitted; it may be refused at once.                  *)
Ask(c, k) ==
    /\ request[c] = NoTxn
    /\ request' = [request EXCEPT ![c] = k]
    /\ told' \in {told, [told EXCEPT ![c] = "refused"]}
    /\ UNCHANGED chain

Disjoint(k, m) == Leaves[k] \cap Leaves[m] = {}

Extend(B) ==
    /\ \A k \in B, m \in B \cup Members : k # m => Disjoint(k, m)
    /\ B \cap Members \subseteq {k \in Txn : Leaves[k] = {}}
    /\ B \cap Failed \subseteq Retriable
    /\ chain' = Append(chain, B)
    /\ UNCHANGED <<request, told>>

(* Several clients at once: a crash closes every open request.             *)
Tell(C, answer) ==
    /\ \A c \in C : request[c] # NoTxn /\ told[c] = "open"
    /\ answer = "ok" => \A c \in C : request[c] \in Members
    /\ told' = [c \in Client |-> IF c \in C THEN answer ELSE told[c]]
    /\ UNCHANGED <<chain, request>>

Next ==
    \/ \E c \in Client, k \in Txn : Ask(c, k)
    \/ \E B \in SUBSET Txn : Extend(B)
    \/ \E C \in SUBSET Client, answer \in {"ok", "err", "closed"} :
           Tell(C, answer)

Spec == Init /\ [][Next]_<<chain, request, told>>
=============================================================================
