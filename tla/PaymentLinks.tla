---------------------------- MODULE PaymentLinks ----------------------------
(***************************************************************************)
(* The payment links of node/src/rpc/routes/payment_links.rs: a table in   *)
(* memory, read and written under one lock by the requests create, get,    *)
(* validate, claim, cancel, list and generate proof.                       *)
(***************************************************************************)
EXTENDS Integers

CONSTANTS LinkIds, Users,
          MaxTime       \* bound: the clock

VARIABLES links,        \* id -> link, or NoLink
          clock,        \* the clock, in a unit of an expiry
          paid          \* id -> successful claims since the link was created

linkVars == <<links, clock, paid>>

Nobody == "nobody"

ASSUME LinksAssumption == Nobody \notin Users

NoLink == [status |-> "none", recipient |-> Nobody, expires |-> 0, claimedBy |-> Nobody]

LinksInit ==
    /\ links = [id \in LinkIds |-> NoLink] /\ clock = 0
    /\ paid = [id \in LinkIds |-> 0]

Exists(id) == links[id].status # "none"
Expired(link) == clock > link.expires

----------------------------------------------------------------------------
\* Requests that only read

\* get_payment_link: the link as it is shown.
Shown(link) == IF link.status = "pending" /\ Expired(link) THEN "expired" ELSE link.status

\* validate_payment_link, for the recipient and expiry in the request.
Validate(link, recipient, expires) ==
    CASE link.status = "none" -> "not found"
      [] link.recipient # recipient \/ link.expires # expires -> "no match"
      [] Expired(link) -> "expired"
      [] link.status # "pending" -> link.status
      [] OTHER -> "valid"

\* list_payment_links: the filters, Nobody and "any" when absent.
IsListed(link, address, status, type) ==
    /\ link.status # "none"
    /\ address # Nobody => address \in {link.recipient, link.claimedBy}
    /\ status # "any" => Shown(link) = status
    /\ type = "sent" /\ address # Nobody => link.recipient = address
    /\ type = "received" /\ address # Nobody => link.claimedBy = address

\* generate_claim_proof looks at the status alone.
ProofGiven(link) == link.status = "pending"

----------------------------------------------------------------------------
\* Requests that write

\* A link of the same id is replaced, whatever its state.
Create(id, recipient, expires) ==
    /\ expires > clock
    /\ links' = [links EXCEPT ![id] = [status |-> "pending", recipient |-> recipient,
                     expires |-> expires, claimedBy |-> Nobody]]
    /\ paid' = [paid EXCEPT ![id] = 0]
    /\ UNCHANGED clock

\* Mutation: the status is not looked at again.
ClaimableLate(link) == ~Expired(link)
Claimable(link) == ~Expired(link) /\ link.status = "pending"

ClaimExpired(id) ==
    /\ Exists(id) /\ Expired(links[id])
    /\ links' = [links EXCEPT ![id].status = "expired"]
    /\ UNCHANGED <<clock, paid>>
ClaimOk(id, user) ==
    /\ Exists(id) /\ Claimable(links[id])
    /\ links' = [links EXCEPT ![id].status = "claimed", ![id].claimedBy = user]
    /\ paid' = [paid EXCEPT ![id] = @ + 1]
    /\ UNCHANGED clock

Cancel(id, recipient) ==
    /\ Exists(id)
    /\ links[id].recipient = recipient
    /\ links[id].status # "claimed"
    /\ links' = [links EXCEPT ![id].status = "cancelled"]
    /\ UNCHANGED <<clock, paid>>

Clock == clock < MaxTime /\ clock' = clock + 1 /\ UNCHANGED <<links, paid>>

\* The table is in memory only.
LinksLost ==
    /\ links' = [id \in LinkIds |-> NoLink]
    /\ paid' = [id \in LinkIds |-> 0]
    /\ UNCHANGED clock

LinksNext ==
    \/ \E id \in LinkIds, user \in Users :
          \/ ClaimOk(id, user) \/ Cancel(id, user)
          \/ \E t \in 1..MaxTime : Create(id, user, t)
    \/ \E id \in LinkIds : ClaimExpired(id)
    \/ Clock \/ LinksLost

LinksSpec == LinksInit /\ [][LinksNext]_linkVars

----------------------------------------------------------------------------
(***************************************************************************)
(* A link is claimed at most once after it was created, by the one it      *)
(* names, also after it has expired or was cancelled since.                *)
(***************************************************************************)
LinkClaimedOnce ==
    \A id \in LinkIds : LET link == links[id] IN
        /\ paid[id] = IF link.claimedBy = Nobody THEN 0 ELSE 1
        /\ link.status \in {"none", "pending"} => link.claimedBy = Nobody
        /\ link.status = "claimed" => link.claimedBy # Nobody

(***************************************************************************)
(* What get, validate and list say of a link is what claim would do now,   *)
(* and a claim that would succeed is given its proof.                      *)
(***************************************************************************)
ViewsAgree ==
    \A id \in LinkIds : LET link == links[id] IN Exists(id) =>
        /\ (Shown(link) = "pending") = Claimable(link)
        /\ (Validate(link, link.recipient, link.expires) = "valid") = Claimable(link)
        /\ IsListed(link, link.recipient, "pending", "sent") = Claimable(link)
        /\ Claimable(link) => ProofGiven(link)

PaymentLinksSound == LinkClaimedOnce /\ ViewsAgree
=============================================================================
