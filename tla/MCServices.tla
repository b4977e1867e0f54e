----------------------------- MODULE MCServices -----------------------------
(***************************************************************************)
(* Five parts that share no state: listing, payment links, doomslug's      *)
(* approvals, the validator sets and the pool.  A behaviour runs one of    *)
(* them, since steps of the others would change nothing for it.            *)
(***************************************************************************)
EXTENDS Listing, PaymentLinks, Doomslug, ValidatorSets, Pool

VARIABLE part

MCStakeThis == [v \in Validators |-> IF v = "v1" THEN 2 ELSE 1]
MCStakeNext == [v \in Validators |-> 1]
MCFirst == <<"v1", "v2">>
MCMemberships == {<<"v1">>, <<"v2">>}

ServicesInit ==
    /\ part \in {"listing", "links", "doomslug", "sets", "pool"}
    /\ ListingInit /\ LinksInit /\ DoomslugInit /\ SetsInit /\ PoolInit

ServicesNext ==
    /\ UNCHANGED part
    /\ \/ part = "listing" /\ ListingNext
          /\ UNCHANGED <<linkVars, doomslugVars, setsVars, poolVars>>
       \/ part = "links" /\ LinksNext
          /\ UNCHANGED <<listingVars, doomslugVars, setsVars, poolVars>>
       \/ part = "doomslug" /\ DoomslugNext
          /\ UNCHANGED <<listingVars, linkVars, setsVars, poolVars>>
       \/ part = "sets" /\ SetsNext
          /\ UNCHANGED <<listingVars, linkVars, doomslugVars, poolVars>>
       \/ part = "pool" /\ PoolNext
          /\ UNCHANGED <<listingVars, linkVars, doomslugVars, setsVars>>

ServicesSpec ==
    ServicesInit /\ [][ServicesNext]_<<part, listingVars, linkVars, doomslugVars, setsVars, poolVars>>
=============================================================================
