-------------------------- MODULE BurnSubstitutor --------------------------
(***************************************************************************)
(* The burn substitutor (pkg/burn-substitutor): it reads the transactions  *)
(* of a node page by page and pays each burn out of its own funds before   *)
(* the block is rolled up.  An error ends the process; its supervisor      *)
(* starts it again without a cursor.                                       *)
(***************************************************************************)
EXTENDS Rollup, Sequences

CONSTANTS MaxSubFails   \* bound: errors of the substitutor

VARIABLES sub,          \* [pc, cursor, page, next]
          subPending,   \* substituteBurn transactions that wait to be mined, as a bag
          subFails

subVars == <<sub, subPending, subFails>>

NoCursor == 0 - 1
SubStopped == [pc |-> "tick", cursor |-> NoCursor, page |-> {}, next |-> NoCursor]

SubInit == sub = SubStopped /\ subPending = [b \in Ids("burn") |-> 0] /\ subFails = 0

\* fetch_last_rollup_block: burns below were executed by the rollup.
FirstCursor == BlockHeight

SubCursor ==
    /\ sub.pc = "tick" /\ sub.cursor = NoCursor
    /\ sub' = [sub EXCEPT !.cursor = FirstCursor]
    /\ UNCHANGED <<subPending, subFails>>

\* fetch_transactions, from the oldest to the newest
SubFetch ==
    /\ sub.pc = "tick" /\ sub.cursor # NoCursor
    /\ \E h \in sub.cursor + 1 .. tip : HasTxn(h)
    /\ LET page == {h \in sub.cursor + 1 .. tip : HasTxn(h)}
       IN  sub' = [sub EXCEPT !.pc = "page", !.page = page, !.next = Max(page)]
    /\ UNCHANGED <<subPending, subFails>>

\* The next transaction of the page: not a burn, a burn that was substituted, or one
\* to substitute.  A call that would revert fails when its gas is estimated.
SubNext ==
    /\ sub.pc = "page" /\ sub.page # {}
    /\ LET h == Min(sub.page)
           b == Chain[h].id
           todo == Chain[h].kind = "burn" /\ ~WasBurnSubstituted(b)
       IN  \/ /\ ~todo
              /\ sub' = [sub EXCEPT !.page = @ \ {h}]
              /\ UNCHANGED <<subPending, subFails>>
           \/ /\ todo /\ SubstituteOk(b)
              /\ subPending' = [subPending EXCEPT ![b] = @ + 1]
              /\ sub' = [sub EXCEPT !.pc = "confirm"]
              /\ UNCHANGED subFails
           \/ /\ todo /\ ~SubstituteOk(b)
              /\ sub' = SubStopped
              /\ UNCHANGED <<subPending, subFails>>

\* wait_for_confirm: a transaction that was mined is confirmed, reverted or not.
SubConfirm ==
    /\ sub.pc = "confirm"
    /\ LET h == Min(sub.page) IN
         /\ subPending[Chain[h].id] = 0
         /\ sub' = [sub EXCEPT !.pc = "page", !.page = @ \ {h}]
    /\ UNCHANGED <<subPending, subFails>>

\* The cursor moves past the page.
SubPageDone ==
    /\ sub.pc = "page" /\ sub.page = {}
    /\ sub' = [sub EXCEPT !.pc = "tick", !.cursor = sub.next]
    /\ UNCHANGED <<subPending, subFails>>

\* A request fails, or the transaction is unknown for a minute: the process ends.
SubError ==
    /\ subFails < MaxSubFails
    /\ sub' = SubStopped
    /\ subFails' = subFails + 1
    /\ \/ UNCHANGED subPending
       \/ \E b \in Ids("burn") : subPending[b] > 0 /\ subPending' = [subPending EXCEPT ![b] = @ - 1]

SubMine(b) ==
    /\ subPending[b] > 0
    /\ subPending' = [subPending EXCEPT ![b] = @ - 1]
    /\ SubstituteBurn(b)
    /\ UNCHANGED <<sub, subFails>>

SubstitutorNext ==
    \/ (SubCursor \/ SubFetch \/ SubNext \/ SubConfirm \/ SubPageDone \/ SubError) /\ UNCHANGED rollupVars
    \/ \E b \in Ids("burn") : SubMine(b)
============================================================================
