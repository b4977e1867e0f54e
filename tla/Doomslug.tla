------------------------------ MODULE Doomslug ------------------------------
(***************************************************************************)
(* Doomslug (pkg/doomslug): the approvals a block producer collects per    *)
(* target height, and the timer that sends endorsements and skips.  The    *)
(* node calls on_approval from receive_accept; on_block and process_timer  *)
(* are the library's and have no caller in the node yet.                   *)
(* What an approval approves is <<"endorse", hash>> or <<"skip", height>>. *)
(***************************************************************************)
EXTENDS Integers, FiniteSetsExt, SequencesExt

CONSTANTS Validators,                   \* those with a stake
          StakeThis, StakeNext,         \* validator -> stake in two epochs
          BlockHashes,
          NoApprovals,                  \* threshold mode
          EndorsementDelay, MinDelay, DelayStep, MaxDelay,
          MaxTimerIters, HeightsAhead, HeightsBefore,
          MaxHeight, MaxNow,            \* bounds: heights, the clock
          MaxApprovals                  \* bound: approvals received

\* The delays of node/src/constants.rs, of which the library asserts the first.
ASSUME DoomslugAssumption ==
    /\ IsFiniteSet(Validators)
    /\ StakeThis \in [Validators -> Nat] /\ StakeNext \in [Validators -> Nat]
    /\ {EndorsementDelay, MinDelay, DelayStep, MaxDelay} \subseteq Nat
    /\ 2 * EndorsementDelay <= MinDelay /\ MinDelay <= MaxDelay
    /\ {MaxTimerIters, HeightsAhead, HeightsBefore, MaxHeight} \subseteq Nat

VARIABLES now, tip, timer,
          sentTarget,     \* largest_sent_target_height
          finalHeight,    \* largest_final_height
          pendingEndorse, \* endorsement_pending
          trackers,       \* target height -> what is approved -> tracker
          lastApproval,   \* target height -> validator -> what it approved last
          sent,           \* approvals that were sent, in order
          asserted,       \* the debug assertions of process_timer held
          received

timerVars == <<now, timer, sentTarget, pendingEndorse, sent, asserted>>
doomslugVars == <<timerVars, tip, finalHeight, trackers, lastApproval, received>>

Nothing == <<"nothing">>
Heights == 1..MaxHeight

DoomslugInit ==
    /\ now = 0
    /\ tip = [hash |-> "genesis", height |-> 0]
    /\ timer = [started |-> 0, endorsed |-> 0, height |-> 0]
    /\ sentTarget = 0 /\ finalHeight = 0 /\ pendingEndorse = FALSE
    /\ trackers = [t \in Heights |-> <<>>]
    /\ lastApproval = [t \in Heights |-> [v \in Validators |-> Nothing]]
    /\ sent = <<>> /\ asserted = TRUE /\ received = 0

\* ApprovalInner::new
Inner(hash, height, target) == IF target = height + 1 THEN <<"endorse", hash>> ELSE <<"skip", height>>

Smaller(a, b) == IF a < b THEN a ELSE b
Above0(n) == IF n < 0 THEN 0 ELSE n             \* saturating subtraction
GetDelay(n) == Smaller(MaxDelay, MinDelay + DelayStep * Above0(n - 2))

----------------------------------------------------------------------------
\* Approvals

StakeOf(stake, S) == MapThenSumSet(LAMBDA v : stake[v], S)
TwoThirds(stake) == (StakeOf(stake, Validators) * 2) \div 3
Reached(k) ==
    \/ /\ k.approvedThis > TwoThirds(StakeThis)
       /\ k.approvedNext > TwoThirds(StakeNext) \/ StakeOf(StakeNext, Validators) = 0
    \/ NoApprovals

\* can_approved_block_be_produced, of a set of approving validators
CanBeProduced(S) ==
    \/ NoApprovals
    \/ /\ StakeOf(StakeThis, S) > TwoThirds(StakeThis) \/ TwoThirds(StakeThis) = 0
       /\ StakeOf(StakeNext, S) > TwoThirds(StakeNext) \/ TwoThirds(StakeNext) = 0

NewTracker == [witness |-> {}, approvedThis |-> 0, approvedNext |-> 0, since |-> -1]

\* Mutation: the stake of a withdrawn approval stays.
WithdrawnKeeps(k, v) == [k EXCEPT !.witness = @ \ {v}]
Withdrawn(k, v) ==
    IF v \in k.witness
    THEN [witness |-> k.witness \ {v}, approvedThis |-> k.approvedThis - StakeThis[v],
          approvedNext |-> k.approvedNext - StakeNext[v], since |-> k.since]
    ELSE k

\* DoomslugApprovalsTracker::process_approval, get_block_production_readiness
Approved(k, v) ==
    LET j == IF v \in k.witness THEN k
             ELSE [witness |-> k.witness \cup {v}, approvedThis |-> k.approvedThis + StakeThis[v],
                   approvedNext |-> k.approvedNext + StakeNext[v], since |-> k.since]
    IN  IF Reached(j) /\ j.since = -1 THEN [j EXCEPT !.since = now] ELSE j

\* The last approval of an account is withdrawn, its tracker goes when empty.
Without(at, v, last) ==
    IF last \notin DOMAIN at THEN at
    ELSE LET k == Withdrawn(at[last], v)
         IN  IF k.witness = {} THEN Restrict(at, DOMAIN at \ {last}) ELSE [at EXCEPT ![last] = k]

\* DoomslugApprovalsTrackersAtHeight::process_approval, for a validator
WithApproval(at, v, inner, last) ==
    LET rest == Without(at, v, last)
        k    == IF inner \in DOMAIN rest THEN rest[inner] ELSE NewTracker
    IN  [x \in DOMAIN rest \cup {inner} |-> IF x = inner THEN Approved(k, v) ELSE rest[x]]

\* receive_accept, on_approval; an account without stake changes nothing.
OnApproval(v, inner, target) ==
    /\ received < MaxApprovals /\ received' = received + 1
    /\ tip.height <= target /\ target <= tip.height + HeightsAhead
    /\ v \in Validators
    /\ trackers' = [trackers EXCEPT ![target] = WithApproval(@, v, inner, lastApproval[target][v])]
    /\ lastApproval' = [lastApproval EXCEPT ![target][v] = inner]
    /\ UNCHANGED <<timerVars, tip, finalHeight>>

\* ready_to_produce_block
ReadyToProduce(target, hasChunks) ==
    LET inner == Inner(tip.hash, tip.height, target)
        delay == GetDelay(Above0(timer.height - finalHeight))
    IN  /\ inner \in DOMAIN trackers[target]
        /\ Reached(trackers[target][inner])
        /\ hasChunks \/ 6 * (now - trackers[target][inner].since) > delay

----------------------------------------------------------------------------
\* Blocks and the timer

OnBlock(hash, height, final) ==
    /\ height > tip.height
    /\ tip' = [hash |-> hash, height |-> height]
    /\ finalHeight' = final
    /\ timer' = [timer EXCEPT !.height = height + 1, !.started = now]
    /\ pendingEndorse' = TRUE
    /\ LET Kept(t) == t > Above0(height - HeightsBefore) /\ t <= height + HeightsAhead IN
       /\ trackers' = [t \in Heights |-> IF Kept(t) THEN trackers[t] ELSE <<>>]
       /\ lastApproval' = [t \in Heights |->
              IF Kept(t) THEN lastApproval[t] ELSE [v \in Validators |-> Nothing]]
    /\ UNCHANGED <<now, sentTarget, sent, asserted, received>>

Approval(target) == [inner |-> Inner(tip.hash, tip.height, target), target |-> target]

\* process_timer: the endorsement of the tip, unless a later height was approved
Endorse(s) ==
    IF ~s.pending \/ now < s.timer.endorsed + EndorsementDelay THEN s
    ELSE LET t == [s EXCEPT !.timer.endorsed = now, !.pending = FALSE] IN
         IF tip.height < s.target THEN t
         ELSE [t EXCEPT !.target = tip.height + 1, !.out = Append(@, Approval(tip.height + 1))]

\* ... then the skip of a height that did not come in time
SkipDelay(s) == GetDelay(Above0(s.timer.height - finalHeight))
TimedOut(s) == now >= s.timer.started + SkipDelay(s)
Skip(s) ==
    [s EXCEPT !.target = IF @ > s.timer.height + 1 THEN @ ELSE s.timer.height + 1,
              !.out = Append(@, Approval(s.timer.height + 1)),
              !.ok = @ /\ ~s.pending,
              !.timer.started = @ + SkipDelay(s), !.timer.height = @ + 1]
TimerRound(s, i) ==
    IF s.done THEN s
    ELSE LET e == Endorse([s EXCEPT !.ok = @ /\ SkipDelay(s) >= 2 * EndorsementDelay])
         IN  IF TimedOut(e) THEN Skip(e) ELSE [e EXCEPT !.done = TRUE]

ProcessTimer ==
    \E s \in {FoldLeft(LAMBDA a, i : TimerRound(a, i),
                [timer |-> timer, target |-> sentTarget, pending |-> pendingEndorse,
                 out |-> sent, ok |-> asserted, done |-> FALSE],
                [i \in 1..MaxTimerIters |-> i])} :
        /\ timer' = s.timer /\ sentTarget' = s.target /\ pendingEndorse' = s.pending
        /\ sent' = s.out /\ asserted' = s.ok
        /\ UNCHANGED <<now, tip, finalHeight, trackers, lastApproval, received>>

DoomslugClock ==
    /\ now < MaxNow /\ now' = now + 1
    /\ UNCHANGED <<timer, sentTarget, pendingEndorse, sent, asserted,
                   tip, finalHeight, trackers, lastApproval, received>>

DoomslugNext ==
    \/ \E v \in Validators, target \in Heights :
          \/ \E h \in BlockHashes : OnApproval(v, <<"endorse", h>>, target)
          \/ \E k \in 0..target - 2 : OnApproval(v, <<"skip", k>>, target)
    \/ \E h \in BlockHashes, height \in Heights, final \in {finalHeight, tip.height} :
          OnBlock(h, height, final)
    \/ ProcessTimer \/ DoomslugClock

DoomslugSpec == DoomslugInit /\ [][DoomslugNext]_doomslugVars

----------------------------------------------------------------------------
(***************************************************************************)
(* Every validator counts once per height, for what it approved last: the  *)
(* stakes are those of the witnesses, at most one block is ready to be     *)
(* produced at a height, and a tracker reaches its threshold exactly when  *)
(* can_approved_block_be_produced says so of its witnesses.                *)
(***************************************************************************)
OneBlockReady ==
    \A t \in Heights :
        /\ \A inner \in DOMAIN trackers[t] : LET k == trackers[t][inner] IN
              /\ k.witness = {v \in Validators : lastApproval[t][v] = inner}
              /\ k.approvedThis = StakeOf(StakeThis, k.witness)
              /\ k.approvedNext = StakeOf(StakeNext, k.witness)
              /\ Reached(k) = CanBeProduced(k.witness)
              /\ Reached(k) => k.since >= 0
        /\ NoApprovals \/ \A a, b \in DOMAIN trackers[t] :
              Reached(trackers[t][a]) /\ Reached(trackers[t][b]) => a = b
        /\ ReadyToProduce(t, FALSE) => ReadyToProduce(t, TRUE)

(***************************************************************************)
(* The timer never endorses a block of a height at or below one it has     *)
(* approved before, by endorsement or skip, and a timeout finds no         *)
(* endorsement pending (the assertions of process_timer).                  *)
(***************************************************************************)
NeverEndorsesSkipped ==
    /\ asserted
    /\ \A j \in DOMAIN sent : sent[j].inner[1] = "endorse" =>
          \A i \in 1..j - 1 : sent[i].target < sent[j].target

DoomslugSafe == OneBlockReady /\ NeverEndorsesSkipped
=============================================================================
