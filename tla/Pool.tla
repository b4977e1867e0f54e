-------------------------------- MODULE Pool --------------------------------
(***************************************************************************)
(* The pool of values of pkg/primitives: get takes a value or waits on a   *)
(* channel of its own; dropping a guard hands its value to the first       *)
(* waiter that still listens, under the pool's mutex.  A task may give up  *)
(* at any time: its get is cancelled.                                      *)
(***************************************************************************)
EXTENDS Naturals, FiniteSets, SequencesExt

CONSTANTS Tasks,     \* tasks that use the pool
          Values,    \* the values it was created with
          MaxGets    \* bound: calls of get

NoTask == "none"

ASSUME PoolAssumption ==
    /\ NoTask \notin Tasks
    /\ IsFiniteSet(Values) /\ {NoTask, "open", "closed"} \cap Values = {}

VARIABLES poolState, \* [values, waiters]: the values and the senders, by number
          poolLock,  \* the task that holds the mutex, or NoTask
          task,      \* task -> [pc, value, ticket]; ticket of the channel it waits or sends on
          channel    \* sequence: channel number -> "open", "closed", or the value in it

poolVars == <<poolState, poolLock, task, channel>>

Idle == [pc |-> "idle", value |-> NoTask, ticket |-> 0]
IsClosed(n) == channel[n] = "closed"

PoolInit ==
    /\ poolState = [values |-> SetToSeq(Values), waiters |-> <<>>]
    /\ poolLock = NoTask
    /\ task = [t \in Tasks |-> Idle]
    /\ channel = <<>>

----------------------------------------------------------------------------
\* get: the first value, or a channel at the end of the waiters.
GetValue(t) ==
    /\ task[t].pc = "idle" /\ poolLock = NoTask /\ poolState.values # <<>>
    /\ task' = [task EXCEPT ![t] = [@ EXCEPT !.pc = "holds", !.value = Head(poolState.values)]]
    /\ poolState' = [poolState EXCEPT !.values = Tail(@)]
    /\ UNCHANGED <<poolLock, channel>>

GetWait(t) ==
    /\ task[t].pc = "idle" /\ poolLock = NoTask /\ poolState.values = <<>>
    /\ Len(channel) < MaxGets
    /\ channel' = Append(channel, "open")
    /\ poolState' = [poolState EXCEPT !.waiters = Append(@, Len(channel) + 1)]
    /\ task' = [task EXCEPT ![t] = [@ EXCEPT !.pc = "waits", !.ticket = Len(channel) + 1]]
    /\ UNCHANGED poolLock

\* recv
Receive(t) ==
    /\ task[t].pc = "waits" /\ channel[task[t].ticket] \in Values
    /\ task' = [task EXCEPT ![t] = [pc |-> "holds", value |-> channel[task[t].ticket], ticket |-> 0]]
    /\ channel' = [channel EXCEPT ![task[t].ticket] = "closed"]
    /\ UNCHANGED <<poolState, poolLock>>

\* The task gives up.  A guard that was already sent to it is dropped with its channel.
GiveUp(t) ==
    /\ task[t].pc = "waits"
    /\ task' = [task EXCEPT ![t] =
                   IF channel[task[t].ticket] \in Values
                   THEN [pc |-> "holds", value |-> channel[task[t].ticket], ticket |-> 0] ELSE Idle]
    /\ channel' = [channel EXCEPT ![task[t].ticket] = "closed"]
    /\ UNCHANGED <<poolState, poolLock>>

----------------------------------------------------------------------------
\* Mutation: the value goes back to the pool, whoever waits.
DropToPool(t) ==
    /\ task[t].pc = "holds" /\ poolLock = NoTask
    /\ poolState' = [poolState EXCEPT !.values = Append(@, task[t].value)]
    /\ task' = [task EXCEPT ![t] = Idle]
    /\ UNCHANGED <<poolLock, channel>>

\* PoolGuard::drop takes the mutex and the value.
DropGuard(t) ==
    /\ task[t].pc = "holds" /\ poolLock = NoTask
    /\ poolLock' = t
    /\ task' = [task EXCEPT ![t].pc = "drops"]
    /\ UNCHANGED <<poolState, channel>>

\* The next waiter: passed over when it has closed its channel.
PopWaiter(t) ==
    /\ task[t].pc = "drops" /\ poolState.waiters # <<>>
    /\ poolState' = [poolState EXCEPT !.waiters = Tail(@)]
    /\ task' = IF IsClosed(Head(poolState.waiters)) THEN task
               ELSE [task EXCEPT ![t] = [@ EXCEPT !.pc = "sends", !.ticket = Head(poolState.waiters)]]
    /\ UNCHANGED <<poolLock, channel>>

\* The waiter may have given up meanwhile.  Then the value is taken out of the guard that
\* comes back, and dropping that guard asks for the mutex, which this task holds.
SendGuard(t) ==
    /\ task[t].pc = "sends"
    /\ \/ /\ ~IsClosed(task[t].ticket)
          /\ channel' = [channel EXCEPT ![task[t].ticket] = task[t].value]
          /\ task' = [task EXCEPT ![t] = Idle]
          /\ poolLock' = NoTask
       \/ /\ IsClosed(task[t].ticket)
          /\ task' = [task EXCEPT ![t].pc = "stuck"]
          /\ UNCHANGED <<channel, poolLock>>
    /\ UNCHANGED poolState

\* No one is waiting.
PushBack(t) ==
    /\ task[t].pc = "drops" /\ poolState.waiters = <<>>
    /\ poolState' = [poolState EXCEPT !.values = Append(@, task[t].value)]
    /\ task' = [task EXCEPT ![t] = Idle]
    /\ poolLock' = NoTask
    /\ UNCHANGED channel

PoolNext == \E t \in Tasks :
    \/ GetValue(t) \/ GetWait(t) \/ Receive(t) \/ GiveUp(t)
    \/ DropGuard(t) \/ PopWaiter(t) \/ SendGuard(t) \/ PushBack(t)

PoolSpec == PoolInit /\ [][PoolNext]_poolVars

----------------------------------------------------------------------------
Copies(v) == Cardinality({i \in DOMAIN poolState.values : poolState.values[i] = v})
           + Cardinality({t \in Tasks : task[t].value = v})
           + Cardinality({n \in DOMAIN channel : channel[n] = v})
Listening == {n \in ToSet(poolState.waiters) : ~IsClosed(n)}

(* Every value has one holder, nobody waits while a value is free, each    *)
(* task that waits is still known to the pool, also when others give up    *)
(* before, between and after; and the pool hangs only when a task gave up  *)
(* between is_closed and send (primitives/src/pool.rs).                    *)
PoolSound ==
    /\ \A v \in Values : Copies(v) = 1
    /\ poolLock = NoTask => poolState.values = <<>> \/ Listening = {}
    /\ \A t \in Tasks : task[t].pc = "waits" =>
          \/ task[t].ticket \in Listening \/ channel[task[t].ticket] \in Values
          \/ \E s \in Tasks : task[s].pc = "sends" /\ task[s].ticket = task[t].ticket
    /\ \A t \in Tasks : task[t].pc = "stuck" => IsClosed(task[t].ticket) /\ poolLock = t
=============================================================================
