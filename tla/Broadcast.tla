------------------------------ MODULE Broadcast ------------------------------
(***************************************************************************)
(* internal/broadcast/subscription.go: Broker and Subscription.            *)
(*                                                                         *)
(* A value is known by its position in log; its coalescing key is what     *)
(* coalesceKey returns for it (NoKey is the empty string).  queue is the   *)
(* live part of Subscription.queue, that is queue[head:], so resetting     *)
(* queue and head to nil and 0 when the last value is taken is the         *)
(* sequence becoming empty.  Broker.mu makes Publish, subscribe and Close  *)
(* atomic; Subscription.mu makes next atomic; everything run() does        *)
(* between two channel operations is a step of its own.                    *)
(***************************************************************************)
EXTENDS Naturals, Sequences

CONSTANTS
    Subscribers,   \* Subscription objects
    Keys, NoKey,   \* what coalesceKey may return
    MaxPending,    \* Broker.maxPending
    MaxPublished   \* bound: number of values published in a behaviour

ASSUME BroadcastAssumption ==
    /\ MaxPending \in Nat \ {0}
    /\ MaxPublished \in Nat
    /\ NoKey \notin Keys

VARIABLES
    log,      \* keys of the values published so far
    members,  \* Broker.subscribers
    mode,     \* latestOnly / coalesceKey of each subscription
    queue,    \* pending values, oldest first
    closed,   \* Subscription.closed (and done closed)
    wake,     \* a token in the wake channel of capacity one
    runner,   \* where run() is; "none" before subscribe, "done" once events is closed
    hand,     \* the value run() holds in its select, 0 when none
    seen      \* position of the value the consumer received last

subscriptionVars == <<mode, runner, hand, seen>>
vars == <<log, members, mode, queue, closed, wake, runner, hand, seen>>

Modes == {"ordered", "latest", "coalesced"}
RunnerStates == {"none", "next", "send", "wait", "done"}
Newest(s) == queue[s][Len(queue[s])]

(* The broker keeps exactly the subscriptions that are still open, and a    *)
(* position that is queued, held or delivered is one that was published.    *)
TypeOK ==
    /\ log \in Seq(Keys \cup {NoKey})
    /\ mode \in [Subscribers -> Modes]
    /\ queue \in [Subscribers -> Seq(1 .. Len(log))]
    /\ closed \in [Subscribers -> BOOLEAN]
    /\ wake \in [Subscribers -> BOOLEAN]
    /\ runner \in [Subscribers -> RunnerStates]
    /\ hand \in [Subscribers -> 0 .. Len(log)]
    /\ seen \in [Subscribers -> 0 .. Len(log)]
    /\ members = {s \in Subscribers : runner[s] # "none" /\ ~closed[s]}
    /\ \A s \in Subscribers : hand[s] # 0 <=> runner[s] = "send"

Init ==
    /\ log = <<>>
    /\ members = {}
    /\ mode = [s \in Subscribers |-> "ordered"]
    /\ queue = [s \in Subscribers |-> <<>>]
    /\ closed = [s \in Subscribers |-> FALSE]
    /\ wake = [s \in Subscribers |-> FALSE]
    /\ runner = [s \in Subscribers |-> "none"]
    /\ hand = [s \in Subscribers |-> 0]
    /\ seen = [s \in Subscribers |-> 0]

------------------------------------------------------------------------------
(* Broker.subscribe: registered under Broker.mu, then go run().            *)
Subscribe(s, m) ==
    /\ runner[s] = "none"
    /\ members' = members \cup {s}
    /\ mode' = [mode EXCEPT ![s] = m]
    /\ runner' = [runner EXCEPT ![s] = "next"]
    /\ seen' = [seen EXCEPT ![s] = Len(log)]
    /\ UNCHANGED <<log, queue, closed, wake, hand>>

(* Subscription.enqueue, as decisions on the subscription's own state.     *)
ReplacesAnyKey(s, k) == queue[s] # <<>> /\ mode[s] \in {"latest", "coalesced"}
Replaces(s, k) ==
    /\ queue[s] # <<>>
    /\ \/ mode[s] = "latest"
       \/ mode[s] = "coalesced" /\ k # NoKey /\ k = log[Newest(s)]

OverflowsLate(s, k) == ~Replaces(s, k) /\ Len(queue[s]) > MaxPending
Overflows(s, k) == ~Replaces(s, k) /\ Len(queue[s]) >= MaxPending

SignalsBacklog(s, k) == ~closed[s] /\ ~Replaces(s, k) /\ ~Overflows(s, k) /\ queue[s] # <<>>
Signals(s, k) == ~closed[s] /\ ~Replaces(s, k) /\ ~Overflows(s, k)

EnqueuedKeepsOldest(s, k, n) ==
    IF closed[s] \/ Replaces(s, k) \/ Overflows(s, k) THEN queue[s] ELSE Append(queue[s], n)
Enqueued(s, k, n) ==
    IF closed[s] THEN queue[s]
    ELSE IF Replaces(s, k) THEN [queue[s] EXCEPT ![Len(queue[s])] = n]
    ELSE IF Overflows(s, k) THEN <<>>
    ELSE Append(queue[s], n)

(* Broker.Publish: every registered subscription enqueues or is dropped.   *)
Publish(k) ==
    /\ Len(log) < MaxPublished
    /\ log' = Append(log, k)
    /\ queue' = [s \in Subscribers |->
                    IF s \in members THEN Enqueued(s, k, Len(log) + 1) ELSE queue[s]]
    /\ closed' = [s \in Subscribers |-> closed[s] \/ (s \in members /\ Overflows(s, k))]
    /\ wake' = [s \in Subscribers |-> wake[s] \/ (s \in members /\ Signals(s, k))]
    /\ members' = {s \in members : ~closed'[s]}
    /\ UNCHANGED subscriptionVars

(* Subscription.Close: out of the broker first, then done is closed.       *)
Close(s) ==
    /\ runner[s] # "none" /\ ~closed[s]
    /\ members' = members \ {s}
    /\ closed' = [closed EXCEPT ![s] = TRUE]
    /\ UNCHANGED <<log, queue, wake, subscriptionVars>>

(* run: next() under Subscription.mu.                                      *)
Take(s) ==
    /\ runner[s] = "next"
    /\ IF queue[s] = <<>>
       THEN /\ runner' = [runner EXCEPT ![s] = "wait"]
            /\ UNCHANGED <<queue, hand>>
       ELSE /\ hand' = [hand EXCEPT ![s] = Head(queue[s])]
            /\ queue' = [queue EXCEPT ![s] = Tail(queue[s])]
            /\ runner' = [runner EXCEPT ![s] = "send"]
    /\ UNCHANGED <<log, members, mode, closed, wake, seen>>

(* run: the consumer receives from events; select may prefer it to done.   *)
Deliver(s) ==
    /\ runner[s] = "send"
    /\ seen' = [seen EXCEPT ![s] = hand[s]]
    /\ hand' = [hand EXCEPT ![s] = 0]
    /\ runner' = [runner EXCEPT ![s] = "next"]
    /\ UNCHANGED <<log, members, mode, queue, closed, wake>>

Wake(s) ==
    /\ runner[s] = "wait" /\ wake[s]
    /\ wake' = [wake EXCEPT ![s] = FALSE]
    /\ runner' = [runner EXCEPT ![s] = "next"]
    /\ UNCHANGED <<log, members, mode, queue, closed, hand, seen>>

(* run: done is selected, and the deferred close(s.events) runs.           *)
StopIdleOnly(s) ==
    /\ runner[s] = "wait" /\ closed[s]
    /\ runner' = [runner EXCEPT ![s] = "done"]
    /\ UNCHANGED <<log, members, mode, queue, closed, wake, hand, seen>>
Stop(s) ==
    /\ runner[s] \in {"send", "wait"} /\ closed[s]
    /\ runner' = [runner EXCEPT ![s] = "done"]
    /\ hand' = [hand EXCEPT ![s] = 0]
    /\ UNCHANGED <<log, members, mode, queue, closed, wake, seen>>

------------------------------------------------------------------------------
Next ==
    \/ \E k \in Keys \cup {NoKey} : Publish(k)
    \/ \E s \in Subscribers :
          \/ \E m \in Modes : Subscribe(s, m)
          \/ Close(s)
          \/ Take(s)
          \/ Deliver(s)
          \/ Wake(s)
          \/ Stop(s)

Spec == Init /\ [][Next]_vars

\* run() is a goroutine, so a step of it that stays enabled is taken; the
\* consumers of this program loop on Events() until they close the subscription,
\* and owe nothing afterwards.
Fairness ==
    \A s \in Subscribers :
        /\ WF_vars(Take(s))
        /\ WF_vars(~closed[s] /\ Deliver(s))
        /\ WF_vars(Wake(s))
        /\ WF_vars(Stop(s))

FairSpec == Spec /\ Fairness

------------------------------------------------------------------------------
(* The wake channel holds one token and is signalled only when a value is  *)
(* appended, never when one is replaced: run() must still never sleep on a *)
(* backlog without a token to wake it (enqueue against next and run).      *)
NoLostWakeup ==
    \A s \in Subscribers :
        runner[s] = "wait" /\ queue[s] # <<>> /\ ~closed[s] => wake[s]

(* However bursts are treated, an open subscription still owes its consumer *)
(* the newest value, or the consumer already has it: replacement, coalescing *)
(* and overflow in enqueue never lose the last word.                        *)
NewestRetained ==
    \A s \in members :
        Len(log) = (IF queue[s] # <<>> THEN Newest(s)
                    ELSE IF hand[s] # 0 THEN hand[s] ELSE seen[s])

(* Publishers never wait, so the backlog of a consumer that stalls is       *)
(* bounded: by maxPending, and by one value for a latest-only subscription. *)
BacklogBounded ==
    \A s \in Subscribers :
        Len(queue[s]) <= (IF mode[s] = "latest" THEN 1 ELSE MaxPending)

(* Order and loss, as the consumer sees them through Events(): EventFeed.   *)
FeedState(pc) == IF pc = "none" THEN "none" ELSE IF pc = "done" THEN "ended" ELSE "open"
Feed == INSTANCE EventFeed WITH feed <- [s \in Subscribers |-> FeedState(runner[s])]
FeedSpec == Feed!Spec

(* A published value reaches every subscriber of the time, itself or by one *)
(* that supersedes it, unless that subscription is closed; and closing, by  *)
(* the consumer or by overflow, always ends run() and with it the events    *)
(* channel: no delivery goroutine is leaked, even one that holds a value    *)
(* nobody will receive.                                                     *)
CatchesUp ==
    \A s \in Subscribers :
        /\ \A n \in 1 .. MaxPublished :
              (s \in members /\ Len(log) >= n) ~> (seen[s] >= n \/ closed[s])
        /\ closed[s] ~> runner[s] = "done"
==============================================================================
