---------------------------- MODULE StateChanges ----------------------------
(***************************************************************************)
(* internal/server/state_changes.go: the wakeup source of the state        *)
(* channels, and the throttle in front of it for interactive browser input.*)
(* A change says where authoritative state was written; it carries no      *)
(* value.  A topic handler reads everything its subscription concerns and  *)
(* then sleeps on a wake channel of depth one.  Writing and telling the    *)
(* broker are two steps of every mutation, and so are the two halves of    *)
(* the throttle's timer function.                                          *)
(***************************************************************************)
EXTENDS Naturals

CONSTANTS
    Subscriptions,      \* stateChangeSubscription objects
    Topics, Projects, Threads,
    AnyId,                \* the empty id: every project, or every thread
    Interest,           \* what each subscription was made with
    Changes,            \* the stateInvalidations the program publishes
    BrowserChanges,     \* those that come from stream input, so are throttled
    MaxWrites           \* bound: writes per change

Scopes == [project : Projects \cup {AnyId}, thread : Threads \cup {AnyId}]

ASSUME StateChangesAssumption ==
    /\ MaxWrites \in Nat
    /\ Interest \in [Subscriptions -> [topics : SUBSET Topics, scope : Scopes]]
    /\ Changes \subseteq [topic : Topics, scope : Scopes]
    /\ BrowserChanges \subseteq Changes

VARIABLES
    version,  \* version[c]: how often the state c is about was written
    untold,   \* untold[c]: writers of c that have not reported it yet
    armed,    \* browserStateInvalidationThrottle.pending
    firing,   \* firing[c]: timer functions between their unlock and their publication
    handler,  \* the handler of each subscription: "none", "read", "wait" or "closed"
    wake,     \* a token in the subscription's wake channel
    seen      \* seen[s][c]: the version the handler's last snapshot shows

vars == <<version, untold, armed, firing, handler, wake, seen>>
stateVars == <<version, untold>>
throttleVars == <<armed, firing>>
handlerVars == <<handler, wake, seen>>

TypeOK ==
    /\ version \in [Changes -> Nat]
    /\ untold \in [Changes -> Nat]
    /\ armed \in SUBSET BrowserChanges
    /\ firing \in [BrowserChanges -> Nat]
    /\ handler \in [Subscriptions -> {"none", "read", "wait", "closed"}]
    /\ wake \in [Subscriptions -> BOOLEAN]
    /\ seen \in [Subscriptions -> [Changes -> Nat]]

Init ==
    /\ version = [c \in Changes |-> 0]
    /\ untold = [c \in Changes |-> 0]
    /\ armed = {}
    /\ firing = [c \in BrowserChanges |-> 0]
    /\ handler = [s \in Subscriptions |-> "none"]
    /\ wake = [s \in Subscriptions |-> FALSE]
    /\ seen = [s \in Subscriptions |-> [c \in Changes |-> 0]]

------------------------------------------------------------------------------
(* stateChangeSubscription.matches *)
MatchesExactly(s, c) ==
    /\ c.topic \in Interest[s].topics
    /\ c.scope.project \in {AnyId, Interest[s].scope.project}
    /\ c.scope.thread = Interest[s].scope.thread
MatchesTopic(s, c) == c.topic \in Interest[s].topics
Matches(s, c) ==
    /\ c.topic \in Interest[s].topics
    /\ c.scope.project \in {AnyId, Interest[s].scope.project}
    /\ c.scope.thread \in {AnyId, Interest[s].scope.thread}

(* stateChangeBroker.publish: one token per registered subscription, and a  *)
(* token that is already there is enough.                                   *)
Publish(c) ==
    /\ wake' = [s \in Subscriptions |->
                   wake[s] \/ (handler[s] \in {"read", "wait"} /\ Matches(s, c))]
    /\ UNCHANGED <<handler, seen>>

(* An operation of the program writes what c is about ...                   *)
Write(c) ==
    /\ version[c] < MaxWrites
    /\ version' = [version EXCEPT ![c] = @ + 1]
    /\ untold' = [untold EXCEPT ![c] = @ + 1]
    /\ UNCHANGED <<throttleVars, handlerVars>>

(* ... and its handler calls notifyStateChanged, directly ...               *)
Notify(c) ==
    /\ c \notin BrowserChanges /\ untold[c] > 0
    /\ untold' = [untold EXCEPT ![c] = @ - 1]
    /\ Publish(c)
    /\ UNCHANGED <<version, throttleVars>>

(* ... or, after stream input, scheduleBrowserStateChanged.                 *)
Schedule(c) ==
    /\ c \in BrowserChanges /\ untold[c] > 0
    /\ untold' = [untold EXCEPT ![c] = @ - 1]
    /\ armed' = armed \cup {c}
    /\ UNCHANGED <<version, firing, handlerVars>>

(* The timer function: out of pending under throttle.mu, then publication.  *)
Expire(c) ==
    /\ c \in armed
    /\ armed' = armed \ {c}
    /\ firing' = [firing EXCEPT ![c] = @ + 1]
    /\ UNCHANGED <<stateVars, handlerVars>>

FirePublish(c) ==
    /\ c \in BrowserChanges /\ firing[c] > 0
    /\ firing' = [firing EXCEPT ![c] = @ - 1]
    /\ Publish(c)
    /\ UNCHANGED <<stateVars, armed>>

(* A handler subscribes before its first read.                              *)
SubscribeLate(s) ==
    /\ handler[s] = "none"
    /\ handler' = [handler EXCEPT ![s] = "wait"]
    /\ UNCHANGED <<stateVars, throttleVars, wake, seen>>
Subscribe(s) ==
    /\ handler[s] = "none"
    /\ handler' = [handler EXCEPT ![s] = "read"]
    /\ UNCHANGED <<stateVars, throttleVars, wake, seen>>

Read(s) ==
    /\ handler[s] = "read"
    /\ seen' = [seen EXCEPT ![s] = version]
    /\ handler' = [handler EXCEPT ![s] = "wait"]
    /\ UNCHANGED <<stateVars, throttleVars, wake>>

(* runSnapshotTopic: the select takes the token before the snapshot is read. *)
Wake(s) ==
    /\ handler[s] = "wait" /\ wake[s]
    /\ wake' = [wake EXCEPT ![s] = FALSE]
    /\ handler' = [handler EXCEPT ![s] = "read"]
    /\ UNCHANGED <<stateVars, throttleVars, seen>>

(* runSnapshotTopic: a reconcile tick or a resnap leads to the same read.   *)
Reconcile(s) ==
    /\ handler[s] = "wait"
    /\ handler' = [handler EXCEPT ![s] = "read"]
    /\ UNCHANGED <<stateVars, throttleVars, wake, seen>>

Close(s) ==
    /\ handler[s] \in {"read", "wait"}
    /\ handler' = [handler EXCEPT ![s] = "closed"]
    /\ UNCHANGED <<stateVars, throttleVars, wake, seen>>

------------------------------------------------------------------------------
Next ==
    \/ \E c \in Changes :
          \/ Write(c)
          \/ Notify(c)
          \/ Schedule(c)
          \/ Expire(c)
          \/ FirePublish(c)
    \/ \E s \in Subscriptions :
          \/ Subscribe(s)
          \/ Read(s)
          \/ Wake(s)
          \/ Reconcile(s)
          \/ Close(s)

Spec == Init /\ [][Next]_vars

\* Each HTTP handler runs to its notify call, timers fire, and handler goroutines
\* run; nobody owes a write, a reconcile tick or a Close.
Fairness ==
    /\ \A c \in Changes :
          WF_vars(Notify(c)) /\ WF_vars(Schedule(c)) /\ WF_vars(Expire(c)) /\ WF_vars(FirePublish(c))
    /\ \A s \in Subscriptions : WF_vars(Read(s)) /\ WF_vars(Wake(s))

FairSpec == Spec /\ Fairness

------------------------------------------------------------------------------
\* What a snapshot of s shows: the changes whose scope contains the subscription's.
Places(scope) ==
    {p \in Scopes : /\ scope.project # AnyId => p.project = scope.project
                    /\ scope.thread # AnyId => p.thread = scope.thread}
Concerns(s, c) == c.topic \in Interest[s].topics /\ Interest[s].scope \in Places(c.scope)

\* A change that somebody will still publish.
OnItsWay(c) == untold[c] > 0 \/ (c \in BrowserChanges /\ (c \in armed \/ firing[c] > 0))

(* The broker keeps no events: a handler that sleeps without a token must   *)
(* have seen every write that concerns it, but for those about to be        *)
(* published (publish, matches, the throttle and the order of subscribe,    *)
(* read and wait in the handlers together).                                 *)
NeverIdleAndStale ==
    \A s \in Subscriptions, c \in Changes :
        handler[s] = "wait" /\ ~wake[s] /\ Concerns(s, c) /\ ~OnItsWay(c)
            => seen[s][c] = version[c]

(* Work for one thread does not wake the channels of another: a token is    *)
(* only there when something that concerns the subscription was written.    *)
NoForeignWake ==
    \A s \in Subscriptions :
        wake[s] => \E c \in Changes : Concerns(s, c) /\ version[c] > 0

(* Every write is shown to every handler it concerns, however often the     *)
(* throttle is asked again before its timer fires: input that never pauses  *)
(* does not postpone the refresh.                                           *)
EventuallySeen ==
    \A s \in Subscriptions, c \in Changes : \A n \in 1 .. MaxWrites :
        (version[c] >= n /\ handler[s] # "none" /\ Concerns(s, c))
            ~> (seen[s][c] >= n \/ handler[s] = "closed")
==============================================================================
