# Kiwi Code in TLA+

Kiwi Code is a local server, written in Go, that shows the terminals and coding
agents of git worktrees to browsers. Terminals live in tmux and outlive the
server; projects and threads live in a JSON Store on disk; browsers follow the
state over one multiplexed WebSocket and see each terminal over another. This
directory models the parts of it whose correctness depends on an order of events
that is hard to arrange in a test: change feeds, the state connection and its
client, the byte pipeline of a terminal, the durable deletion of threads and
projects by several backend processes that may crash, the marks of working and
finished agents from their hooks to the browser, and the desktop's guest browser.

All paths below are relative to the repository's root. `PROJECT.json` maps each
definition to the lines it models and lists every run, hazard and theorem.

## 1. Inventory

### The system

```
 writers (HTTP handlers, hooks, timers)              tmux server, Store file, markers
        |  write, then notify                              ^   (shared by processes)
        v                                                  |
 stateChangeBroker --wake--> topic handlers        terminal stops, fence, recovery
 (state_changes.go)          (state_topic_*.go)    (terminal.go, terminal_stop.go)
        ^                         | snapshots              ^
        | uses                    v                        | DELETE, open, settle, close
 broadcast.Broker          stateConnection                 |
 (also agent event feeds)  (state_socket.go)        HTTP surface (server.go)
                                  | frames                 ^
                                  v                        |
                           StateSocketClient ---------- browser ---------- terminal bridge
                           (web/src/wire/client.ts)        |        (websocket_transport.go)
                                                           | acknowledges a finished turn
 hooks of an agent --reports--> piActivityTracker <--------+
 (kiwi-code-hook.mjs)           (pi_activity.go) --topic agentActivity--> slice in the browser

 agent's browser tools --HTTP--> desktop main process: BrowserWorkspaceManager, its
                                 sessions and guests (web/electron/browser-sessions.cjs)
```

| Component | State it keeps | Operations | What makes it correct |
|---|---|---|---|
| Broadcast (`internal/broadcast`) | per subscription a queue of pending values, a wake token, a closed flag, a runner goroutine | Subscribe in three modes, Publish, Close, Events | a runner never sleeps on a backlog; the newest value survives coalescing and replacement; a consumer sees an increasing sequence with only the gaps its mode allows; a closed subscription's runner ends |
| State changes (`state_changes.go`) | subscriptions with topics and scope, wake channels, one throttle timer per thread | notify, schedule, subscribe, close | a handler is never idle on a value older than a change that concerns it |
| State socket (`state_socket.go`, `state_topic_runner.go`) | channel table, outbound queue, wake token, contexts, reader, writer, a handler per channel | subscribe, unsubscribe, resnap, ping; push, finish, protocol error, shutdown | at most one snapshot queued per channel; legal exchange on the wire; convergence; every goroutine joined |
| State topics, wire codec | registration and reads; typed frames | read, encode, decode | a snapshot is the value read after the subscription |
| State client (`wire/client.ts`) | entries per key, channels, connection state, timers | start, stop, hold, release, retry, reconnect, receive | table, timers and the server's view agree; a held key is never forgotten; what is shown is newest or an error |
| Terminal bridge (`websocket_transport.go`, loops in `terminal.go`, `TerminalSession.tsx`) | chunks, pending bytes, credit, message queue, four goroutines | read, batch, reserve, write, acknowledge, stop, close | credit equals what is in flight; no byte lost; no goroutine left |
| Terminal stop leases (`terminal_stop.go`) | marker files, flocks on their sidecars | begin, recheck, commit, rollback, retain, recover | stops of overlapping scope exclude each other; a marker has one owner |
| Terminal stops and recovery (`terminal.go`, `server.go`, `settlement.go`, `session_cleanup.go`) | `stoppingThreads`, `stoppingProjects`, `sessionMu`, mutation flocks, the Store, tmux sessions | delete thread, delete project, close, settle, unsettle, open, add thread, recovery at start | a pending stop destroys nothing; a committed marker is true; nothing of a deleted thread remains; no waiting cycle |
| Project store (`internal/project`) | projects, threads, worktrees on disk | create, delete, reorder, settle, reconcile | several processes' writes merge; a failed creation is rolled back |
| Agent activity (`kiwi-code-hook.mjs`, `pi_activity.go`, `agentActivity.ts`, `pi-activity-reconciliation.mjs`) | the hooks' state file and heartbeats; per session an activity, the order of its tokens and the retired ones; what the browser shows, has asked to acknowledge and failed to | start, finish, end, heartbeat, report, expire, forget, acknowledge, push, receive | late and reordered reports do not revive a finished turn; a dead agent's mark goes; the browser shows what the server has, but for what it acknowledged |
| Tmux watches (`tmux_events.go`, `thread_events.go`) | counted control-mode clients | hold, release, wake, stop | one runner per watched session; stop ends them all |
| Native agents (`native_process.go`, `*_native.go`) | processes, transcripts, client streams | start, prompt, stop, exit, retire | one process per thread; waiters see the exit message |
| Desktop browser sessions (`web/electron/browser-sessions.cjs`) | per thread a session with tabs and a queue of operations; the guest views in the window | start, stop, new, select, close, render, act, popup, show, hide, dispose | the selected tab of the thread on display is in the window and no other guest is; no page outlives its session; a stop overtakes a hanging operation |
| Browser sessions of the server (`browser*.go`, `browserhost`, `browser-host.cjs`) | helper process, requests in flight, leases | request with a deadline, restart, stream | each request answered once; no frame after the end |
| Worktrees and environments | git worktrees, setup logs | create, roll back, remove | a rollback is taken up after a crash |
| Web store, interface, desktop shell, launchers, headless client, agent integrations | client state, windows, command lines | rendering, spawning | mostly input and output |

### How the parts interact, and what is hard

* **Write, then notify.** Every mutation writes the authoritative state and
  afterwards wakes the broker. Handlers subscribe first and read afterwards. The
  two halves may interleave with any reader (`state_changes.go:48-60`), and the
  browser throttle adds a timer between them (lines 90-133).
* **Wake tokens of depth one.** The broadcast runner, the handlers, the socket's
  writer and the output credit all use a channel of capacity one as a hint. Each is
  a place where a wakeup can be lost between the last look and the wait.
* **Bounded queues.** The broker cuts an ordered subscription, a bridge stalls, and a
  socket does one of three things. Its reader ends the connection when it cannot queue
  an answer (`state_socket.go:225-228`, `277-282`); a snapshot without room ends its
  handler (322-324); a terminal frame without room is given up with its channel, in
  silence, and the connection stays open (373-375). What happens at the limit is part
  of the protocol, and the last of these is finding 5.
* **Two processes, one data directory.** Backends share the Store, the markers, the
  flocks and tmux. Locks within a process (`sessionMu`, `settlementMu`) say nothing
  about another one; `terminal_stop.go` turns files into a boundary that a crash
  does not open.
* **Callbacks of the browser.** The client's timers and the socket's events may
  arrive after the client has already decided something else. In the desktop's
  guest browser each operation awaits loads and debugger commands while tabs close,
  popups open and the window turns to another thread.
* **Reports of processes that do not know each other.** Every hook of an agent is a
  process of its own and its heartbeat another; they share a file without a lock
  and their requests arrive in any order.
* **Failures between two writes.** Deleting is: marker, Store, commit, sweep, remove
  the marker. Each may fail, or be the last thing the process does.

The hazards, with the lines where they bite, are in `PROJECT.json` under "hazards".

## 2. Plan

Order of the modules; the most central behaviour comes first.

1. `Broadcast`, implements `EventFeed` *(done, proved)*
2. `StateChanges` *(done, safety proved)*
3. `StateSocket`, implements `StateProtocol` *(done; safety and the refinement
   proved)*
4. `TerminalBridge` *(done, safety proved)*
5. `StateClient`, over a server that keeps to `StateProtocol` *(done, safety
   proved)*
6. `StopLease`, and `TerminalStop`, which extends and implements it *(done;
   safety and the refinement proved)*
7. `AgentActivity`: the hooks, the tracker and the browser's slice, with reports
   arriving late and reordered *(done; safety proved)*
8. `BrowserSessions`: the desktop's sessions, queues and guests *(done; safety
   proved)*
9. `StateStream`: `StateChanges`, `StateSocket` and `StateClient` end to end. What a
   user sees converges on what was written, including a retry of a key whose handler
   ended.
10. `TmuxWatch`: counted watches, their runners, stop and wake.
11. `NativeAgent`: process managers, exits racing stops, client streams.
12. `ProjectStore` with atomic files: several processes' writes, reconciliation, a
    write that is published and reports an error. `TerminalStop`'s Store is its
    abstraction.
13. `ThreadCreation`: worktree, branch and record, and the rollback after a crash.
14. `BrowserHost`, then the rest of the web store.

Every safety property that a run checks is a theorem, save the one that speaks of ENABLED.
Next worth proving is what the planned modules state: first that `StateStream`, whose
two halves are both proved against their side of the exchange, implements one feed per
key.

## 3. The modules and the code

### Broadcast and EventFeed

`Broadcast` is `internal/broadcast/subscription.go`: `Publish`, `Subscribe` and
`Close` under `Broker.mu`; `Take` is `Subscription.next`, `Deliver`, `Wake` and
`Stop` are the branches of `run`. A value is its position in the log, its key is
what `coalesceKey` returns. `queue` is the live part of the slice, so compaction and
the `head` index are abstracted.

`EventFeed` is what the package promises: per consumer an increasing sequence of
positions; ordered consumers skip nothing, coalesced ones may skip a value for a
later one of the same key, latest ones may skip anything; whoever closes ends.
`FeedSpec == Feed!FeedSpec` under the refinement mapping in `Broadcast` is a property
of the run and a theorem.

### StateChanges

`Write` and `Notify` (or `Schedule`, for browser input) are the two halves of each
mutation; `Expire` and `FirePublish` are the two halves of the throttle's timer
function (lines 109-133), between which another change may arm a new timer.
`Subscribe`, `Read`, `Wake`, `Reconcile` and `Close` are a topic handler. `Matches`
is the code's scope test and is proved equal to the symmetric reading `Concerns`.

### StateSocket and StateProtocol

Goroutines: the reader, one handler per channel, the writer and the serving
goroutine. Each critical section of `stateConnection.mu` is a step, and so is what a
goroutine does between two. The writer's delivery is split as in the code: take the
head, take the pending snapshot, compare it with what was last sent, write, forget
an ended channel. A snapshot is the version it was read from, and `Payload` says
which versions marshal to equal bytes, so that the suppression of unchanged
snapshots is exercised.

`StateProtocol` is what a client may rely on, per subscription id: sequence numbers
of snapshots grow, and the state they show is never older than what was shown
before; a subscription that has shown something ends with `subend`, one that has not
with `suberr`, and then it shows nothing more. One frame may still follow, or come on a
live channel: the `suberr` that answers a client which subscribes under an id again
(`state_socket.go:235-237`, `state_socket_test.go:122-129`), never more often than the
client does so (`Misuse`, `Refuse`). `ProtocolSpec` says that the wire carries only
that, and `StateClient` is modelled against a server that keeps to it.
An end need not come at all: when the last frame of a channel finds the queue full,
`Drop` (373-375) unlists it without a word. Its handler's state is then `"dropped"`, so
that the properties which speak of every ended handler can name the exception.
`ProtocolSpec` says more than that at most one frame of a channel waits: that a merged one is
newer than what it replaces, and that nothing crosses from one life of an id into the
next.

### TerminalBridge

Bytes are counted. The pty reader, the bounded channel of chunks, the batching
writer with its timer and its immediate flush, the credit with its mutex and wake
token, the browser that acknowledges at a threshold or after a timer, the peer that
reads messages, and the loop that owns the bridge. `LoopReads` tells the handlers
that receive messages from the one that does not (see the findings).

### StateClient

Every callback of `web/src/wire/client.ts` runs to its end and is one action.
`Acquire`, `Release`, `Start`, `Stop` and `Retry` are what components do; the timers
(`Reconnect`, `Ping`, `PongTimeout`) and the socket's events are actions of their
own; the server and the network are the rest, external and as hostile as
`StateProtocol` allows. `ServerEnds` queues the end of a channel or, when `down` is full,
forgets the channel in silence (`dropped`, as 373-375 of `state_socket.go`); frames that
were under way still arrive, also those that the server's writer would skip, which only
concerns keys the properties except. Back-off delays, jitter and listeners are abstracted: a timer
is armed or not.

### StopLease and TerminalStop

`StopLease` has the markers and the leases only. A step is one access to a shared
file. `Acquire`/`BeginThread`/`BeginProject` write the worker's own marker,
`AcquireThread`, `InspectAbsent` and `InspectConflict` read the conflicting ones,
then the lease is granted; `RecheckProjectThreads`, `Commit`, `Rollback`, `Retain`
and `AcquireExisting` are the remaining methods; a crash drops the leases of a
process and keeps the markers.

`TerminalStop` extends it with everything that uses a lease: `stopping`,
`sessionMu` and mutation flocks, the Store, tmux sessions, and the requests: delete
a thread, delete a project, close the inactive sessions of a thread, settle,
unsettle, open a session behind the fence, add a thread; and the recovery of a
process that starts. `job` is the program counter and the locals of a worker, and
each action is one access to state that another process can change. Failures,
counted by `MaxTroubles` together with crashes, are an action (`...Fails`) or a
disjunct with `Fail`. A Store deletion fails in two ways, not published or published
and reported as an error, and the read that tells them apart may fail too.

Merged accesses: the fence reads the thread's marker and then, for each marker that
was pending, the Store; the model makes these one step (`FenceReadThread`). It hides
no outcome: only "not stored" lets the fence kill, a deleted id never comes back, and
a read that comes a little later can only see more of the deletions that the sweep
of their own request completes anyway.

### AgentActivity

One session of one thread from end to end. The hooks (`Start`, `Finish`,
`EndSession`) are processes the agent waits for; each writes the session's state
file and then sends, or leaves the sending to a detached heartbeat (`BeatStarts`,
`Beat`, `BeatEnds`), so writing and arriving are far apart. A prompt's number is its
token and its start time. `reports` is a set from which `Update` takes any member:
delay, reordering and repetition, of what a process sends again until it is answered
(`Repeated`) and of what `Beat` says again; `Lose` and `Restart` lose. An agent that
died or ended may be started again at any time (`Resume`); the heartbeat of its last
process may still be running and find only then that its parent is `gone`. `Update` is `updateAgentTokenAt` with `Accepts`, `Ordered` and `Retire` for
its early returns, its order and its bounded list of retired tokens; `Expire` and
`Forget` are what `list` prunes. The browser is `Push` and `Receive` for the topic
and its reducer, `Acknowledge`, `ServeAck`, `Confirmed` and `Failed` for an
optimistic acknowledgement, of which several may be under way.

Abstractions: `Expire` may come at any time, so late heartbeats are covered but no
clock is; the number of attempts of a retry is free; the time of an activity counts the
marks the tracker has set and goes on through a restart (`last`), and a repeated
working report, which refreshes the time, is the same mark.

### BrowserSessions

JavaScript runs from one await to the next, and so does each action.
`BrowserWorkspaceManager.perform` is `Request` (with the early half of a stop), a
place in the thread's queue, and its turn: `ServeStop`, `ServeOperation` or
`ServePopup`. `running[k].pc` names the await: the load of a new tab (`LoadEnds`,
`LoadFails`), the work on a page (`WorkEnds`), or the catch that may remove a session
that never got a tab (`CleanUp`). Pages do as they like: `PageOpensPopup`,
`PageChanges`, `PageGone`. `Attach` and `Changed` are the window: one guest on
display, and the children that are in it, among them the hidden tab that an
operation renders. `Dispose` ends all and `Disposed` waits for the queues.

Operations are told apart only by what they do to sessions, tabs and the window:
"act" stands for all that work on the selected tab, "render" for those that need it
in the window.

## 4. What is checked

Model-checked with TLC, two workers, deadlock check off wherever the system may
really come to rest (all requests answered, all connections closed); waiting cycles
are a property of their own.

| Run | Instance | Distinct states | Shows |
|---|---|---|---|
| `broadcast` | 2 subscribers of any mode, 1 key and no key, backlog 1, 3 values | 417,727 | `NoLostWakeup`, `NewestRetained`, refinement `FeedSpec`, `CatchesUp` |
| `state_changes` | 2 handlers of two threads, a project-wide change and a throttled one, 2 writes each | 70,309 | `NeverIdleAndStale`, `EventuallySeen` |
| `state_socket` | 1 channel id and a limit of 1, queue 1, 1 write, 2 client messages | 275,025 | `StaysDrained`, `SleepsOnlyWhenCurrent`, `ProtocolSpec`, `Converges`, `ResnapAnswered`, `EndsAreTold`, `ShutdownCompletes` |
| `terminal_bridge` | reads of 2, frames of 3, credit 3, channels of 1, 4 bytes, 1 keystroke | 247,748 | `CreditIsExact`, `NoLostCredit`, `NoByteLost`, `LastWordsFirst`, `OutputFlows`, `NothingLeaks`, `CreditReturns` |
| `state_client` | 1 key with 2 holders, 2 ids per connection, 2 troubles, any dialect | 368,967 | `ConnectionInv` (with `TypeOK`), `ServerAgrees`, `NoResnapStorm`, `NothingStale`, `Fresh` |
| `terminal_stop` | 2 processes, 3 workers, one request each, 2 threads of which one exists, 2 troubles | 496,790 | `OneScope`, `StopsInv` (with `TypeOK`), `QuietAndClean`, `NobodyStuck`, `RequestsGoOn`, `NonDestructive` |
| `browser_sessions` | 2 threads, 2 sessions, 3 tabs of at most 2 in a session, 3 requests and popups | 151,219 | `AttachedFollows`, `NoHiddenGuest`, `NoOrphanPage`, `StoppedLeaves`, `DisposeEnds` |
| `agent_activity` | 2 prompts, 1 retired token, 2 reports in flight, 1 acknowledgement, 1 trouble | 723,227 | `NoComeback`, `ViewFollows`, `WorkShows`, `QuietInTheEnd` |
| `terminal_bridge_setup`, `state_client_incompatible`, `terminal_stop_orphan`, `agent_activity_running_shows` | as above, one property | | the findings of section 6 |

Each takes less than three minutes. The type invariants that no run checks
(`Broadcast`, `StateChanges`, `StateSocket`, `TerminalBridge`, `AgentActivity`,
`BrowserSessions`) are theorems.

### Bounds, and why they are enough

* *Broadcast.* `MaxPending = 1` meets overflow with the second value, `MaxPublished =
  3` allows a value in the runner's hand, one in the queue and one to overflow,
  replace or coalesce. Subscriptions share nothing but the log, so two show their
  independence.
* *StateChanges.* Two writes of a change are the one being read and the one that
  arrives meanwhile; a third finds the token already there.
* *StateSocket.* Two messages are the longest client dialogue on one id that matters
  (subscribe, then unsubscribe or resnap, or a second subscribe, which meets the limit
  of one channel and, under the same id, the answer to a reused one). `MaxQueued = 1`
  makes the second frame the one that does not fit, a channel's last one among them.
* *TerminalBridge.* A chunk is smaller than a frame and a frame fills the whole
  credit: the second frame must wait. Capacities of one meet every full channel;
  `Interactive` is smaller than a chunk, so both the immediate and the timed flush
  happen.
* *StateClient.* Two holders separate "last holder left" from "a holder left".
  `MaxTroubles` counts faults of the network and of the server together with stops and
  retries of the client; two let the recovery from one failure meet another, or a stop
  meet a recovery. `MaxInFlight = 2` stands for the server's full queue too: an end that
  is the third frame is the one that is never sent. One key: entries share the connection and its channel ids, but no
  handler of one looks at another, and two ids let one key use up an id and come back
  with the next.
* *TerminalStop.* Three workers in two processes: every two operations meet within
  one process, except two openings, and across processes, except two settlements
  (`MCTerminalStop.tla`). One existing and one new thread separate deletion from
  addition while it runs. Two troubles reach a failure in the recovery from a
  failure.

* *BrowserSessions.* Two sessions and three tabs: a session that was stopped has a
  successor, one of them has two tabs and meets the limit. Three requests or popups
  fill a queue behind an operation that hangs. The second thread only renders, which
  is enough to take the window away.
* *AgentActivity.* Two prompts: the reports of one meet those of the next. One retired
  token is forgotten when the second is retired. Two reports are in flight together,
  and a repetition may follow. One trouble is a new start of the agent, a restart of the
  server, a lost report or a failed acknowledgement. `NoComeback` is proved for any number of all of them.

All bounds (`MaxPublished`, `MaxWrites`, `MaxVersion`, `MaxMessages`, `MaxOutput`,
`MaxInput`, `MaxHolders`, `MaxIds`, `MaxInFlight`, `MaxActs`, `MaxTroubles`, `MaxTabs`,
`MaxSessions`, `MaxRequests`, `MaxPrompts`, `MaxAcks`) are guards of the modules and
named as bounds where they are declared.

### Fairness

Weak fairness only, and only for what runs by itself: goroutines, timers, the
delivery of socket events. Nobody owes a publication, a write, an unsubscribe, a
keystroke, a failure or an end. A consumer of a feed loops on its events until it
closes the subscription (`Broadcast`); a write of a socket ends, one way or the other
(deadlines in the code), without a choice which (`StateSocket`, `TerminalBridge`); the
browser parses what it was sent. `Reconcile`, the periodic re-read, is not fair:
liveness must not rest on the safety net. `TerminalStop` has no fairness.
`NobodyStuck` says that no set of requests waits for locks of each other, `RequestsGoOn`
that some unanswered request always has a step it can take: between them they show
that requests end if goroutines run.

In `BrowserSessions` promises settle and a closed page tells so, except the capture of
a page, which has no timeout: `Hangs` lets it wait as long as its page lives, and
`StoppedLeaves` and `DisposeEnds` hold in spite of it. In `AgentActivity` processes run
to their end, a report that is not lost arrives, `Expire` comes if the mark stays (the
topic lists on its own interval) and the topic sends. Nobody owes a prompt, an
acknowledgement or its answer, or a new start of an agent. `WorkShows` is what is left
of `RunningShows` (finding 3): a turn is shown as long as it goes on, provided that
nothing of an earlier process can end it any more.

## 5. What is proved

TLAPS proves the following for every value of the constants that the assumptions
named beside them allow.

* **Broadcast** (`BroadcastProofs`): `TypeOK`, `NoLostWakeup`, `NewestRetained`,
  `BacklogBounded`, and `Spec => FeedSpec`. `Inv` adds to the types that the state is
  consistent with the broker's membership: a subscription that was never made has an
  empty queue and is not closed (`Unborn`), and wakeups, retention and the bound support each
  other, since overflow closes and replacement keeps the last value. `Chained` strengthens it for the refinement: each value may
  directly follow the one before it *in the mode of the subscription*, also across
  hand and queue, for a value that is coalesced away leaves a gap that is only legal
  if its successor has the same key. Publishing is the hard case.
* **StateChanges** (`StateChangesProofs`): `NeverIdleAndStale` is inductive together
  with the types: each unread change of concern is still untold, armed, firing, or
  has left a token. `NoForeignWake`: a token always comes from a change that matches.
* **StateSocket** (`StateSocketProofs`): `TypeOK`, `Bounded`, `StaysDrained`,
  `SleepsOnlyWhenCurrent`. `Safe` is the conjunction of the types with: ids above the last
  one are untouched; what a handler or the reader refers to is in the table; the
  context is cancelled before the tables are drained; a frame that waits has a
  token or an awake writer; once drained, nothing is added. `StaysDrained` needs all
  of it: any goroutine may come late, a subscription that is being registered, a
  snapshot or a terminal frame on its way to the queue.
  `Spec => ProtocolSpec`, the refinement of `StateProtocol`, needs in addition the
  `Story` of each id. Numbers and versions grow along wire, hand, pending snapshot,
  handler and topic (`NumbersOf`, `VersionsOf`). Nothing about an id follows its
  verdict, in the queue or behind the one that was sent (`OrderOf`). A verdict comes
  from the handler that is done or from the reader that refused, and says whether
  there was a snapshot (`SourcesOf`). Refusals of a reused id are counted from the
  reader's hand through the queue and the writer's hand to the wire, and are no more
  than the client asked for (`AnswersOf`). A snapshot that has a number reaches the client
  before its `subend`, unless the client gave the subscription up (`DeliveryOf`).
  `SleepsOnlyWhenCurrent` is the safety core of `Converges`, `ResnapAnswered` and
  `EndsAreTold`: when the writer sleeps, the client has been told the state of every
  channel whose handler sleeps, and the verdict of every one that ended, but for
  channels that it unsubscribed or that were dropped on a full queue. Beside
  `Safe` and `Story` it needs the `News` of each id. A handler knows the state or has a
  token that says it changed (`ReadsOf`); what it queued last is pending with a frame
  ahead of the writer, in the writer's hand, or what the client was sent last
  (`LatestOf`); a resnap flag has its token underway (`ForcedOf`); the verdict of a
  handler that is done is queued, in hand or on the wire, unless its channel was
  unsubscribed (`EndOf`).
* **TerminalBridge** (`TerminalBridgeProofs`): `TypeOK`, in six parts by owner, and
  `NoLostCredit`: a writer waiting for credit it could afford has a token, an
  acknowledgement that is about to signal, or an owner that is stopping.
  `NoByteLost` and `CreditIsExact` sum over queues of any length. `SumOf` takes the
  last prefix sum; that pushing and popping change it by one element is proved without
  induction over data: two functions of prefix sums that differed would differ
  somewhere first, and the index before is a contradiction. `LastWordsFirst` needs
  `Ending`: until the bridge is stopped only an exited and drained terminal closes the
  chunks, and the writer has sent all when it reports the end. From the credit also
  follows that what is sent and not yet parsed or acknowledged is within the credit
  limit (`BrowserIsNeverFlooded`). Assumed: sizes positive, and a frame not larger than
  the credit.
* **StateClient** (`StateClientProofs`): `ConnectionInv`, `ServerAgrees`,
  `NoResnapStorm` and `NothingStale`, for any keys, versions, holders, queues and
  troubles, by `ClientInv`. Its parts: the types, of what is on its way too
  (`WellFormed`); the phases of a connection, from a timer to a socket to a ready, which
  is the first frame and comes once (`Phases`); the client's own maps (`Wired`). For the
  server's side `Channel(i)` follows one id through both queues: what the client owns is
  subscribed at the server, asked for, ended on its way or dropped by the server in
  silence; what it released has an
  unsubscribe behind its subscribe; ids that were not handed out are untouched. Without
  it `ServerAgrees` is not inductive, for it says nothing while messages are on
  their way. `NoResnapStorm` bounds what was sent; the load counted by `Bounded` adds
  what is forced or asked for, against a budget of the versions that do not decode,
  and compares it with every version that is still to be seen by the client, since the
  client asks again when the *old* snapshot arrives. `NothingStale` is what `Fresh` comes
  to once a connection is quiet. For it `Told` follows the numbers of a channel: the last
  snapshot that was sent has been taken for news and is displayed, or is on its way with a
  number that its entry has not seen (`Informed`). The sets are finite and a
  connection has an id for every key: the assumptions of the module.
* **StopLease** (`TerminalStopProofs`, first part): `OneOwner` and `OneScope`, by
  `LeaseInv`. Its core is `Ordered`: a thread stop that holds its marker although a
  project stop has read that marker as absent must have written it afterwards, and so
  still has the project's marker to read, which will refuse it. A crash removes leases
  and no marker.
* **TerminalStop** (`TerminalStopProofs`): `Spec => LeaseSpec`, so every request,
  recovery and crash handles leases as `StopLease` allows, and `OneScope` carries
  over. The refinement needs `ScopeInv`: the requests that stop one thread name a
  thread, and what a project stop is about to read are threads; the rest of each
  step is the lease operation it calls. On top of it `StopsInv` and `NonDestructive`,
  by `BackendsInv`: a flock is held by exactly the requests between taking and
  dropping it (`Held`); ids are never reused, so markers, leases and requests are only
  about threads that have existed (`Births`), and a thread added late is not one that
  a deletion has finished with; a deletion has the lease of what it deletes until its
  last word on the Store (`Paired`); and what a marker, a finished deletion, a recovery
  that sweeps or a fence that saw a committed marker takes to be gone has left the
  Store (`Truth`).
  `QuietAndClean` speaks of the end of all requests; `Clean` says what holds before,
  while nothing has failed: a session of a thread that is gone has a request that will
  sweep it (`Sweeping`), one of a settled thread a settlement that will kill it
  (`Settling`). Openings make this hard. One that is under way when its thread goes
  finds a committed marker at its fence and sweeps for itself (`Told`), for which a
  deleted project must have its committed marker (`ProjectTold`); none creates a
  session after its thread was settled (`Fresh`); and a project's deletion has every
  thread in its recipe that has a session or is being given one, since they are held
  off between the read of the membership and the Store (`Covers`).
  `NobodyStuck` rests on one order, `sessionMu` before a thread's flock: `Entered` says
  that a process's `sessionMu` is held by exactly the request that entered it, which waits
  for nothing but a flock, and by `Held` whoever holds a flock is past everything it waits
  for.
  Finding 4 breaks `RecoverableOrphan`; `OrphansStayRecoverable` shows that it has one
  cause. In every behaviour in which no failing DELETE gives back a marker it had adopted
  (`NoAdoptedMarkerGivenBack`), each session of a thread that is gone is in the recipe of
  a marker on disk. `Remembered` is the invariant: the marker of what was deleted is on
  disk, in nobody's hands but of a request that will keep it whatever happens next
  (`Kept`), and what a project's deletion has gathered is every thread that has a session or
  may still be given one (`Gathering`). Assumed: every process has a worker.
* **AgentActivity** (`AgentActivityProofs`): `TypeOK`, `NoComeback` and `ViewFollows`. `IInv` says that
  the file is at the last prompt and only a prompt with a heartbeat is at work
  (`HooksAgree`), that no report claims a later start than its token's (`Honest`), and
  that the order kept is that of the newest start (`OrderFollows`). What the list of
  retired tokens forgets is then refused by its start time, and `ForgottenLate` covers
  the order that is forgotten altogether: by then nothing older is left to be
  reported. `ViewInv` adds the browser: whatever it holds is the last mark the tracker has set or
  an older one (`Known`), so a frame is never older than what is shown or pending
  (`NoLater`), and one that is not newer than a pending finished turn is that turn.
* **BrowserSessions** (`BrowserSessionsProofs`): `TypeOK`, `NoOrphanPage`,
  `NoHiddenGuest` and `AttachedFollows`. `PagesAgree` says that a tab is listed
  exactly as long as its page lives, `SessionsAgree` that a thread's session was made
  for it and that an unmade one is not stopped, `WorkAgrees` that what runs is at the
  head of its queue and has a session. Stopping and disposing need the first: what is
  not listed would not be closed. Only the turn of a popup needs `createTab`'s look at
  `stopped`. `NoHiddenGuest` is inductive with them: a step of the window leaves some
  of the guests that were in it and adds at most the tab it shows, and an operation at
  work keeps rendering its tab while others are served or queued. `AttachedFollows`
  needs that a session selects one of its own listed tabs (`SelectionAgrees`), and
  that the tab a thread loads is open (`Loads`): then a load that fails either closes
  it, so that its destroyed event is due, or finds that event's update of the window
  already made.

`BacklogBounded`, `NoForeignWake`, `Bounded`, `OneOwner` and `BrowserIsNeverFlooded` are
proved and have no run of their own.

Only model-checked: all liveness (`Converges`, `ResnapAnswered`, `EndsAreTold`,
`OutputFlows`, `Fresh` and the like), since fairness is beyond the prover, and
`RequestsGoOn`, which uses ENABLED.

## 6. Findings

1. **The environment setup terminal never returns output credit**
   (`internal/server/terminal.go:559`, run `terminal_bridge_setup`). The loop does not
   receive `bridge.peer.messages`; the browser acknowledges, nobody counts. A setup log
   longer than the credit stops, and after 16 queued messages the peer ends the
   connection.
2. **An incompatible connection does not stay incompatible**
   (`web/src/wire/client.ts:323`, run `state_client_incompatible`). The error and close
   events of the still open socket overwrite the state. It is still open because it is
   closed with code 1002 (428, and 578), which a browser refuses by throwing.
3. **A heartbeat of a dead agent ends a prompt of the one started after it**
   (`kiwi-code-hook.mjs:196`, run `agent_activity_running_shows`). A heartbeat looks at
   its parent before it looks at the file. When an agent dies and is started again with
   a new prompt within a heartbeat interval, the old heartbeat finds its parent gone and
   ends the prompt of the file, which is the new one: it says idle, the new heartbeat
   stops at its next look, and the turn goes on without a mark, although the working
   timeout is chosen so that nothing can "make the sidebar indicator flicker mid-turn"
   (`pi_activity.go:21-23`).
4. **A failing DELETE may remove an adopted marker**
   (`internal/server/terminal.go:4192`, run `terminal_stop_orphan`). A process deletes
   the project from the Store and crashes before the commit; a second one, which had
   loaded the project before, adopts the marker, cannot read the Store again and
   rolls the marker back. The sessions to be swept are recorded nowhere any more.
   `NonDestructive` and `CommittedIsGone` hold all the same: what is lost is the
   clean-up, not a live thread.
5. **A channel whose last frame finds the queue full is forgotten in silence**
   (`state_socket.go:373`, runs `state_client` and `state_socket`). `finishChannel` then
   unsubscribes and the connection stays open; the client is never told, as it would be
   on a queue with room (`state_socket_test.go:404-430`). Its key keeps the last snapshot
   or goes on loading, and a retry only sends a resnap that the server ignores for an id
   it does not list (298-304), until the connection ends. The models have this branch,
   and `SleepsOnlyWhenCurrent` and `EndsAreTold` of the socket and `ServerAgrees`,
   `NothingStale` and `Fresh` of the client name it as their exception; without the
   exception TLC refutes each of the client's three at once. The runs and theorems say
   that it is the only one: no other end is lost, and no other key stays stale.

Behaviours met on the way that no run checks:

* Closing and settling use a *temporary* fence that is a pending marker
  (`session_cleanup.go:302-305`, `settlement.go:49-50`). After a crash inside, recovery
  keeps it, as it keeps every pending marker of a stored thread
  (`terminal.go:4413-4417`), and the thread's terminals stay closed until it is
  deleted.
* A pending project marker and a pending marker of one of its threads, both left by
  crashes, refuse each other's DELETE (`terminal_stop.go:100-104`, `145-164`).
* `deleteThreadRecord` cancels after the callee already has (`server.go:920`). The
  second cancel finds the lease closed and reports an error, so the branches behind
  it that answer "Thread not found." or "Could not remove the thread." are
  unreachable. `NonDestructive` and `OneScope` are checked with it in place.
* A finished turn may stay hidden although its acknowledgement failed
  (`agentActivity.ts:86`). A late confirmation of an earlier acknowledgement deletes the
  entry of the one that then fails, so the failure finds nothing to bring back, although
  the comment at 17-18 says the row "comes back if the server call fails". TLC refutes
  `ComesBack` with `MaxAcks = 2` and the other constants of `MCAgentActivity.cfg`;
  `ViewFollows` allows for it.
* The end of finding 3 carries the start of the heartbeat's own prompt and the token of the file's,
  so it may be accepted or refused on another prompt's behalf; `NoComeback` is stated by
  start times and holds.
* An interrupted turn fires no hook: its mark stays until the next prompt or the end of
  the agent. `turn` in the model stays with it.
* The server's `acknowledge` takes whatever has finished, also a turn that finished
  after the one the browser saw. `ViewFollows` allows for it.
* A stop asked for before the operation that makes its session has had its turn finds
  no session to interrupt, and waits behind that operation like any other
  (`browser-sessions.cjs:1086`).
* A popup of a session that was stopped opens in the session that took its place, if
  there is one by its turn (1029). It belongs to the thread, and `NoOrphanPage` holds.
* A popup selects its tab (`createTab`, 444-459), although the browser skills say "A
  click can open another tab without selecting it".

## 7. What is not modelled, and why

* *Left out of modelled components.* Malformed markers, replaced lock files, tokens and
  `UpdateSessionNames` in `terminal_stop.go`; clean-up of native agents, browser
  sessions, usage and activity after a deletion; the rollback of a pending thread
  creation; failing reads and marker writes on the way into a request, where the
  request ends without a trace; resizing and reconnection of a terminal page;
  automatic settlement and pinning; the pass that selects candidates for clean-up.
* *Data.* Payloads, schemas, names, log lines and the layout of snapshots are opaque.
  Topics all read one abstract state.
* *AgentActivity.* The aggregation over the sessions of a thread, reports without a
  token, clamping of clocks in the future, and the settlement and removal of threads.
* *BrowserSessions.* What operations do to a page, accessibility refs, protected origins,
  bounds and focus of the view, the read-only status.
* *Vendored.* `internal/browserhost/assets/browser-host.cjs`, three quarters of the
  repository's lines, is a bundle of libraries of others and generated.
* *Planned.* Items 9 to 14 of the plan.
* *Not planned.* Rendering, command lines of agents, git and tmux themselves, start-up
  scripts: input and output, or code of others. tmux, the browser's WebSocket and the
  operating system's locks are modelled from their use and marked external.
