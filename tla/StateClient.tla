----------------------------- MODULE StateClient -----------------------------
(***************************************************************************)
(* web/src/wire/client.ts: StateSocketClient, the browser's end of the     *)
(* state connection, with the components that hold its topics, the         *)
(* browser's WebSocket and a server that keeps to StateProtocol.           *)
(*                                                                         *)
(* JavaScript runs each callback to its end: every method, timer callback  *)
(* and socket event handler is one step.  The socket of an earlier         *)
(* connection has its handlers removed or is told apart by current(), so   *)
(* only the newest one is modelled.                                        *)
(***************************************************************************)
EXTENDS Naturals, Sequences, FiniteSets, Functions

CONSTANTS
    Keys,         \* cache keys: a topic with its parameters
    None,         \* model value: no key
    Undecodable,  \* versions whose snapshots fail the topic's schema
    Dialects,     \* what a server may do with this client's protocol: "same", "rejects", "differs"
    MaxHolders,   \* bound: components holding one topic
    MaxIds,       \* bound: channel ids of a connection (0xffffffff in the code)
    MaxVersion,   \* bound: changes of a topic's state
    MaxInFlight,  \* frames of the server under way, a full stateMaxQueuedFrames among them
    MaxTroubles   \* bound: restarts, lost or silent connections, bad frames and ended channels,
                  \* stops of the client and retries, all together

ASSUME StateClientAssumption ==
    /\ IsFiniteSet(Keys) /\ None \notin Keys
    /\ MaxIds \in Nat /\ Cardinality(Keys) <= MaxIds
    /\ MaxHolders \in Nat /\ MaxVersion \in Nat /\ MaxInFlight \in Nat /\ MaxTroubles \in Nat

Ids == 1 .. MaxIds
Versions == 0 .. MaxVersion

VARIABLES
    \* StateSocketClient
    started,
    allowed,     \* reconnectAllowed
    ready,
    conn,        \* connection.state
    instance,    \* connection.instanceId, 0 before the first ready
    timer,       \* reconnectTimer is set
    pinging,     \* pingTimer is set
    awaiting,    \* pendingPing and pongTimer are set
    nextId,      \* nextChannelId
    owner,       \* channels: the entry of an id, or None
    \* ChannelEntry, by cache key; it exists while it has holders
    holders,     \* its listeners
    chan,        \* channelId, 0 when undefined
    seq,         \* sequence
    used,        \* automaticResnapUsed
    view,        \* state.state, "none" without an entry
    shown,       \* version of the last decoded snapshot
    \* the WebSocket and the network
    sock, up, down,
    \* the server
    serverInstance, dialect,
    peer,        \* its end of the connection
    subscribed,  \* the key of an open channel, or None
    dropped,     \* channels it gave up without a word
    sent, sentVersion, forced,
    version,     \* the authoritative state behind each key
    faults, acts \* how much went wrong, how often the user stepped in

lifeVars == <<started, allowed, timer, acts>>
liveVars == <<pinging, awaiting>>
channelVars == <<nextId, owner, chan, seq, used>>
viewVars == <<view, shown>>
peerVars == <<subscribed, dropped, sent, sentVersion, forced>>
serverVars == <<serverInstance, dialect, version>>
vars == <<lifeVars, ready, conn, instance, liveVars, channelVars, holders, viewVars,
          sock, up, down, peer, peerVars, serverVars, faults>>

ConnStates == {"connecting", "open", "reconnecting", "error", "incompatible"}
Message(t, id, key) == [t |-> t, id |-> id, key |-> key]
Frame(t, id, n, v) == [t |-> t, id |-> id, seq |-> n, version |-> v]

TypeOK ==
    /\ {started, allowed, ready, timer, pinging, awaiting} \subseteq BOOLEAN
    /\ conn \in ConnStates
    /\ nextId \in 1 .. MaxIds + 1 /\ owner \in [Ids -> Keys \cup {None}]
    /\ holders \in [Keys -> 0 .. MaxHolders] /\ chan \in [Keys -> Ids \cup {0}]
    /\ seq \in [Keys -> Nat] /\ used \in [Keys -> BOOLEAN]
    /\ view \in [Keys -> {"none", "loading", "ready", "error"}]
    /\ shown \in [Keys -> Versions]
    /\ sock \in {"none", "connecting", "open", "closing"}
    /\ peer \in {"none", "handshake", "serving", "gone", "silent"}
    /\ subscribed \in [Ids -> Keys \cup {None}] /\ dropped \subseteq Ids
    /\ version \in [Keys -> Versions]
    /\ instance \in 0 .. serverInstance
    /\ \A k \in Keys : view[k] = "none" <=> holders[k] = 0

Init ==
    /\ started = FALSE /\ allowed = TRUE /\ ready = FALSE
    /\ conn = "connecting" /\ instance = 0
    /\ timer = FALSE /\ pinging = FALSE /\ awaiting = FALSE
    /\ nextId = 1 /\ owner = [i \in Ids |-> None]
    /\ holders = [k \in Keys |-> 0] /\ chan = [k \in Keys |-> 0] /\ seq = [k \in Keys |-> 0]
    /\ used = [k \in Keys |-> FALSE] /\ view = [k \in Keys |-> "none"]
    /\ shown = [k \in Keys |-> 0]
    /\ sock = "none" /\ up = <<>> /\ down = <<>>
    /\ serverInstance = 1 /\ dialect \in Dialects /\ peer = "none"
    /\ subscribed = [i \in Ids |-> None] /\ dropped = {} /\ sent = [i \in Ids |-> 0]
    /\ sentVersion = [i \in Ids |-> 0] /\ forced = [i \in Ids |-> FALSE]
    /\ version = [k \in Keys |-> 0]
    /\ faults = 0 /\ acts = 0

------------------------------------------------------------------------------
(* What several methods do.                                                 *)

Fault == faults + acts < MaxTroubles /\ faults' = faults + 1
Act == faults + acts < MaxTroubles /\ acts' = acts + 1

\* send: dropped unless the socket is open; lost once the network is silent.
Sends(messages) == up' = IF sock = "open" /\ peer # "silent" THEN up \o messages ELSE up

\* The browser's WebSocket.close: any other code is refused with an exception.
Closable(code) == code = 1000 \/ code \in 3000 .. 4999

\* The connection is over for the client, and with it what the server kept for it.
Disconnect ==
    /\ sock' = "none" /\ up' = <<>> /\ down' = <<>> /\ peer' = "none"
    /\ subscribed' = [i \in Ids |-> None] /\ dropped' = {} /\ sent' = [i \in Ids |-> 0]
    /\ sentVersion' = [i \in Ids |-> 0] /\ forced' = [i \in Ids |-> FALSE]

ClearsPongDeadline == awaiting' = FALSE /\ UNCHANGED pinging
ClearLiveness == pinging' = FALSE /\ awaiting' = FALSE

ScheduleReconnect == timer' = IF started /\ allowed THEN TRUE ELSE timer

\* Every entry starts over on a new connection.
ResetKeepsSequence == used' = [k \in Keys |-> FALSE] /\ UNCHANGED seq
ResetEntries == used' = [k \in Keys |-> FALSE] /\ seq' = [k \in Keys |-> 0]

\* openChannel, for an entry with listeners and no channel.
OpenChannel(k) ==
    /\ nextId <= MaxIds
    /\ nextId' = nextId + 1
    /\ chan' = [chan EXCEPT ![k] = nextId]
    /\ owner' = [owner EXCEPT ![nextId] = k]
    /\ seq' = [seq EXCEPT ![k] = 0] /\ used' = [used EXCEPT ![k] = FALSE]
    /\ Sends(<<Message("sub", nextId, k)>>)

\* connect: the new socket, unless the factory throws.
Connect ==
    /\ nextId' = 1 /\ owner' = [i \in Ids |-> None] /\ chan' = [k \in Keys |-> 0]
    /\ ResetEntries
    /\ \/ sock' = "connecting" /\ peer' = "handshake" /\ UNCHANGED faults
       \/ Fault /\ UNCHANGED <<sock, peer>>
    /\ UNCHANGED <<ready, instance, liveVars, holders, viewVars, up, down, peerVars, serverVars>>

------------------------------------------------------------------------------
(* The application: StateSocketProvider and the components.                 *)
Start ==
    /\ ~started
    /\ started' = TRUE /\ allowed' = TRUE
    /\ Connect
    /\ timer' = (sock' = "none")
    /\ conn' = IF sock' = "none" THEN "error"
               ELSE IF instance = 0 THEN "connecting" ELSE "reconnecting"
    /\ UNCHANGED acts

Stop ==
    /\ started
    /\ Act
    /\ started' = FALSE /\ ready' = FALSE /\ allowed' = FALSE /\ timer' = FALSE
    /\ ClearLiveness
    /\ Disconnect
    /\ owner' = [i \in Ids |-> None] /\ chan' = [k \in Keys |-> 0]
    /\ UNCHANGED <<conn, instance, nextId, seq, used, holders, viewVars, serverVars, faults>>

\* acquire: the first listener of a key brings its entry into being.
AcquireShared(k) ==
    /\ holders[k] > 0
    /\ UNCHANGED <<channelVars, up, viewVars>>
AcquireFirst(k) ==
    /\ holders[k] = 0
    /\ view' = [view EXCEPT ![k] = "loading"] /\ shown' = [shown EXCEPT ![k] = 0]
    /\ IF ready THEN OpenChannel(k)
       ELSE /\ seq' = [seq EXCEPT ![k] = 0] /\ used' = [used EXCEPT ![k] = FALSE]
            /\ UNCHANGED <<nextId, owner, chan, up>>
Acquire(k) ==
    /\ holders[k] < MaxHolders
    /\ AcquireShared(k) \/ AcquireFirst(k)
    /\ holders' = [holders EXCEPT ![k] = @ + 1]
    /\ UNCHANGED <<lifeVars, ready, conn, instance, liveVars, sock, down, peer, peerVars,
                   serverVars, faults>>

ReleaseUntold(k) ==
    /\ chan' = [chan EXCEPT ![k] = 0]
    /\ owner' = [i \in Ids |-> IF i = chan[k] THEN None ELSE owner[i]]
    /\ UNCHANGED up
ReleaseClosesChannel(k) ==
    IF chan[k] = 0 THEN UNCHANGED <<up, owner, chan>>
    ELSE /\ Sends(<<Message("unsub", chan[k], None)>>)
         /\ owner' = [owner EXCEPT ![chan[k]] = None]
         /\ chan' = [chan EXCEPT ![k] = 0]
LastRelease(k) == holders[k] = 1
Release(k) ==
    /\ holders[k] > 0
    /\ holders' = [holders EXCEPT ![k] = @ - 1]
    /\ IF ~LastRelease(k) THEN UNCHANGED <<up, owner, chan, view>>
       ELSE ReleaseClosesChannel(k) /\ view' = [view EXCEPT ![k] = "none"]
    /\ UNCHANGED <<lifeVars, ready, conn, instance, liveVars, nextId, seq, used, shown, sock, down,
                   peer, peerVars, serverVars, faults>>

\* retry: a channel that is open is asked again, one that has ended is replaced.
RetryWaits(k) ==
    /\ ~ready
    /\ view' = [view EXCEPT ![k] = "loading"] /\ used' = [used EXCEPT ![k] = FALSE]
    /\ UNCHANGED <<nextId, owner, chan, seq, up>>
RetryAsks(k) ==
    /\ ready /\ chan[k] # 0
    /\ Sends(<<Message("resnap", chan[k], None)>>) /\ used' = [used EXCEPT ![k] = FALSE]
    /\ UNCHANGED <<nextId, owner, chan, seq, view>>
RetryOpens(k) ==
    /\ ready /\ chan[k] = 0
    /\ view' = [view EXCEPT ![k] = "loading"]
    /\ OpenChannel(k)
Retry(k) ==
    /\ holders[k] > 0
    /\ Act
    /\ RetryWaits(k) \/ RetryAsks(k) \/ RetryOpens(k)
    /\ UNCHANGED <<started, allowed, timer, ready, conn, instance, liveVars, holders, shown, sock,
                   down, peer, peerVars, serverVars, faults>>

------------------------------------------------------------------------------
(* Timers.                                                                  *)
Reconnect ==
    /\ timer
    /\ Connect
    /\ timer' = (sock' = "none")
    /\ conn' = IF sock' = "none" THEN "error" ELSE conn
    /\ UNCHANGED <<started, allowed, acts>>

Ping ==
    /\ pinging /\ ~awaiting
    /\ awaiting' = TRUE
    /\ Sends(<<Message("ping", 0, None)>>)
    /\ UNCHANGED <<lifeVars, ready, conn, instance, pinging, channelVars, holders, viewVars, sock,
                   down, peer, peerVars, serverVars, faults>>

\* The pong is late: the socket is abandoned without waiting for its close event.
PongTimeoutForgets == UNCHANGED timer
PongTimeoutSchedules == ScheduleReconnect
PongTimeout ==
    /\ awaiting
    /\ ready' = FALSE
    /\ ClearLiveness
    /\ Disconnect
    /\ conn' = "reconnecting"
    /\ PongTimeoutSchedules
    /\ \/ peer = "silent" /\ UNCHANGED faults
       \/ peer # "silent" /\ Fault
    /\ UNCHANGED <<started, allowed, acts, instance, channelVars, holders, viewVars, serverVars>>

------------------------------------------------------------------------------
(* Socket events.                                                           *)
SocketOpens ==
    /\ sock = "connecting" /\ peer = "handshake"
    /\ sock' = "open" /\ up' = <<Message("open", 0, None)>>
    /\ UNCHANGED <<lifeVars, ready, conn, instance, liveVars, channelVars, holders, viewVars, down,
                   peer, peerVars, serverVars, faults>>

\* onclose, after onerror when the connection failed.
OnClose(fails) ==
    LET state == IF fails THEN "error" ELSE conn
    IN  /\ Disconnect
        /\ ready' = FALSE
        /\ ClearLiveness
        /\ IF ~allowed /\ state = "incompatible"
           THEN conn' = state /\ UNCHANGED timer
           ELSE conn' = "reconnecting" /\ ScheduleReconnect
        /\ UNCHANGED <<started, allowed, acts, instance, channelVars, holders, viewVars>>

\* The end of a connection the client closed or the server left, or that was
\* silent before it could be pinged.
SocketCloses ==
    /\ sock = "closing" \/ peer = "gone" \/ (peer = "silent" /\ ~ready)
    /\ \E fails \in BOOLEAN : OnClose(fails)
    /\ UNCHANGED <<serverVars, faults>>

ConnectionLost ==
    /\ sock # "none"
    /\ Fault
    /\ \E fails \in BOOLEAN : OnClose(fails)
    /\ UNCHANGED serverVars

\* onclose with 1002 "unsupported state protocol".
SocketRejected ==
    /\ sock = "open" /\ peer # "silent" /\ down # <<>> /\ Head(down).t = "reject"
    /\ Disconnect
    /\ ready' = FALSE
    /\ ClearLiveness
    /\ allowed' = FALSE /\ conn' = "incompatible"
    /\ UNCHANGED <<started, timer, acts, instance, channelVars, holders, viewVars, serverVars,
                   faults>>

(* onmessage *)
Receives(kinds) ==
    /\ sock = "open" /\ peer # "silent" /\ down # <<>> /\ Head(down).t \in kinds
    /\ down' = Tail(down)

ReceiveReady ==
    /\ Receives({"ready"})
    /\ ready' = TRUE /\ conn' = "open" /\ instance' = Head(down).version
    /\ pinging' = TRUE /\ awaiting' = FALSE
    /\ LET held == {k \in Keys : holders[k] > 0}
           count == Cardinality(held)
       IN  /\ \E id \in Bijection(held, 1 .. count) :
                  /\ chan' = [k \in Keys |-> IF k \in held THEN id[k] ELSE 0]
                  /\ owner' = [i \in Ids |-> IF i <= count THEN CHOOSE k \in held : id[k] = i
                                                           ELSE None]
                  /\ Sends([i \in 1 .. count |-> Message("sub", i, owner'[i])])
           /\ nextId' = count + 1
           /\ ResetEntries
    /\ UNCHANGED <<lifeVars, holders, viewVars, sock, peer, peerVars, serverVars, faults>>

\* handleReady of another protocol: closed with 1002, which a browser refuses.
ReceiveMismatch ==
    /\ Receives({"differs"})
    /\ conn' = "incompatible" /\ allowed' = FALSE
    /\ sock' = IF Closable(1002) THEN "closing" ELSE sock
    /\ UNCHANGED <<started, timer, acts, ready, instance, liveVars, channelVars, holders, viewVars,
                   up, peer, peerVars, serverVars, faults>>

\* failProtocol, of a frame the envelope's schema refuses; also closed with 1002.
ReceiveGarbage ==
    /\ Receives({"garbage"})
    /\ conn' = "error"
    /\ sock' = IF Closable(1002) THEN "closing" ELSE sock
    /\ UNCHANGED <<lifeVars, ready, instance, liveVars, channelVars, holders, viewVars, up, peer,
                   peerVars, serverVars, faults>>

\* handleSnapshot: one that fails the topic's schema is asked for again, once.
ResnapsAgain(k) == TRUE
ResnapsOnce(k) == ~used[k]
ReceiveSnapshot ==
    LET frame == Head(down)
        k == owner[frame.id]
        news == k # None /\ frame.seq > seq[k]
        decodes == frame.version \notin Undecodable
    IN  /\ Receives({"snap"})
        /\ \/ ~news /\ UNCHANGED <<seq, used, viewVars, up>>
           \/ /\ news /\ decodes
              /\ seq' = [seq EXCEPT ![k] = frame.seq] /\ used' = [used EXCEPT ![k] = FALSE]
              /\ view' = [view EXCEPT ![k] = "ready"]
              /\ shown' = [shown EXCEPT ![k] = frame.version]
              /\ UNCHANGED up
           \/ /\ news /\ ~decodes
              /\ seq' = [seq EXCEPT ![k] = frame.seq] /\ used' = [used EXCEPT ![k] = TRUE]
              /\ view' = [view EXCEPT ![k] = "error"]
              /\ Sends(IF ResnapsOnce(k) THEN <<Message("resnap", frame.id, None)>> ELSE <<>>)
              /\ UNCHANGED shown
        /\ UNCHANGED <<lifeVars, ready, conn, instance, liveVars, nextId, owner, chan, holders,
                       sock, peer, peerVars, serverVars, faults>>

EndLeavesChannel(k) == UNCHANGED chan
EndClearsChannel(k) == chan' = [chan EXCEPT ![k] = 0]
ReceiveEnd ==
    LET id == Head(down).id
        k == owner[id]
    IN  /\ Receives({"subend", "suberr"})
        /\ IF k = None THEN UNCHANGED <<owner, chan, view>>
           ELSE /\ owner' = [owner EXCEPT ![id] = None]
                /\ EndClearsChannel(k)
                /\ view' = [view EXCEPT ![k] = "error"]
        /\ UNCHANGED <<lifeVars, ready, conn, instance, liveVars, nextId, seq, used, holders, shown,
                       sock, up, peer, peerVars, serverVars, faults>>

ReceivePong ==
    /\ Receives({"pong"})
    /\ awaiting' = FALSE
    /\ UNCHANGED <<lifeVars, ready, conn, instance, pinging, channelVars, holders, viewVars, sock,
                   up, peer, peerVars, serverVars, faults>>

------------------------------------------------------------------------------
(* The server, as StateProtocol lets it behave.                             *)
clientVars == <<lifeVars, ready, conn, instance, liveVars, channelVars, holders, viewVars, sock>>
Replies(frame) == Len(down) < MaxInFlight /\ down' = Append(down, frame)

\* The handshake of serveStateSocket.
ServerAccepts ==
    /\ peer = "handshake" /\ up # <<>>
    /\ up' = Tail(up)
    /\ \/ dialect = "same" /\ Replies(Frame("ready", 0, 0, serverInstance)) /\ peer' = "serving"
       \/ dialect = "differs" /\ Replies(Frame("differs", 0, 0, 0)) /\ peer' = "serving"
       \/ dialect = "rejects" /\ Replies(Frame("reject", 0, 0, 0)) /\ UNCHANGED peer
    /\ UNCHANGED <<clientVars, peerVars, serverVars, faults>>

\* readLoop
ServerReads ==
    LET m == Head(up)
    IN  /\ peer = "serving" /\ up # <<>>
        /\ up' = Tail(up)
        /\ \/ /\ m.t = "sub"
              /\ subscribed' = [subscribed EXCEPT ![m.id] = m.key]
              /\ UNCHANGED <<forced, down>>
           \/ /\ m.t = "unsub"
              /\ subscribed' = [subscribed EXCEPT ![m.id] = None]
              /\ UNCHANGED <<forced, down>>
           \/ /\ m.t = "resnap"
              /\ forced' = [forced EXCEPT ![m.id] = subscribed[m.id] # None]
              /\ UNCHANGED <<subscribed, down>>
           \/ /\ m.t = "ping"
              /\ Replies(Frame("pong", 0, 0, 0))
              /\ UNCHANGED <<subscribed, forced>>
        /\ UNCHANGED <<clientVars, peer, dropped, sent, sentVersion, serverVars, faults>>

\* A snapshot, when there is news or one is asked for.
ServerSnaps(i) ==
    LET k == subscribed[i]
    IN  /\ peer = "serving" /\ k # None
        /\ sent[i] = 0 \/ sentVersion[i] # version[k] \/ forced[i]
        /\ Replies(Frame("snap", i, sent[i] + 1, version[k]))
        /\ sent' = [sent EXCEPT ![i] = @ + 1]
        /\ sentVersion' = [sentVersion EXCEPT ![i] = version[k]]
        /\ forced' = [forced EXCEPT ![i] = FALSE]
        /\ UNCHANGED <<clientVars, up, peer, subscribed, dropped, serverVars, faults>>

\* finishChannel: the resource is gone, could not be read, or its snapshot found
\* the queue full.  The last frame may find it full too, and then there is none.
ServerEnds(i) ==
    /\ peer = "serving" /\ subscribed[i] # None
    /\ Fault
    /\ subscribed' = [subscribed EXCEPT ![i] = None]
    /\ \/ Replies(Frame(IF sent[i] > 0 THEN "subend" ELSE "suberr", i, 0, 0)) /\ UNCHANGED dropped
       \/ Len(down) = MaxInFlight /\ dropped' = dropped \cup {i} /\ UNCHANGED down
    /\ UNCHANGED <<clientVars, up, peer, sent, sentVersion, forced, serverVars>>

\* A newer server may say what this client's schema does not know.
ServerSaysMore ==
    /\ peer = "serving"
    /\ Fault
    /\ Replies(Frame("garbage", 0, 0, 0))
    /\ UNCHANGED <<clientVars, up, peer, peerVars, serverVars>>

ServerRestarts ==
    /\ Fault
    /\ serverInstance' = serverInstance + 1 /\ dialect' \in Dialects
    /\ peer' = IF peer = "none" THEN "none" ELSE "gone"
    /\ UNCHANGED <<clientVars, up, down, peerVars, version>>

GoesSilent ==
    /\ peer \in {"handshake", "serving"}
    /\ Fault
    /\ peer' = "silent"
    /\ UNCHANGED <<clientVars, up, down, peerVars, serverVars>>

Change(k) ==
    /\ version[k] < MaxVersion
    /\ version' = [version EXCEPT ![k] = @ + 1]
    /\ UNCHANGED <<clientVars, up, down, peer, peerVars, serverInstance, dialect, faults>>
------------------------------------------------------------------------------
Next ==
    \/ Start \/ Stop
    \/ \E k \in Keys : Acquire(k) \/ Release(k) \/ Retry(k) \/ Change(k)
    \/ Reconnect \/ Ping \/ PongTimeout
    \/ SocketOpens \/ SocketCloses \/ ConnectionLost \/ SocketRejected
    \/ ReceiveReady \/ ReceiveMismatch \/ ReceiveGarbage
    \/ ReceiveSnapshot \/ ReceiveEnd \/ ReceivePong
    \/ ServerAccepts \/ ServerReads
    \/ \E i \in Ids : ServerSnaps(i) \/ ServerEnds(i)
    \/ ServerSaysMore \/ ServerRestarts \/ GoesSilent

Spec == Init /\ [][Next]_vars

\* Timers fire, the browser delivers what arrives and ends what is over, and the
\* server answers.  The pong deadline is met as long as the connection is not
\* silent: fairness asks for the timeout only then.
Fairness ==
    /\ WF_vars(Reconnect) /\ WF_vars(Ping) /\ WF_vars(peer = "silent" /\ PongTimeout)
    /\ WF_vars(SocketOpens) /\ WF_vars(SocketCloses) /\ WF_vars(SocketRejected)
    /\ WF_vars(ReceiveReady) /\ WF_vars(ReceiveMismatch) /\ WF_vars(ReceiveGarbage)
    /\ WF_vars(ReceiveSnapshot) /\ WF_vars(ReceiveEnd) /\ WF_vars(ReceivePong)
    /\ WF_vars(ServerAccepts) /\ WF_vars(ServerReads)
    /\ \A i \in Ids : WF_vars(ServerSnaps(i))

FairSpec == Spec /\ Fairness

------------------------------------------------------------------------------
(* A channel and its entry know each other, through releases, ends, retries *)
(* and reconnections: no frame is taken for an entry that did not ask, and  *)
(* no id is told to a channel that is not the entry's.                      *)
ChannelsAgree == \A k \in Keys, i \in Ids : owner[i] = k <=> chan[k] = i

(* On a ready connection nothing that a component watches was forgotten: it *)
(* has a channel, or shows the error that took its channel away.            *)
NothingForgotten == ready => \A k \in Keys : holders[k] > 0 => chan[k] # 0 \/ view[k] = "error"

(* A client that may reconnect has a socket or a timer to get one, never    *)
(* both; a stopped one has neither.                                         *)
OneWayForward ==
    /\ started /\ allowed => (timer <=> sock = "none")
    /\ ~started => ~timer /\ sock = "none"

(* The connection is in order: channels and entries know each other, on a   *)
(* ready one no held key is without a channel or the error that took it     *)
(* away, and while a client may reconnect it has a socket or a timer for    *)
(* one, never both.                                                         *)
ConnectionInv == TypeOK /\ ChannelsAgree /\ NothingForgotten /\ OneWayForward

(* Client and server agree on the open channels as soon as the server has   *)
(* read what the client sent, but for ends still on their way and for the   *)
(* channels the server dropped on a full queue: the client is never told of *)
(* those, and keeps them until the connection ends.                         *)
ServerAgrees ==
    sock = "open" /\ peer = "serving" /\ up = <<>> =>
        \A i \in Ids :
            /\ subscribed[i] # None => owner[i] = subscribed[i]
            /\ owner[i] # None =>
                  \/ subscribed[i] = owner[i] \/ i \in dropped
                  \/ \E n \in 1 .. Len(down) : down[n].t \in {"subend", "suberr"} /\ down[n].id = i

(* A snapshot that never decodes is not asked for over and over: a channel  *)
(* carries one snapshot for each version, one more for each version that    *)
(* does not decode, and two for each retry of the user.                     *)
NoResnapStorm ==
    \A i \in Ids, k \in Keys :
        subscribed[i] = k =>
            sent[i] <= 1 + version[k] + Cardinality(Undecodable \cap 0 .. version[k])
                         + 2 * acts

(* Nothing is on its way on the connection, and the server has sent the     *)
(* current state on every channel.                                          *)
AtRest ==
    /\ ready /\ peer = "serving" /\ up = <<>> /\ down = <<>>
    /\ \A i \in Ids : subscribed[i] # None => sent[i] # 0 /\ sentVersion[i] = version[subscribed[i]]

(* No snapshot is lost for good: on a connection at rest every watched key  *)
(* shows the current state, or the error of what took its channel away or   *)
(* does not decode (client.ts:522-540).  Sequences start over with each     *)
(* channel and connection, and no frame of an earlier one counts.  A key    *)
(* whose channel the server dropped is the exception: it shows what it was  *)
(* last sent, and no retry helps (state_socket.go:298-304, 373-375).        *)
NothingStale ==
    AtRest => \A k \in Keys : holders[k] > 0 /\ chan[k] \notin dropped =>
        IF chan[k] = 0 \/ version[k] \in Undecodable THEN view[k] = "error"
        ELSE view[k] = "ready" /\ shown[k] = version[k]

(* A component that keeps watching ends up with the current state or an     *)
(* error, whatever connections were lost, silent or restarted in between,   *)
(* unless the server has dropped its channel.                               *)
Fresh ==
    \A k \in Keys : []<>(\/ ~started \/ ~allowed \/ holders[k] = 0 \/ view[k] = "error"
                         \/ view[k] = "ready" /\ shown[k] = version[k]
                         \/ chan[k] \in dropped)

(* "Reload required" (client.ts:419) stays on display until the client is   *)
(* started anew.                                                            *)
IncompatibleStays == [][conn = "incompatible" => conn' = "incompatible" \/ ~started]_vars
==============================================================================
