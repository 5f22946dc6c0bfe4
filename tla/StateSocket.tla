----------------------------- MODULE StateSocket -----------------------------
(***************************************************************************)
(* internal/server/state_socket.go with the handler loop of                *)
(* state_topic_runner.go: one multiplexed state connection.                *)
(*                                                                         *)
(* Goroutines: the reader (readLoop), the writer (writeLoop), one handler  *)
(* per channel (handler.Open, then finishChannel) and serveStateSocket     *)
(* itself.  Each critical section of stateConnection.mu is one step, and   *)
(* so is what a goroutine does between two of them.                        *)
(*                                                                         *)
(* A snapshot is known by the version of the state it was read from;       *)
(* Payload says which versions marshal to the same bytes.  All topics read *)
(* the same state: what a topic reads is StateChanges' subject.            *)
(***************************************************************************)
EXTENDS Integers, Sequences, FiniteSets

CONSTANTS
    Ids,           \* subscription ids the client may use, 1 .. n
    ChannelLimit,  \* stateChannelLimit
    MaxQueued,     \* stateMaxQueuedFrames
    MaxVersion,    \* bound: writes of the state
    MaxMessages,   \* bound: client messages that change something
    Payload        \* Payload[v]: the bytes of the snapshot of version v

ASSUME StateSocketAssumption ==
    /\ Ids \subseteq Nat \ {0}
    /\ ChannelLimit \in Nat \ {0} /\ MaxQueued \in Nat \ {0}
    /\ MaxVersion \in Nat /\ MaxMessages \in Nat
    /\ DOMAIN Payload = 0 .. MaxVersion

None == -1
Versions == 0 .. MaxVersion

VARIABLES
    \* stateConnection
    channels,      \* ids of c.channels
    lastID, queue,
    wake,          \* a token in c.wake
    ctxDone,       \* c.ctx is cancelled
    socketOpen,
    \* stateChannel, by id
    pending,       \* version of the pending snapshot, or None
    queued, forceNext, terminal, unsubscribed,
    nextSeq,       \* hasSnapshot is nextSeq > 0
    lastPayload,   \* version last queued, or None
    resnap,        \* a token in the resnap channel
    cancelled,     \* the channel's own context is cancelled
    \* goroutines
    handler, value, dirty,  \* handler: its place, the snapshot read, a token from its update source
    reader, subject,        \* readLoop: its place, the id of the message in hand
    writer, hand,           \* writeLoop: its place, the frame in hand
    server,                 \* serveStateSocket: its place
    \* outside
    version,       \* the authoritative state
    budget,        \* messages the client may still send
    misused,       \* how often it has subscribed under an id that was not new, by id
    \* what the client has been sent, by id: the last snapshot, the verdict, and
    \* how many refusals of an id that was not new
    wireSeq, wireVersion, wireOver, wireRefused

connectionVars == <<channels, lastID, queue, wake, ctxDone, socketOpen>>
channelVars == <<pending, queued, forceNext, terminal, unsubscribed, nextSeq, lastPayload, cancelled>>
handlerVars == <<handler, value, dirty>>
writerVars == <<writer, hand>>
wireVars == <<wireSeq, wireVersion, wireOver, wireRefused>>
clientVars == <<budget, misused>>
vars == <<connectionVars, channelVars, resnap, handlerVars, reader, subject, clientVars,
          writerVars, server, version, wireVars>>

\* A frame of queue.  Only terminal frames of a channel ("subend", "suberr") and
\* "snap" refer to a stateChannel; a refused id is told without one.
Frame(kind, id) == [kind |-> kind, id |-> id]
ChannelEnds == {"subend", "suberr"}
Kinds == ChannelEnds \cup {"snap", "refused", "reused", "pong", "close"}
NoFrame == [kind |-> "none", id |-> 0, seq |-> 0, version |-> None]

HandlerStates ==
    {"none", "open", "read", "push", "wait", "finish", "report", "drop", "done", "dropped"}
Live(i) == i \in channels /\ ~unsubscribed[i]
Stopped(i) == ctxDone \/ cancelled[i]

ConnectionType ==
    /\ lastID \in Ids \cup {0}
    /\ queue \in Seq([kind : Kinds, id : Ids \cup {0}])
    /\ wake \in BOOLEAN /\ ctxDone \in BOOLEAN /\ socketOpen \in BOOLEAN
ChannelType ==
    /\ pending \in [Ids -> Versions \cup {None}]
    /\ queued \in [Ids -> BOOLEAN] /\ forceNext \in [Ids -> BOOLEAN]
    /\ terminal \in [Ids -> BOOLEAN] /\ unsubscribed \in [Ids -> BOOLEAN]
    /\ resnap \in [Ids -> BOOLEAN] /\ cancelled \in [Ids -> BOOLEAN]
    /\ nextSeq \in [Ids -> Nat]
    /\ lastPayload \in [Ids -> Versions \cup {None}]
HandlerType ==
    /\ handler \in [Ids -> HandlerStates]
    /\ value \in [Ids -> Versions \cup {None}] /\ dirty \in [Ids -> BOOLEAN]
ReaderType ==
    /\ reader \in {"read", "reused", "refused", "register", "token", "protocolError", "ioError"}
    /\ subject \in Ids \cup {0} /\ budget \in Nat /\ misused \in [Ids -> Nat]
WriterType ==
    /\ writer \in {"next", "snap", "check", "write", "forget", "wait", "failed", "gone"}
    /\ hand \in [kind : Kinds \cup {"none"}, id : Ids \cup {0}, seq : Nat,
                version : Versions \cup {None}]
ServerType ==
    /\ server \in {"serve", "closing", "cancel", "drain", "close", "join", "finished"}
    /\ version \in Versions
WireType ==
    /\ wireSeq \in [Ids -> Nat] /\ wireVersion \in [Ids -> Versions \cup {None}]
    /\ wireOver \in [Ids -> {"no"} \cup ChannelEnds]
    /\ wireRefused \in [Ids -> Nat]
\* Ids are handed out in order; a channel is listed at most while it is not unsubscribed.
ListedType == channels \subseteq {i \in Ids : i <= lastID /\ ~unsubscribed[i] /\ handler[i] # "none"}

(* Every variable in its range, and the channel map sound.                  *)
TypeOK ==
    /\ ConnectionType /\ ChannelType /\ HandlerType /\ ReaderType
    /\ WriterType /\ ServerType /\ WireType /\ ListedType

(* serveStateSocket after a good open message: ready has been written.      *)
Init ==
    /\ channels = {} /\ lastID = 0 /\ queue = <<>> /\ wake = FALSE
    /\ ctxDone = FALSE /\ socketOpen = TRUE
    /\ pending = [i \in Ids |-> None]
    /\ queued = [i \in Ids |-> FALSE] /\ forceNext = [i \in Ids |-> FALSE]
    /\ terminal = [i \in Ids |-> FALSE] /\ unsubscribed = [i \in Ids |-> FALSE]
    /\ resnap = [i \in Ids |-> FALSE] /\ cancelled = [i \in Ids |-> FALSE]
    /\ nextSeq = [i \in Ids |-> 0] /\ lastPayload = [i \in Ids |-> None]
    /\ handler = [i \in Ids |-> "none"] /\ value = [i \in Ids |-> None]
    /\ dirty = [i \in Ids |-> FALSE]
    /\ reader = "read" /\ subject = 0
    /\ writer = "next" /\ hand = NoFrame
    /\ server = "serve"
    /\ version = 0 /\ budget = MaxMessages /\ misused = [i \in Ids |-> 0]
    /\ wireSeq = [i \in Ids |-> 0] /\ wireVersion = [i \in Ids |-> 0]
    /\ wireOver = [i \in Ids |-> "no"] /\ wireRefused = [i \in Ids |-> 0]

------------------------------------------------------------------------------
(* Critical sections of stateConnection.mu used from several places.        *)

\* queueFrame: refused once the connection is cancelled or the queue is full.
CanQueue == ~ctxDone /\ Len(queue) < MaxQueued
QueueUnsignalled(f) == queue' = Append(queue, f) /\ UNCHANGED wake
Queue(f) == queue' = Append(queue, f) /\ wake' = TRUE

\* unsubscribe, for a channel that is still listed.
Forgotten(i) ==
    /\ channels' = channels \ {i}
    /\ unsubscribed' = [unsubscribed EXCEPT ![i] = TRUE]
    /\ pending' = [pending EXCEPT ![i] = None]
    /\ cancelled' = [cancelled EXCEPT ![i] = TRUE]

------------------------------------------------------------------------------
(* readLoop *)

Receives == reader = "read" /\ budget > 0 /\ socketOpen

\* subscribe, up to its first unlock; a topic that does not decode is refused.
ReadSub(i, decodes) ==
    /\ Receives
    /\ budget' = budget - 1
    /\ subject' = i
    /\ IF i <= lastID
       THEN /\ reader' = "reused" /\ UNCHANGED lastID
            /\ misused' = [misused EXCEPT ![i] = @ + 1]
       ELSE /\ lastID' = i /\ UNCHANGED misused
            /\ reader' = IF Cardinality(channels) < ChannelLimit /\ decodes
                         THEN "register" ELSE "refused"
    /\ UNCHANGED <<channels, queue, wake, ctxDone, socketOpen, channelVars, resnap,
                   handlerVars, writerVars, server, version, wireVars>>

\* queueSubscribeError
Refuse ==
    /\ reader \in {"reused", "refused"}
    /\ IF CanQueue
       THEN Queue(Frame(reader, subject)) /\ reader' = "read"
       ELSE reader' = "protocolError" /\ UNCHANGED <<queue, wake>>
    /\ UNCHANGED <<channels, lastID, ctxDone, socketOpen, channelVars, resnap, handlerVars,
                   subject, clientVars, writerVars, server, version, wireVars>>

\* subscribe: registration, unless the connection was cancelled meanwhile.
Register ==
    /\ reader = "register"
    /\ IF ctxDone
       THEN reader' = "protocolError" /\ UNCHANGED <<channels, handler>>
       ELSE /\ reader' = "read"
            /\ channels' = channels \cup {subject}
            /\ handler' = [handler EXCEPT ![subject] = "open"]
    /\ UNCHANGED <<lastID, queue, wake, ctxDone, socketOpen, channelVars, resnap, value, dirty,
                   subject, clientVars, writerVars, server, version, wireVars>>

ReadUnsub(i) ==
    /\ Receives /\ i \in channels
    /\ budget' = budget - 1 /\ UNCHANGED misused
    /\ Forgotten(i)
    /\ UNCHANGED <<lastID, queue, wake, ctxDone, socketOpen, queued, forceNext, terminal, nextSeq,
                   lastPayload, resnap, handlerVars, reader, subject, writerVars, server, version,
                   wireVars>>

\* requestResnap: the flag under the lock, the token after it.
ReadResnap(i) ==
    /\ Receives /\ i \in channels /\ ~terminal[i]
    /\ budget' = budget - 1 /\ UNCHANGED misused
    /\ forceNext' = [forceNext EXCEPT ![i] = TRUE]
    /\ reader' = "token" /\ subject' = i
    /\ UNCHANGED <<connectionVars, pending, queued, terminal, unsubscribed, nextSeq, lastPayload,
                   cancelled, resnap, handlerVars, writerVars, server, version, wireVars>>

ResnapToken ==
    /\ reader = "token"
    /\ resnap' = [resnap EXCEPT ![subject] = TRUE]
    /\ reader' = "read"
    /\ UNCHANGED <<connectionVars, channelVars, handlerVars, subject, clientVars, writerVars, server,
                   version, wireVars>>

ReadPing ==
    /\ Receives
    /\ budget' = budget - 1 /\ UNCHANGED misused
    /\ IF CanQueue
       THEN Queue(Frame("pong", 0)) /\ UNCHANGED reader
       ELSE reader' = "ioError" /\ UNCHANGED <<queue, wake>>
    /\ UNCHANGED <<channels, lastID, ctxDone, socketOpen, channelVars, resnap, handlerVars,
                   subject, writerVars, server, version, wireVars>>

\* A message that is no state message, or a second open.
ReadInvalid ==
    /\ Receives
    /\ reader' = "protocolError"
    /\ UNCHANGED <<connectionVars, channelVars, resnap, handlerVars, subject, clientVars, writerVars,
                   server, version, wireVars>>

\* The peer is gone, stayed silent past terminalPongTimeout, or the socket is closed.
ReadError ==
    /\ reader = "read"
    /\ reader' = "ioError"
    /\ UNCHANGED <<connectionVars, channelVars, resnap, handlerVars, subject, clientVars, writerVars,
                   server, version, wireVars>>

------------------------------------------------------------------------------
(* A topic handler: it registers with its update source, then reads.        *)

HandlerStep(i, from, to) ==
    /\ handler[i] = from
    /\ handler' = [handler EXCEPT ![i] = to]

Open(i) ==
    /\ HandlerStep(i, "open", "read")
    /\ UNCHANGED <<connectionVars, channelVars, resnap, value, dirty, reader, subject, clientVars,
                   writerVars, server, version, wireVars>>

\* The read fails: the thread is gone, a file does not load, a service is not there.
Fail(i) ==
    /\ \E from \in {"open", "read"} : HandlerStep(i, from, "finish")
    /\ UNCHANGED <<connectionVars, channelVars, resnap, value, dirty, reader, subject, clientVars,
                   writerVars, server, version, wireVars>>

Read(i) ==
    /\ HandlerStep(i, "read", "push")
    /\ value' = [value EXCEPT ![i] = version]
    /\ UNCHANGED <<connectionVars, channelVars, resnap, dirty, reader, subject, clientVars,
                   writerVars, server, version, wireVars>>

(* queueSnapshot *)
SamePayload(i, v) == lastPayload[i] # None /\ Payload[lastPayload[i]] = Payload[v]
SkipsUnforced(i) == SamePayload(i, value[i])
Skips(i) == ~forceNext[i] /\ SamePayload(i, value[i])
Rejects(i) == Stopped(i) \/ unsubscribed[i] \/ terminal[i] \/ i \notin channels
NoRoom(i) == ~queued[i] /\ Len(queue) >= MaxQueued

SnapshotQueuedOnce(i) ==
    /\ forceNext' = [forceNext EXCEPT ![i] = FALSE]
    /\ lastPayload' = [lastPayload EXCEPT ![i] = value[i]]
    /\ nextSeq' = [nextSeq EXCEPT ![i] = @ + 1]
    /\ pending' = IF queued[i] THEN pending ELSE [pending EXCEPT ![i] = value[i]]
    /\ queued' = [queued EXCEPT ![i] = TRUE]
    /\ IF queued[i] THEN UNCHANGED <<queue, wake>> ELSE Queue(Frame("snap", i))
SnapshotQueued(i) ==
    /\ forceNext' = [forceNext EXCEPT ![i] = FALSE]
    /\ lastPayload' = [lastPayload EXCEPT ![i] = value[i]]
    /\ nextSeq' = [nextSeq EXCEPT ![i] = @ + 1]
    /\ pending' = [pending EXCEPT ![i] = value[i]]
    /\ queued' = [queued EXCEPT ![i] = TRUE]
    /\ IF queued[i] THEN UNCHANGED <<queue, wake>> ELSE Queue(Frame("snap", i))

Push(i) ==
    /\ handler[i] = "push"
    /\ value' = [value EXCEPT ![i] = None]
    /\ \/ /\ Rejects(i) \/ (~Skips(i) /\ NoRoom(i))
          /\ handler' = [handler EXCEPT ![i] = "finish"]
          /\ UNCHANGED <<queue, wake, channelVars>>
       \/ /\ ~Rejects(i) /\ Skips(i)
          /\ handler' = [handler EXCEPT ![i] = "wait"]
          /\ UNCHANGED <<queue, wake, channelVars>>
       \/ /\ ~Rejects(i) /\ ~Skips(i) /\ ~NoRoom(i)
          /\ handler' = [handler EXCEPT ![i] = "wait"]
          /\ SnapshotQueued(i)
          /\ UNCHANGED <<terminal, unsubscribed, cancelled>>
    /\ UNCHANGED <<channels, lastID, ctxDone, socketOpen, resnap, dirty, reader, subject, clientVars,
                   writerVars, server, version, wireVars>>

(* runSnapshotTopic's select: update, reconcile tick, resnap or cancellation. *)
Update(i) ==
    /\ HandlerStep(i, "wait", "read") /\ dirty[i]
    /\ dirty' = [dirty EXCEPT ![i] = FALSE]
    /\ UNCHANGED <<connectionVars, channelVars, resnap, value, reader, subject, clientVars,
                   writerVars, server, version, wireVars>>

Tick(i) ==
    /\ HandlerStep(i, "wait", "read")
    /\ UNCHANGED <<connectionVars, channelVars, resnap, value, dirty, reader, subject, clientVars,
                   writerVars, server, version, wireVars>>

Resnap(i) ==
    /\ HandlerStep(i, "wait", "read") /\ resnap[i]
    /\ resnap' = [resnap EXCEPT ![i] = FALSE]
    /\ UNCHANGED <<connectionVars, channelVars, value, dirty, reader, subject, clientVars,
                   writerVars, server, version, wireVars>>

StopWaiting(i) ==
    /\ HandlerStep(i, "wait", "finish") /\ Stopped(i)
    /\ UNCHANGED <<connectionVars, channelVars, resnap, value, dirty, reader, subject, clientVars,
                   writerVars, server, version, wireVars>>

(* finishChannel: terminal under the lock, the frame in a second section,   *)
(* and a third one to give the channel up when the frame finds no room.     *)
Finish(i) ==
    /\ IF ctxDone \/ ~Live(i)
       THEN HandlerStep(i, "finish", "done") /\ UNCHANGED <<terminal, cancelled>>
       ELSE /\ HandlerStep(i, "finish", "report")
            /\ terminal' = [terminal EXCEPT ![i] = TRUE]
            /\ cancelled' = [cancelled EXCEPT ![i] = TRUE]
    /\ UNCHANGED <<connectionVars, pending, queued, forceNext, unsubscribed, nextSeq, lastPayload,
                   resnap, value, dirty, reader, subject, clientVars, writerVars, server, version,
                   wireVars>>

EndKindAlwaysEnd(i) == "subend"
EndKind(i) == IF nextSeq[i] > 0 THEN "subend" ELSE "suberr"
Report(i) ==
    /\ IF CanQueue
       THEN HandlerStep(i, "report", "done") /\ Queue(Frame(EndKind(i), i))
       ELSE HandlerStep(i, "report", "drop") /\ UNCHANGED <<queue, wake>>
    /\ UNCHANGED <<channels, lastID, ctxDone, socketOpen, channelVars, resnap, value, dirty,
                   reader, subject, clientVars, writerVars, server, version, wireVars>>

Drop(i) ==
    /\ IF i \in channels
       THEN HandlerStep(i, "drop", "dropped") /\ Forgotten(i)
       ELSE HandlerStep(i, "drop", "done") /\ UNCHANGED <<channels, channelVars>>
    /\ UNCHANGED <<lastID, queue, wake, ctxDone, socketOpen, queued, forceNext, terminal, nextSeq,
                   lastPayload, resnap, value, dirty, reader, subject, clientVars, writerVars, server,
                   version, wireVars>>

------------------------------------------------------------------------------
(* writeLoop *)

WriterStep(from, to) == writer = from /\ writer' = to

\* nextOutbound
NextOutbound ==
    /\ writer = "next"
    /\ IF queue = <<>>
       THEN writer' = "wait" /\ UNCHANGED <<queue, hand>>
       ELSE /\ queue' = Tail(queue)
            /\ hand' = [NoFrame EXCEPT !.kind = Head(queue).kind, !.id = Head(queue).id]
            /\ writer' = IF Head(queue).kind = "snap" THEN "snap"
                         ELSE IF Head(queue).kind \in ChannelEnds THEN "check"
                         ELSE "write"
    /\ UNCHANGED <<channels, lastID, wake, ctxDone, socketOpen, channelVars, resnap, handlerVars,
                   reader, subject, clientVars, server, version, wireVars>>

\* The snapshot frame stands for whatever is pending when the writer gets to it;
\* the pending snapshot is always the last one numbered.
TakeSnapshot ==
    LET i == hand.id IN
    /\ writer = "snap"
    /\ queued' = [queued EXCEPT ![i] = FALSE]
    /\ IF Live(i) /\ pending[i] # None
       THEN /\ hand' = [hand EXCEPT !.seq = nextSeq[i], !.version = pending[i]]
            /\ pending' = [pending EXCEPT ![i] = None]
            /\ writer' = "write"
       ELSE /\ hand' = NoFrame
            /\ writer' = "next"
            /\ UNCHANGED pending
    /\ UNCHANGED <<connectionVars, forceNext, terminal, unsubscribed, nextSeq, lastPayload,
                   cancelled, resnap, handlerVars, reader, subject, clientVars, server, version, wireVars>>

\* A terminal frame of a channel the client gave up meanwhile is not sent.
CheckCancelled ==
    IF cancelled[hand.id]
    THEN WriterStep("check", "next") /\ hand' = NoFrame
    ELSE WriterStep("check", "write") /\ UNCHANGED hand
CheckUnsubscribed ==
    IF unsubscribed[hand.id]
    THEN WriterStep("check", "next") /\ hand' = NoFrame
    ELSE WriterStep("check", "write") /\ UNCHANGED hand
Check ==
    /\ writer = "check"
    /\ CheckUnsubscribed
    /\ UNCHANGED <<connectionVars, channelVars, resnap, handlerVars, reader, subject, clientVars,
                   server, version, wireVars>>

\* websocketWriter.Write: what the client is sent.  A close frame is the last one.
Write ==
    /\ writer = "write" /\ socketOpen
    /\ writer' = IF hand.kind \in ChannelEnds THEN "forget" ELSE "next"
    /\ hand' = IF hand.kind \in ChannelEnds THEN hand ELSE NoFrame
    /\ wireSeq' = [i \in Ids |-> IF hand.kind = "snap" /\ i = hand.id THEN hand.seq ELSE wireSeq[i]]
    /\ wireVersion' =
          [i \in Ids |-> IF hand.kind = "snap" /\ i = hand.id THEN hand.version ELSE wireVersion[i]]
    /\ wireOver' =
          [i \in Ids |-> IF i # hand.id THEN wireOver[i]
                         ELSE IF hand.kind \in ChannelEnds THEN hand.kind
                         ELSE IF hand.kind = "refused" THEN "suberr"
                         ELSE wireOver[i]]
    /\ wireRefused' = [i \in Ids |-> IF hand.kind = "reused" /\ i = hand.id
                                     THEN wireRefused[i] + 1 ELSE wireRefused[i]]
    /\ socketOpen' = (hand.kind # "close")
    /\ UNCHANGED <<channels, lastID, queue, wake, ctxDone, channelVars, resnap, handlerVars,
                   reader, subject, clientVars, server, version>>

\* After a terminal frame the id is free of its channel.
Forget ==
    /\ writer = "forget"
    /\ channels' = channels \ {hand.id}
    /\ writer' = "next" /\ hand' = NoFrame
    /\ UNCHANGED <<lastID, queue, wake, ctxDone, socketOpen, channelVars, resnap, handlerVars,
                   reader, subject, clientVars, server, version, wireVars>>

\* A write or a ping fails or misses its deadline: writerDone, then socket.Close.
WriteFails ==
    /\ writer \in {"write", "wait"}
    /\ writer' = "failed" /\ hand' = NoFrame
    /\ socketOpen' = FALSE
    /\ UNCHANGED <<channels, lastID, queue, wake, ctxDone, channelVars, resnap, handlerVars,
                   reader, subject, clientVars, server, version, wireVars>>

WriterWakes ==
    /\ WriterStep("wait", "next") /\ wake
    /\ wake' = FALSE
    /\ UNCHANGED <<channels, lastID, queue, ctxDone, socketOpen, channelVars, resnap, handlerVars,
                   reader, subject, clientVars, hand, server, version, wireVars>>

WriterStops ==
    /\ WriterStep("wait", "gone") /\ ctxDone
    /\ UNCHANGED <<connectionVars, channelVars, resnap, handlerVars, reader, subject, clientVars,
                   hand, server, version, wireVars>>

------------------------------------------------------------------------------
(* serveStateSocket: wait for the reader or the writer, then shut down.     *)

ServerStep(from, to) == server = from /\ server' = to

\* readDone carries a protocol error: a close frame is queued and waited for.
NoticeProtocolError ==
    /\ server = "serve" /\ reader = "protocolError"
    /\ IF CanQueue
       THEN Queue(Frame("close", 0)) /\ server' = "closing"
       ELSE server' = "cancel" /\ UNCHANGED <<queue, wake>>
    /\ UNCHANGED <<channels, lastID, ctxDone, socketOpen, channelVars, resnap, handlerVars,
                   reader, subject, clientVars, writerVars, version, wireVars>>

ReadingEnded == reader = "ioError"
Ended == reader = "ioError" \/ writer \in {"failed", "gone"}
NoticeEnd ==
    /\ ServerStep("serve", "cancel") /\ Ended
    /\ UNCHANGED <<connectionVars, channelVars, resnap, handlerVars, reader, subject, clientVars,
                   writerVars, version, wireVars>>

\* The close frame was written, the writer ended, or a second went by.
CloseWaited ==
    /\ ServerStep("closing", "cancel")
    /\ UNCHANGED <<connectionVars, channelVars, resnap, handlerVars, reader, subject, clientVars,
                   writerVars, version, wireVars>>

\* shutdown, before its lock; the request's own context may also end first.
Cancel ==
    /\ \/ ServerStep("cancel", "drain")
       \/ server = "serve" /\ ~ctxDone /\ UNCHANGED server
    /\ ctxDone' = TRUE
    /\ UNCHANGED <<channels, lastID, queue, wake, socketOpen, channelVars, resnap, handlerVars,
                   reader, subject, clientVars, writerVars, version, wireVars>>

\* shutdown, under the lock and after it.
DrainQueueOnly ==
    /\ queue' = <<>>
    /\ UNCHANGED <<channels, unsubscribed, pending, cancelled>>
DrainAll ==
    /\ queue' = <<>>
    /\ channels' = {}
    /\ unsubscribed' = [i \in Ids |-> unsubscribed[i] \/ i \in channels]
    /\ pending' = [i \in Ids |-> IF i \in channels THEN None ELSE pending[i]]
    /\ cancelled' = [i \in Ids |-> cancelled[i] \/ i \in channels]
Drain ==
    /\ ServerStep("drain", "close")
    /\ DrainAll
    /\ UNCHANGED <<lastID, wake, ctxDone, socketOpen, queued, forceNext, terminal, nextSeq,
                   lastPayload, resnap, handlerVars, reader, subject, clientVars, writerVars, version,
                   wireVars>>

CloseSocket ==
    /\ ServerStep("close", "join")
    /\ socketOpen' = FALSE
    /\ UNCHANGED <<channels, lastID, queue, wake, ctxDone, channelVars, resnap, handlerVars,
                   reader, subject, clientVars, writerVars, version, wireVars>>

\* channelWG.Wait
Join ==
    /\ ServerStep("join", "finished")
    /\ \A i \in Ids : handler[i] \in {"none", "done", "dropped"}
    /\ UNCHANGED <<connectionVars, channelVars, resnap, handlerVars, reader, subject, clientVars,
                   writerVars, version, wireVars>>

------------------------------------------------------------------------------
(* The rest of the program writes the state and wakes every handler that    *)
(* has registered: Broadcast and StateChanges say why that is one step.     *)
Change ==
    /\ version < MaxVersion
    /\ version' = version + 1
    /\ dirty' = [i \in Ids |-> dirty[i] \/ handler[i] \in {"read", "push", "wait"}]
    /\ UNCHANGED <<connectionVars, channelVars, resnap, handler, value, reader, subject, clientVars,
                   writerVars, server, wireVars>>

ReaderNext ==
    \/ \E i \in Ids :
          \/ \E decodes \in BOOLEAN : ReadSub(i, decodes)
          \/ ReadUnsub(i)
          \/ ReadResnap(i)
    \/ Refuse
    \/ Register
    \/ ResnapToken
    \/ ReadPing
    \/ ReadInvalid
    \/ ReadError

HandlerNext(i) ==
    \/ Open(i)
    \/ Fail(i)
    \/ Read(i)
    \/ Push(i)
    \/ Update(i)
    \/ Tick(i)
    \/ Resnap(i)
    \/ StopWaiting(i)
    \/ Finish(i)
    \/ Report(i)
    \/ Drop(i)

WriterNext ==
    \/ NextOutbound
    \/ TakeSnapshot
    \/ Check
    \/ Write
    \/ Forget
    \/ WriteFails
    \/ WriterWakes
    \/ WriterStops

ServerNext ==
    \/ NoticeProtocolError
    \/ NoticeEnd
    \/ CloseWaited
    \/ Cancel
    \/ Drain
    \/ CloseSocket
    \/ Join

Next ==
    \/ ReaderNext
    \/ \E i \in Ids : HandlerNext(i)
    \/ WriterNext
    \/ ServerNext
    \/ Change

Spec == Init /\ [][Next]_vars

\* Goroutines run, writes complete or fail, a closed socket ends the read, and
\* serveStateSocket's timer fires.  Nobody owes a client message, a failing read,
\* a reconcile tick, a write of the state or the end of the request.
Fairness ==
    /\ \A i \in Ids :
          /\ WF_vars(Open(i)) /\ WF_vars(Read(i)) /\ WF_vars(Push(i))
          /\ WF_vars(Update(i)) /\ WF_vars(Resnap(i)) /\ WF_vars(StopWaiting(i))
          /\ WF_vars(Finish(i)) /\ WF_vars(Report(i)) /\ WF_vars(Drop(i))
    /\ WF_vars(Refuse) /\ WF_vars(Register) /\ WF_vars(ResnapToken)
    /\ WF_vars(~socketOpen /\ ReadError)
    /\ WF_vars(NextOutbound) /\ WF_vars(TakeSnapshot) /\ WF_vars(Check) /\ WF_vars(Forget)
    /\ WF_vars(writer = "write" /\ (Write \/ WriteFails)) /\ WF_vars(WriterWakes) /\ WF_vars(WriterStops)
    /\ WF_vars(server # "serve" /\ ServerNext)
    /\ WF_vars(NoticeProtocolError) /\ WF_vars(NoticeEnd)

FairSpec == Spec /\ Fairness

------------------------------------------------------------------------------
Drained == server \in {"close", "join", "finished"}

\* The depth-one wake token is enough: writeLoop never sleeps on a queue while
\* nothing is left to wake it.
WriterNeverStranded ==
    writer = "wait" /\ queue # <<>> => wake \/ ctxDone

(* writeLoop sleeps only when there is nothing to say: what was skipped as  *)
(* a duplicate, replaced while it was pending or asked for again is not     *)
(* lost on the way, so that the client shows the current state of every     *)
(* channel whose handler sleeps too and no resnap is outstanding; and of    *)
(* all the ids the connection has had, each whose handler ended has its     *)
(* verdict on the wire unless the client itself had unsubscribed.  The one  *)
(* exception has a handler state of its own: finishChannel gives a channel  *)
(* up in silence when its last frame finds the queue full ("dropped").      *)
SleepsOnlyWhenCurrent ==
    /\ WriterNeverStranded
    /\ writer = "wait" /\ ~wake /\ ~ctxDone =>
          \A i \in Ids :
             /\ handler[i] = "done" => unsubscribed[i] \/ wireOver[i] # "no"
             /\ i \in channels /\ handler[i] = "wait" /\ ~dirty[i] /\ ~resnap[i] /\ ~(reader = "token" /\ subject = i) =>
                   ~forceNext[i] /\ wireSeq[i] > 0 /\ Payload[wireVersion[i]] = Payload[version]

(* A stalled client costs a bounded queue and a bounded set of channels.    *)
Bounded == Len(queue) <= MaxQueued /\ Cardinality(channels) <= ChannelLimit

(* shutdown cancels, then drains under the lock: whoever was in between, a  *)
(* subscription being registered, a snapshot or a terminal frame on its way *)
(* to the queue, must not bring anything back, and no handler keeps a       *)
(* context that nobody will cancel.                                         *)
StaysDrained ==
    Drained => /\ queue = <<>> /\ channels = {}
               /\ \A i \in Ids : unsubscribed[i] \/ handler[i] \in {"none", "done"}

(* What each subscription sees, whatever the interleaving of its handler,   *)
(* the reader and the writer: StateProtocol.                                *)
Protocol == INSTANCE StateProtocol WITH
                last <- lastID, seq <- wireSeq, shown <- wireVersion, over <- wireOver,
                refused <- wireRefused
ProtocolSpec == Protocol!Spec

(* An open channel shows the current state again and again, whatever        *)
(* deduplication, replacement and depth-one wakeups left out.               *)
Converges ==
    \A i \in Ids :
        []<>(i \in channels /\ ~ctxDone =>
                wireSeq[i] > 0 /\ Payload[wireVersion[i]] = Payload[version])

(* A resnap is answered by a new snapshot even if nothing changed.          *)
ResnapAnswered ==
    \A i \in Ids : \A n \in 0 .. MaxVersion + MaxMessages :
        (i \in channels /\ forceNext[i] /\ wireSeq[i] = n)
            ~> (wireSeq[i] > n \/ i \notin channels \/ ctxDone)

(* A handler that ends is not a silent one: its verdict comes to the wire,  *)
(* past the writer's check for channels the client gave up, unless the      *)
(* client does give it up, finishChannel does for want of room in the       *)
(* queue, or the connection is cancelled.                                   *)
EndsAreTold ==
    \A i \in Ids :
        handler[i] = "finish" ~> (wireOver[i] # "no" \/ unsubscribed[i] \/ ctxDone)

(* Once the connection is cancelled serveStateSocket returns: no handler,   *)
(* wherever it was, keeps channelWG waiting.                                *)
ShutdownCompletes == ctxDone ~> server = "finished"
==============================================================================
