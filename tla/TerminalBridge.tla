--------------------------- MODULE TerminalBridge ---------------------------
(***************************************************************************)
(* internal/server/websocket_transport.go, protocol 2, with the loop of    *)
(* the handlers in terminal.go and tmux_browser.go that own the bridge and *)
(* the acknowledgements of TerminalSession.tsx.                            *)
(*                                                                         *)
(* Output flows  terminal -> pty -> reader -> chunks -> writer -> browser, *)
(* acknowledgements  browser -> peer -> messages -> loop -> credit.  Bytes *)
(* are counted, not named: every hop is a FIFO of one producer and one     *)
(* consumer.                                                               *)
(***************************************************************************)
EXTENDS Naturals, Sequences

CONSTANTS
    ReadSize,         \* terminalOutputReadSize
    FrameSize,        \* terminalOutputFrameSize
    Interactive,      \* terminalInteractiveFlush
    CreditLimit,      \* terminalOutputCreditBytes
    ChunkCapacity,    \* terminalOutputQueueCapacity
    MessageCapacity,  \* capacity of websocketPeer.messages
    AckThreshold,     \* pending bytes that TerminalSession acknowledges at once
    LoopReads,        \* does the owner's loop receive from peer.messages?
    MaxOutput,        \* bound: bytes the terminal prints
    MaxInput          \* bound: keystrokes

ASSUME TerminalBridgeAssumption ==
    /\ {ReadSize, FrameSize, ChunkCapacity, MessageCapacity, AckThreshold} \subseteq Nat \ {0}
    /\ Interactive \in Nat /\ CreditLimit \in Nat /\ MaxOutput \in Nat /\ MaxInput \in Nat
    /\ FrameSize <= CreditLimit
    /\ LoopReads \in BOOLEAN

VARIABLES
    \* the terminal and its pty
    produced,     \* bytes printed so far
    ptyOut,       \* bytes the pty holds
    exited,       \* the terminal has exited
    ptyOpen,
    \* reader goroutine
    reader, readerHand,
    chunks, chunksClosed,
    \* writePTYOutput
    writer,       \* its place
    rest,         \* what appendChunk has left of its chunk
    pending, timer,
    then,         \* where flush returns to
    terminalDone, \* "none", "end" or "failed"
    \* terminalOutputCredit
    outstanding, creditWake,
    \* browser
    unparsed,     \* sizes of the frames sent and not yet parsed by xterm
    shown,        \* bytes parsed
    unacked,      \* pendingAcknowledgementBytes
    toServer,     \* messages on their way: 0 is a keystroke, n > 0 acknowledges n bytes
    inputs,       \* keystrokes so far
    socketOpen,
    \* peer reader and owner
    messages, peerDone,
    loop,         \* "serve", "signal", "stop", "close" or "gone"
    stop          \* bridge.stop is closed

terminalVars == <<produced, ptyOut, exited>>
readerVars == <<reader, readerHand>>
writerVars == <<writer, rest, pending, timer, then>>
creditVars == <<outstanding, creditWake>>
browserVars == <<shown, unacked, inputs>>
ownerVars == <<loop, stop, ptyOpen, socketOpen>>
vars == <<terminalVars, readerVars, chunks, chunksClosed, writerVars, terminalDone, creditVars,
          browserVars, unparsed, toServer, messages, peerDone, ownerVars>>

Least(a, b) == IF a < b THEN a ELSE b
SumOf(s) ==
    LET sum[i \in 0 .. Len(s)] == IF i = 0 THEN 0 ELSE sum[i - 1] + s[i]
    IN  sum[Len(s)]

TerminalType ==
    /\ produced \in 0 .. MaxOutput /\ ptyOut \in 0 .. produced
    /\ exited \in BOOLEAN /\ ptyOpen \in BOOLEAN
ReaderType ==
    /\ reader \in {"read", "send", "done"} /\ readerHand \in 0 .. ReadSize
    /\ reader = "send" => readerHand > 0
    /\ chunks \in Seq(1 .. ReadSize) /\ Len(chunks) <= ChunkCapacity
    /\ chunksClosed \in BOOLEAN
\* Between flushes the batch is short of a frame, and timed exactly when not empty.
WriterType ==
    /\ writer \in {"select", "append", "reserve", "wait", "write", "end", "gone", "failed"}
    /\ then \in {"select", "append", "end"}
    /\ rest \in 0 .. ReadSize /\ pending \in 0 .. FrameSize /\ timer \in BOOLEAN
    /\ writer \in {"reserve", "wait", "write"} => pending > 0 /\ ~timer
    /\ writer \in {"select", "append"} => pending < FrameSize /\ (timer <=> pending > 0)
    /\ terminalDone \in {"none", "end", "failed"}
CreditType == outstanding \in 0 .. CreditLimit /\ creditWake \in BOOLEAN
BrowserType ==
    /\ unparsed \in Seq(1 .. FrameSize)
    /\ shown \in Nat /\ unacked \in Nat /\ inputs \in 0 .. MaxInput
    /\ toServer \in Seq(Nat) /\ socketOpen \in BOOLEAN
OwnerType ==
    /\ messages \in Seq(Nat) /\ Len(messages) <= MessageCapacity
    /\ peerDone \in BOOLEAN /\ stop \in BOOLEAN
    /\ loop \in {"serve", "signal", "stop", "close", "gone"}

TypeOK == TerminalType /\ ReaderType /\ WriterType /\ CreditType /\ BrowserType /\ OwnerType

Init ==
    /\ produced = 0 /\ ptyOut = 0 /\ exited = FALSE /\ ptyOpen = TRUE
    /\ reader = "read" /\ readerHand = 0
    /\ chunks = <<>> /\ chunksClosed = FALSE
    /\ writer = "select" /\ rest = 0 /\ pending = 0 /\ timer = FALSE /\ then = "select"
    /\ terminalDone = "none"
    /\ outstanding = 0 /\ creditWake = FALSE
    /\ unparsed = <<>> /\ shown = 0 /\ unacked = 0 /\ toServer = <<>> /\ inputs = 0
    /\ socketOpen = TRUE
    /\ messages = <<>> /\ peerDone = FALSE
    /\ loop = "serve" /\ stop = FALSE

------------------------------------------------------------------------------
(* The terminal: tmux attach-session in a pty.  It takes input at any time. *)
Emit ==
    /\ ~exited /\ produced < MaxOutput
    /\ produced' = produced + 1 /\ ptyOut' = ptyOut + 1
    /\ UNCHANGED <<exited, readerVars, chunks, chunksClosed, writerVars, terminalDone, creditVars,
                   browserVars, unparsed, toServer, messages, peerDone, ownerVars>>

Exit ==
    /\ ~exited
    /\ exited' = TRUE
    /\ UNCHANGED <<produced, ptyOut, readerVars, chunks, chunksClosed, writerVars, terminalDone,
                   creditVars, browserVars, unparsed, toServer, messages, peerDone, ownerVars>>

------------------------------------------------------------------------------
(* The reader goroutine of startPTYWebSocketBridge.                         *)
ReadPTY ==
    /\ reader = "read" /\ ptyOpen /\ ptyOut > 0
    /\ \E count \in 1 .. Least(ReadSize, ptyOut) :
          readerHand' = count /\ ptyOut' = ptyOut - count
    /\ reader' = "send"
    /\ UNCHANGED <<produced, exited, chunks, chunksClosed, writerVars, terminalDone, creditVars,
                   browserVars, unparsed, toServer, messages, peerDone, ownerVars>>

SendChunk ==
    /\ reader = "send" /\ Len(chunks) < ChunkCapacity
    /\ chunks' = Append(chunks, readerHand)
    /\ reader' = "read" /\ readerHand' = 0
    /\ UNCHANGED <<terminalVars, chunksClosed, writerVars, terminalDone, creditVars, browserVars,
                   unparsed, toServer, messages, peerDone, ownerVars>>

\* The pty is drained and its terminal is gone, it was closed, or the bridge stopped.
ReaderEnds ==
    /\ \/ reader = "read" /\ (~ptyOpen \/ (exited /\ ptyOut = 0))
       \/ reader = "send" /\ stop
    /\ reader' = "done" /\ chunksClosed' = TRUE
    /\ UNCHANGED <<terminalVars, readerHand, chunks, writerVars, terminalDone, creditVars,
                   browserVars, unparsed, toServer, messages, peerDone, ownerVars>>

------------------------------------------------------------------------------
(* writePTYOutput *)

\* flush: nothing pending goes straight back, anything else needs credit first.
FlushThen(bytes, back) ==
    /\ writer' = IF bytes = 0 THEN back ELSE "reserve"
    /\ then' = back
    /\ timer' = IF bytes = 0 THEN timer ELSE FALSE

\* Where the writer listens to bridge.stop: its own select and reserve's.
ListensOutsideReserve == {"select"}
Listens == {"select", "wait"}
WriterStops ==
    /\ writer \in Listens /\ stop
    /\ writer' = "gone"
    /\ UNCHANGED <<terminalVars, readerVars, chunks, chunksClosed, rest, pending, timer, then,
                   terminalDone, creditVars, browserVars, unparsed, toServer, messages, peerDone,
                   ownerVars>>

TakeChunk ==
    /\ writer = "select" /\ chunks # <<>>
    /\ rest' = Head(chunks) /\ chunks' = Tail(chunks)
    /\ writer' = "append"
    /\ UNCHANGED <<terminalVars, readerVars, chunksClosed, pending, timer, then, terminalDone,
                   creditVars, browserVars, unparsed, toServer, messages, peerDone, ownerVars>>

\* appendChunk, up to its next flush.
AppendUnarmed(size) == writer' = "select" /\ UNCHANGED <<timer, then>>
AppendArms(size) == writer' = "select" /\ timer' = (IF size > 0 THEN TRUE ELSE timer) /\ UNCHANGED then
AppendChunk ==
    LET space == Least(FrameSize - pending, rest)
        size == pending + space
    IN  /\ writer = "append"
        /\ rest' = rest - space /\ pending' = size
        /\ \/ size = FrameSize /\ FlushThen(size, "append")
           \/ 0 < size /\ size < FrameSize /\ size <= Interactive /\ FlushThen(size, "select")
           \/ size < FrameSize /\ (size = 0 \/ size > Interactive) /\ AppendArms(size)
        /\ UNCHANGED <<terminalVars, readerVars, chunks, chunksClosed, terminalDone, creditVars,
                       browserVars, unparsed, toServer, messages, peerDone, ownerVars>>

BatchTimer ==
    /\ writer = "select" /\ timer
    /\ writer' = "reserve" /\ then' = "select" /\ timer' = FALSE
    /\ UNCHANGED <<terminalVars, readerVars, chunks, chunksClosed, rest, pending, terminalDone,
                   creditVars, browserVars, unparsed, toServer, messages, peerDone, ownerVars>>

ChunksEndUnflushed == writer' = "end" /\ UNCHANGED <<then, timer>>
ChunksEndFlushes == FlushThen(pending, "end")
ChunksEnd ==
    /\ writer = "select" /\ chunks = <<>> /\ chunksClosed
    /\ ChunksEndFlushes
    /\ UNCHANGED <<terminalVars, readerVars, chunks, chunksClosed, rest, pending, terminalDone,
                   creditVars, browserVars, unparsed, toServer, messages, peerDone, ownerVars>>

ReportEnd ==
    /\ writer = "end"
    /\ terminalDone' = "end" /\ writer' = "gone"
    /\ UNCHANGED <<terminalVars, readerVars, chunks, chunksClosed, rest, pending, timer, then,
                   creditVars, browserVars, unparsed, toServer, messages, peerDone, ownerVars>>

(* terminalOutputCredit.reserve *)
Affordable == outstanding + pending <= CreditLimit
Reserve ==
    /\ writer = "reserve"
    /\ IF Affordable
       THEN outstanding' = outstanding + pending /\ writer' = "write"
       ELSE writer' = "wait" /\ UNCHANGED outstanding
    /\ UNCHANGED <<terminalVars, readerVars, chunks, chunksClosed, rest, pending, timer, then,
                   terminalDone, creditWake, browserVars, unparsed, toServer, messages, peerDone,
                   ownerVars>>

CreditArrives ==
    /\ writer = "wait" /\ creditWake
    /\ creditWake' = FALSE /\ writer' = "reserve"
    /\ UNCHANGED <<terminalVars, readerVars, chunks, chunksClosed, rest, pending, timer, then,
                   terminalDone, outstanding, browserVars, unparsed, toServer, messages, peerDone,
                   ownerVars>>

WriteKeepsPending == unparsed' = Append(unparsed, pending) /\ UNCHANGED pending
WriteFrame == unparsed' = Append(unparsed, pending) /\ pending' = 0
Write ==
    /\ writer = "write" /\ socketOpen
    /\ WriteFrame
    /\ writer' = then
    /\ UNCHANGED <<terminalVars, readerVars, chunks, chunksClosed, rest, timer, then, terminalDone,
                   creditVars, browserVars, toServer, messages, peerDone, ownerVars>>

\* The socket is closed, or the write misses terminalWriteTimeout.
WriteFails ==
    /\ writer = "write"
    /\ writer' = "failed"
    /\ terminalDone' = IF terminalDone = "none" THEN "failed" ELSE terminalDone
    /\ UNCHANGED <<terminalVars, readerVars, chunks, chunksClosed, rest, pending, timer, then,
                   creditVars, browserVars, unparsed, toServer, messages, peerDone, ownerVars>>

------------------------------------------------------------------------------
(* TerminalSession: xterm calls back once it has parsed a frame; bytes are  *)
(* acknowledged in bulk, or two milliseconds later.                         *)
AcknowledgeBulkOnly(bytes) ==
    IF bytes >= AckThreshold
    THEN toServer' = Append(toServer, bytes) /\ unacked' = 0
    ELSE unacked' = 0 /\ UNCHANGED toServer
Acknowledge(bytes) ==
    IF bytes >= AckThreshold /\ socketOpen
    THEN toServer' = Append(toServer, bytes) /\ unacked' = 0
    ELSE unacked' = bytes /\ UNCHANGED toServer

Parse ==
    /\ unparsed # <<>>
    /\ unparsed' = Tail(unparsed)
    /\ shown' = shown + Head(unparsed)
    /\ Acknowledge(unacked + Head(unparsed))
    /\ UNCHANGED <<terminalVars, readerVars, chunks, chunksClosed, writerVars, terminalDone,
                   creditVars, inputs, messages, peerDone, ownerVars>>

AckTimer ==
    /\ unacked > 0 /\ socketOpen
    /\ toServer' = Append(toServer, unacked) /\ unacked' = 0
    /\ UNCHANGED <<terminalVars, readerVars, chunks, chunksClosed, writerVars, terminalDone,
                   creditVars, shown, inputs, unparsed, messages, peerDone, ownerVars>>

Type ==
    /\ inputs < MaxInput /\ socketOpen
    /\ inputs' = inputs + 1
    /\ toServer' = Append(toServer, 0)
    /\ UNCHANGED <<terminalVars, readerVars, chunks, chunksClosed, writerVars, terminalDone,
                   creditVars, shown, unacked, unparsed, messages, peerDone, ownerVars>>

------------------------------------------------------------------------------
(* startWebSocketPeer: its goroutine, holding a message that finds no room  *)
(* for a second, gives up.                                                  *)
PeerReads ==
    /\ toServer # <<>> /\ ~peerDone /\ socketOpen /\ Len(messages) < MessageCapacity
    /\ messages' = Append(messages, Head(toServer))
    /\ toServer' = Tail(toServer)
    /\ UNCHANGED <<terminalVars, readerVars, chunks, chunksClosed, writerVars, terminalDone,
                   creditVars, browserVars, unparsed, peerDone, ownerVars>>

PeerStalls ==
    /\ toServer # <<>> /\ ~peerDone /\ Len(messages) = MessageCapacity
    /\ peerDone' = TRUE
    /\ UNCHANGED <<terminalVars, readerVars, chunks, chunksClosed, writerVars, terminalDone,
                   creditVars, browserVars, unparsed, toServer, messages, ownerVars>>

\* The browser is gone or silent past terminalPongTimeout, or the socket is closed.
PeerFails ==
    /\ ~peerDone
    /\ peerDone' = TRUE
    /\ UNCHANGED <<terminalVars, readerVars, chunks, chunksClosed, writerVars, terminalDone,
                   creditVars, browserVars, unparsed, toServer, messages, ownerVars>>

------------------------------------------------------------------------------
(* The owner: Handle on each message.  terminalOutputCredit.acknowledge     *)
(* counts under its lock and signals after it.                              *)
Acknowledged(count) == IF count >= outstanding THEN 0 ELSE outstanding - count
HandleMessage ==
    /\ loop = "serve" /\ LoopReads /\ messages # <<>>
    /\ messages' = Tail(messages)
    /\ IF Head(messages) = 0
       THEN UNCHANGED <<outstanding, loop>>
       ELSE outstanding' = Acknowledged(Head(messages)) /\ loop' = "signal"
    /\ UNCHANGED <<terminalVars, readerVars, chunks, chunksClosed, writerVars, terminalDone,
                   creditWake, browserVars, unparsed, toServer, peerDone, stop, ptyOpen, socketOpen>>

SignalsNobody == UNCHANGED creditWake
SignalsCredit == creditWake' = TRUE
Signal ==
    /\ loop = "signal"
    /\ SignalsCredit
    /\ loop' = "serve"
    /\ UNCHANGED <<terminalVars, readerVars, chunks, chunksClosed, writerVars, terminalDone,
                   outstanding, browserVars, unparsed, toServer, messages, peerDone, stop, ptyOpen,
                   socketOpen>>

LoopEnds ==
    /\ loop = "serve" /\ (terminalDone # "none" \/ peerDone)
    /\ loop' = "stop"
    /\ UNCHANGED <<terminalVars, readerVars, chunks, chunksClosed, writerVars, terminalDone,
                   creditVars, browserVars, unparsed, toServer, messages, peerDone, stop, ptyOpen,
                   socketOpen>>

\* A ping or an input write fails, or the agent's pane or the setup is found to have ended.
LoopGivesUp ==
    /\ loop = "serve"
    /\ loop' = "stop"
    /\ UNCHANGED <<terminalVars, readerVars, chunks, chunksClosed, writerVars, terminalDone,
                   creditVars, browserVars, unparsed, toServer, messages, peerDone, stop, ptyOpen,
                   socketOpen>>

\* The deferred bridge.Stop() ...
Stop ==
    /\ loop = "stop"
    /\ stop' = TRUE /\ loop' = "close"
    /\ UNCHANGED <<terminalVars, readerVars, chunks, chunksClosed, writerVars, terminalDone,
                   creditVars, browserVars, unparsed, toServer, messages, peerDone, ptyOpen, socketOpen>>

\* ... and then those that close the pty and the socket.
CloseAll ==
    /\ loop = "close"
    /\ ptyOpen' = FALSE /\ socketOpen' = FALSE /\ loop' = "gone"
    /\ UNCHANGED <<terminalVars, readerVars, chunks, chunksClosed, writerVars, terminalDone,
                   creditVars, browserVars, unparsed, toServer, messages, peerDone, stop>>

------------------------------------------------------------------------------
Next ==
    \/ Emit \/ Exit
    \/ ReadPTY \/ SendChunk \/ ReaderEnds
    \/ WriterStops \/ TakeChunk \/ AppendChunk \/ BatchTimer \/ ChunksEnd \/ ReportEnd
    \/ Reserve \/ CreditArrives \/ Write \/ WriteFails
    \/ Parse \/ AckTimer \/ Type
    \/ PeerReads \/ PeerStalls \/ PeerFails
    \/ HandleMessage \/ Signal \/ LoopEnds \/ LoopGivesUp \/ Stop \/ CloseAll

Spec == Init /\ [][Next]_vars

\* Goroutines and timers run, writes end one way or the other, and the browser
\* parses what it was sent.  Nobody owes output, input, failures or an end.
Fairness ==
    /\ WF_vars(ReadPTY) /\ WF_vars(SendChunk) /\ WF_vars(ReaderEnds)
    /\ WF_vars(WriterStops) /\ WF_vars(TakeChunk) /\ WF_vars(AppendChunk) /\ WF_vars(BatchTimer)
    /\ WF_vars(ChunksEnd) /\ WF_vars(ReportEnd) /\ WF_vars(Reserve) /\ WF_vars(CreditArrives)
    /\ WF_vars(Write \/ WriteFails)
    /\ WF_vars(Parse) /\ WF_vars(AckTimer)
    /\ WF_vars(PeerReads) /\ WF_vars(HandleMessage) /\ WF_vars(Signal)
    /\ WF_vars(LoopEnds) /\ WF_vars(Stop) /\ WF_vars(CloseAll)

FairSpec == Spec /\ Fairness

------------------------------------------------------------------------------
(* The credit is exactly the bytes handed to the socket whose               *)
(* acknowledgement has not been handled: reserve before write, parsing,     *)
(* bulk and timed acknowledgements and the two message queues lose none     *)
(* and count none twice.  With the bound on the credit this keeps what      *)
(* xterm has not parsed within the limit (websocket_transport.go:105).      *)
CreditIsExact ==
    socketOpen =>
        outstanding = SumOf(unparsed) + unacked + SumOf(toServer) + SumOf(messages)
                        + (IF writer \in {"write", "failed"} THEN pending ELSE 0)

(* reserve waits outside the lock on a wake channel of depth one: the       *)
(* writer never waits for credit that is there without a signal coming.     *)
NoLostCredit == writer = "wait" /\ Affordable => creditWake \/ loop = "signal"

(* Output is never lost, repeated or left behind between the pty and xterm, *)
(* whatever was flushed by size, by timer or at the end.                    *)
NoByteLost ==
    produced = ptyOut + readerHand + SumOf(chunks) + rest + pending + SumOf(unparsed) + shown

(* The terminal is reported as ended only after its last words were sent    *)
(* (the owner then closes the socket), or once the bridge was stopped.      *)
LastWordsFirst == terminalDone = "end" /\ ~stop => produced = SumOf(unparsed) + shown

(* Every byte the terminal prints is shown: batching, credit and the bulk   *)
(* acknowledgements together never stall while the owner serves.            *)
OutputFlows ==
    \A n \in 1 .. MaxOutput : produced >= n ~> (shown >= n \/ loop \notin {"serve", "signal"} \/ stop)

(* A stopped bridge leaves no goroutine behind, wherever each was blocked.  *)
NothingLeaks == stop ~> (reader = "done" /\ writer \in {"gone", "failed"})

(* Credit comes back: when the browser has parsed everything it was sent,   *)
(* the whole window is free again or the owner is on its way out.           *)
CreditReturns == []<>(outstanding = SumOf(unparsed) \/ loop \notin {"serve", "signal"} \/ stop)
==============================================================================
