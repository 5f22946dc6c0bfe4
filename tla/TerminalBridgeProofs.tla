------------------------ MODULE TerminalBridgeProofs ------------------------
(***************************************************************************)
(* What TLAPS proves of the terminal bridge, for every frame size, credit  *)
(* limit and queue capacity: its types, the wake of the credit, and, with  *)
(* what SumOf is of a queue that grows and shrinks, that the bytes and the *)
(* credit add up and that the end is reported after the last words.        *)
(***************************************************************************)
EXTENDS TerminalBridge, SequenceTheorems, WellFoundedInduction, TLAPS

(* A queue of naturals (or of frames) stays one when it is extended or      *)
(* consumed.                                                                *)
LEMMA QueueStep ==
    ASSUME NEW S, NEW q \in Seq(S)
    PROVE  /\ \A x \in S : Append(q, x) \in Seq(S) /\ Len(Append(q, x)) = Len(q) + 1
           /\ q # <<>> => Head(q) \in S /\ Tail(q) \in Seq(S) /\ Len(Tail(q)) = Len(q) - 1
OBVIOUS

(* The constants are naturals, and a frame fits the credit.                 *)
LEMMA Constants ==
    /\ ReadSize \in Nat /\ ReadSize > 0 /\ FrameSize \in Nat /\ FrameSize > 0
    /\ CreditLimit \in Nat /\ ChunkCapacity \in Nat /\ MessageCapacity \in Nat
    /\ MaxOutput \in Nat /\ MaxInput \in Nat
BY TerminalBridgeAssumption

(* flush of a batch that is not empty stops the timer and asks for credit.   *)
LEMMA FlushReserves ==
    ASSUME NEW bytes \in Nat, bytes # 0, NEW back, FlushThen(bytes, back)
    PROVE  writer' = "reserve" /\ then' = back /\ timer' \in BOOLEAN /\ ~timer'
BY Zenon DEF FlushThen

(* The terminal and its pty stay well typed.                                   *)
LEMMA TerminalStep == TypeOK /\ [Next]_vars => TerminalType'
<1> SUFFICES ASSUME TypeOK, [Next]_vars PROVE TerminalType'
  OBVIOUS
<1> USE Constants
<1>1. CASE UNCHANGED vars
  BY <1>1 DEF TypeOK, TerminalType, vars, terminalVars, ownerVars
<1>2. CASE Emit
  BY <1>2 DEF TypeOK, TerminalType, Emit, ownerVars
<1>3. CASE ReadPTY
  BY <1>3 DEF TypeOK, TerminalType, ReadPTY, Least, ReaderType, ownerVars
<1> QED
  BY <1>1, <1>2, <1>3
  DEF TypeOK, TerminalType, Next, Exit, SendChunk, ReaderEnds, WriterStops, TakeChunk, AppendChunk,
           BatchTimer, ChunksEnd, ReportEnd, Reserve, CreditArrives, Write,
           WriteFails, Parse, AckTimer, Type, PeerReads, PeerStalls, PeerFails,
           HandleMessage, Signal, LoopEnds, LoopGivesUp, Stop, CloseAll,
           terminalVars, ownerVars

(* The reader never holds more than it read, nor queues more than fits.        *)
LEMMA ReaderStep == TypeOK /\ [Next]_vars => ReaderType'
<1> SUFFICES ASSUME TypeOK, [Next]_vars PROVE ReaderType'
  OBVIOUS
<1> USE Constants
<1>1. CASE UNCHANGED vars
  BY <1>1 DEF TypeOK, ReaderType, vars, readerVars
<1>2. CASE ReadPTY
  BY <1>2 DEF TypeOK, ReaderType, ReadPTY, Least, TerminalType
<1>3. CASE SendChunk
  <2>1. PICK q \in Seq(1 .. ReadSize) : q = chunks
    BY DEF TypeOK, ReaderType
  <2>2. readerHand \in 1 .. ReadSize
    BY <1>3 DEF TypeOK, ReaderType, SendChunk
  <2>3. Append(q, readerHand) \in Seq(1 .. ReadSize) /\ Len(Append(q, readerHand)) = Len(q) + 1
    BY <2>2, QueueStep
  <2> QED
    BY <1>3, <2>1, <2>2, <2>3 DEF TypeOK, ReaderType, SendChunk
<1>4. CASE TakeChunk
  <2>1. PICK q \in Seq(1 .. ReadSize) : q = chunks
    BY DEF TypeOK, ReaderType
  <2>2. q # <<>>
    BY <1>4, <2>1 DEF TakeChunk
  <2>3. Tail(q) \in Seq(1 .. ReadSize) /\ Len(Tail(q)) = Len(q) - 1
    BY <2>2, QueueStep
  <2> QED
    BY <1>4, <2>1, <2>3 DEF TypeOK, ReaderType, TakeChunk, readerVars
<1> QED
  BY <1>1, <1>2, <1>3, <1>4
  DEF TypeOK, ReaderType, Next, Emit, Exit, ReaderEnds, WriterStops, AppendChunk, BatchTimer,
           ChunksEnd, ReportEnd, Reserve, CreditArrives, Write, WriteFails,
           Parse, AckTimer, Type, PeerReads, PeerStalls, PeerFails,
           HandleMessage, Signal, LoopEnds, LoopGivesUp, Stop, CloseAll,
           readerVars

(* The batch stays short of a frame, and timed exactly while it is not empty.   *)
LEMMA WriterStep == TypeOK /\ [Next]_vars => WriterType'
<1> SUFFICES ASSUME TypeOK, [Next]_vars PROVE WriterType'
  OBVIOUS
<1> USE Constants
<1>1. CASE UNCHANGED vars
  BY <1>1 DEF TypeOK, WriterType, vars, writerVars
<1>2. CASE TakeChunk
  <2>1. PICK q \in Seq(1 .. ReadSize) : q = chunks
    BY DEF TypeOK, ReaderType
  <2>2. Head(q) \in 1 .. ReadSize
    BY <1>2, <2>1, QueueStep DEF TakeChunk
  <2> QED
    BY <1>2, <2>1, <2>2 DEF TypeOK, WriterType, TakeChunk
<1>3. CASE WriterStops
  BY <1>3 DEF TypeOK, WriterType, WriterStops, Listens
<1>4. CASE AppendChunk
  <2> DEFINE space == Least(FrameSize - pending, rest)
             size  == pending + space
  <2>1. /\ pending \in 0 .. FrameSize - 1 /\ rest \in 0 .. ReadSize
        /\ (timer <=> pending > 0) /\ timer \in BOOLEAN
    BY <1>4 DEF TypeOK, WriterType, AppendChunk
  <2>2. /\ space \in 0 .. rest /\ size \in pending .. FrameSize
        /\ rest - space \in 0 .. ReadSize
    BY <2>1 DEF Least
  <2>3. rest' = rest - space /\ pending' = size /\ terminalDone' = terminalDone
    BY <1>4 DEF AppendChunk
  <2>4. \/ size = FrameSize /\ FlushThen(size, "append")
        \/ 0 < size /\ size < FrameSize /\ FlushThen(size, "select")
        \/ size < FrameSize /\ AppendArms(size)
    BY <1>4 DEF AppendChunk
  <2>5. then \in {"select", "append", "end"} /\ terminalDone \in {"none", "end", "failed"}
    BY DEF TypeOK, WriterType
  <2> HIDE DEF space, size
  <2>6. CASE size = FrameSize /\ FlushThen(size, "append")
    BY <2>1, <2>2, <2>3, <2>5, <2>6, FlushReserves DEF WriterType
  <2>7. CASE 0 < size /\ size < FrameSize /\ FlushThen(size, "select")
    BY <2>1, <2>2, <2>3, <2>5, <2>7, FlushReserves DEF WriterType
  <2>8. CASE size < FrameSize /\ AppendArms(size)
    <3>1. writer' = "select" /\ then' = then
      BY <2>8 DEF AppendArms
    <3>2. size \in 0 .. FrameSize /\ (timer => size > 0)
      BY <2>1, <2>2
    <3>3. timer' \in BOOLEAN /\ (timer' <=> size > 0)
      BY <2>1, <2>8, <3>2 DEF AppendArms
    <3> QED
      BY <2>2, <2>3, <2>5, <2>8, <3>1, <3>2, <3>3 DEF WriterType
  <2> QED
    BY <2>4, <2>6, <2>7, <2>8
<1>5. CASE BatchTimer
  BY <1>5 DEF TypeOK, WriterType, BatchTimer
<1>6. CASE ChunksEnd
  <2>1. CASE pending = 0
    BY <1>6, <2>1 DEF TypeOK, WriterType, ChunksEnd, ChunksEndFlushes, FlushThen
  <2>2. CASE pending # 0
    BY <1>6, <2>2 DEF TypeOK, WriterType, ChunksEnd, ChunksEndFlushes, FlushThen
  <2> QED
    BY <2>1, <2>2
<1>7. CASE ReportEnd
  BY <1>7 DEF TypeOK, WriterType, ReportEnd
<1>8. CASE Reserve
  BY <1>8 DEF TypeOK, WriterType, Reserve
<1>9. CASE CreditArrives
  BY <1>9 DEF TypeOK, WriterType, CreditArrives
<1>10. CASE Write
  BY <1>10 DEF TypeOK, WriterType, Write, WriteFrame
<1>11. CASE WriteFails
  BY <1>11 DEF TypeOK, WriterType, WriteFails
<1> QED
  BY <1>1, <1>2, <1>3, <1>4, <1>5, <1>6, <1>7, <1>8, <1>9, <1>10, <1>11
  DEF TypeOK, WriterType, Next, Emit, Exit, ReadPTY, SendChunk, ReaderEnds, Parse, AckTimer, Type,
           PeerReads, PeerStalls, PeerFails, HandleMessage, Signal, LoopEnds,
           LoopGivesUp, Stop, CloseAll, writerVars

(* No more credit is taken than there is, nor returned than was taken.        *)
LEMMA CreditStep == TypeOK /\ [Next]_vars => CreditType'
<1> SUFFICES ASSUME TypeOK, [Next]_vars PROVE CreditType'
  OBVIOUS
<1> USE Constants
<1>1. CASE UNCHANGED vars
  BY <1>1 DEF TypeOK, CreditType, vars, creditVars
<1>2. CASE Reserve
  BY <1>2 DEF TypeOK, CreditType, Reserve, Affordable, WriterType
<1>3. CASE CreditArrives
  BY <1>3 DEF TypeOK, CreditType, CreditArrives
<1>4. CASE HandleMessage
  <2>1. PICK q \in Seq(Nat) : q = messages
    BY DEF TypeOK, OwnerType
  <2>2. Head(q) \in Nat
    BY <1>4, <2>1, QueueStep DEF HandleMessage
  <2> QED
    BY <1>4, <2>1, <2>2 DEF TypeOK, CreditType, HandleMessage, Acknowledged
<1>5. CASE Signal
  BY <1>5 DEF TypeOK, CreditType, Signal, SignalsCredit
<1> QED
  BY <1>1, <1>2, <1>3, <1>4, <1>5
  DEF TypeOK, CreditType, Next, Emit, Exit, ReadPTY, SendChunk, ReaderEnds, WriterStops, TakeChunk,
           AppendChunk, BatchTimer, ChunksEnd, ReportEnd, Write, WriteFails,
           Parse, AckTimer, Type, PeerReads, PeerStalls, PeerFails, LoopEnds,
           LoopGivesUp, Stop, CloseAll, creditVars

(* Frames are never empty nor larger than a frame, and acknowledge what they carry. *)
LEMMA BrowserStep == TypeOK /\ [Next]_vars => BrowserType'
<1> SUFFICES ASSUME TypeOK, [Next]_vars PROVE BrowserType'
  OBVIOUS
<1> USE Constants
<1>1. CASE UNCHANGED vars
  BY <1>1 DEF TypeOK, BrowserType, vars, browserVars, ownerVars
<1>2. CASE Write
  <2>1. PICK q \in Seq(1 .. FrameSize) : q = unparsed
    BY DEF TypeOK, BrowserType
  <2>2. pending \in 1 .. FrameSize
    BY <1>2 DEF TypeOK, WriterType, Write
  <2>3. Append(q, pending) \in Seq(1 .. FrameSize)
    BY <2>2, QueueStep
  <2> QED
    BY <1>2, <2>1, <2>3 DEF TypeOK, BrowserType, Write, WriteFrame, browserVars, ownerVars
<1>3. CASE Parse
  <2>1. PICK q \in Seq(1 .. FrameSize) : q = unparsed
    BY DEF TypeOK, BrowserType
  <2>2. Head(q) \in 1 .. FrameSize /\ Tail(q) \in Seq(1 .. FrameSize)
    BY <1>3, <2>1, QueueStep DEF Parse
  <2>3. PICK t \in Seq(Nat) : t = toServer
    BY DEF TypeOK, BrowserType
  <2>4. unacked + Head(q) \in Nat
    BY <2>2 DEF TypeOK, BrowserType
  <2>5. Append(t, unacked + Head(q)) \in Seq(Nat)
    BY <2>4, QueueStep
  <2>6. toServer' \in Seq(Nat) /\ unacked' \in Nat
    <3>1. Acknowledge(unacked + Head(q))
      BY <1>3, <2>1 DEF Parse
    <3>2. CASE unacked + Head(q) >= AckThreshold /\ socketOpen
      <4>1. toServer' = Append(toServer, unacked + Head(q)) /\ unacked' = 0
        BY Zenon, <3>1, <3>2 DEF Acknowledge
      <4> QED
        BY <2>3, <2>5, <4>1
    <3>3. CASE ~(unacked + Head(q) >= AckThreshold /\ socketOpen)
      BY <2>3, <2>4, <3>1, <3>3 DEF Acknowledge
    <3> QED
      BY <3>2, <3>3
  <2>7. unparsed' \in Seq(1 .. FrameSize) /\ shown' \in Nat
    BY <1>3, <2>1, <2>2 DEF TypeOK, BrowserType, Parse
  <2> QED
    BY <1>3, <2>6, <2>7 DEF TypeOK, BrowserType, Parse, ownerVars
<1>4. CASE AckTimer
  <2>1. PICK q \in Seq(Nat) : q = toServer
    BY DEF TypeOK, BrowserType
  <2>2. Append(q, unacked) \in Seq(Nat)
    BY QueueStep DEF TypeOK, BrowserType
  <2> QED
    BY <1>4, <2>1, <2>2 DEF TypeOK, BrowserType, AckTimer, ownerVars
<1>5. CASE Type
  <2>1. PICK q \in Seq(Nat) : q = toServer
    BY DEF TypeOK, BrowserType
  <2>2. Append(q, 0) \in Seq(Nat)
    BY QueueStep
  <2> QED
    BY <1>5, <2>1, <2>2 DEF TypeOK, BrowserType, Type, ownerVars
<1>6. CASE PeerReads
  <2>1. PICK q \in Seq(Nat) : q = toServer
    BY DEF TypeOK, BrowserType
  <2>2. Tail(q) \in Seq(Nat)
    BY <1>6, <2>1, QueueStep DEF PeerReads
  <2> QED
    BY <1>6, <2>1, <2>2 DEF TypeOK, BrowserType, PeerReads, browserVars, ownerVars
<1>7. CASE CloseAll
  BY <1>7 DEF TypeOK, BrowserType, CloseAll, browserVars
<1> QED
  BY <1>1, <1>2, <1>3, <1>4, <1>5, <1>6, <1>7
  DEF TypeOK, BrowserType, Next, Emit, Exit, ReadPTY, SendChunk, ReaderEnds, WriterStops, TakeChunk,
           AppendChunk, BatchTimer, ChunksEnd, ReportEnd, Reserve,
           CreditArrives, WriteFails, PeerStalls, PeerFails, HandleMessage,
           Signal, LoopEnds, LoopGivesUp, Stop, browserVars, ownerVars

(* The owner never holds more messages than the peer may queue.               *)
LEMMA OwnerStep == TypeOK /\ [Next]_vars => OwnerType'
<1> SUFFICES ASSUME TypeOK, [Next]_vars PROVE OwnerType'
  OBVIOUS
<1> USE Constants
<1>1. CASE UNCHANGED vars
  BY <1>1 DEF TypeOK, OwnerType, vars, ownerVars
<1>2. CASE PeerReads
  <2>1. PICK q \in Seq(Nat) : q = toServer
    BY DEF TypeOK, BrowserType
  <2>2. Head(q) \in Nat
    BY <1>2, <2>1, QueueStep DEF PeerReads
  <2>3. PICK m \in Seq(Nat) : m = messages
    BY DEF TypeOK, OwnerType
  <2>4. Append(m, Head(q)) \in Seq(Nat) /\ Len(Append(m, Head(q))) = Len(m) + 1
    BY <2>2, QueueStep
  <2> QED
    BY <1>2, <2>1, <2>3, <2>4 DEF TypeOK, OwnerType, PeerReads, ownerVars
<1>3. CASE HandleMessage
  <2>1. PICK q \in Seq(Nat) : q = messages
    BY DEF TypeOK, OwnerType
  <2>2. Tail(q) \in Seq(Nat) /\ Len(Tail(q)) = Len(q) - 1
    BY <1>3, <2>1, QueueStep DEF HandleMessage
  <2> QED
    BY <1>3, <2>1, <2>2 DEF TypeOK, OwnerType, HandleMessage
<1>4. CASE PeerStalls
  BY <1>4 DEF TypeOK, OwnerType, PeerStalls, ownerVars
<1>5. CASE PeerFails
  BY <1>5 DEF TypeOK, OwnerType, PeerFails, ownerVars
<1>6. CASE Signal
  BY <1>6 DEF TypeOK, OwnerType, Signal
<1>7. CASE LoopEnds
  BY <1>7 DEF TypeOK, OwnerType, LoopEnds
<1>8. CASE LoopGivesUp
  BY <1>8 DEF TypeOK, OwnerType, LoopGivesUp
<1>9. CASE Stop
  BY <1>9 DEF TypeOK, OwnerType, Stop
<1>10. CASE CloseAll
  BY <1>10 DEF TypeOK, OwnerType, CloseAll
<1> QED
  BY <1>1, <1>2, <1>3, <1>4, <1>5, <1>6, <1>7, <1>8, <1>9, <1>10
  DEF TypeOK, OwnerType, Next, Emit, Exit, ReadPTY, SendChunk, ReaderEnds, WriterStops, TakeChunk,
           AppendChunk, BatchTimer, ChunksEnd, ReportEnd, Reserve,
           CreditArrives, Write, WriteFails, Parse, AckTimer, Type, ownerVars

(* Every variable stays in its type: the batch never outgrows a frame, the   *)
(* credit never exceeds its limit nor goes below zero, and between flushes a *)
(* batch is timed exactly when it holds bytes.                               *)
THEOREM TypeCorrect == Spec => []TypeOK
<1>1. Init => TypeOK
  <2> SUFFICES ASSUME Init PROVE TypeOK
    OBVIOUS
  <2>1. /\ exited \in BOOLEAN /\ ptyOpen \in BOOLEAN /\ chunksClosed \in BOOLEAN
        /\ timer \in BOOLEAN /\ ~timer /\ creditWake \in BOOLEAN /\ socketOpen \in BOOLEAN
        /\ peerDone \in BOOLEAN /\ stop \in BOOLEAN
    BY Zenon DEF Init
  <2>2. <<>> \in Seq(1 .. ReadSize) /\ <<>> \in Seq(1 .. FrameSize) /\ <<>> \in Seq(Nat) /\ Len(<<>>) = 0
    OBVIOUS
  <2>3. /\ produced = 0 /\ ptyOut = 0 /\ reader = "read" /\ readerHand = 0 /\ chunks = <<>>
        /\ writer = "select" /\ rest = 0 /\ pending = 0 /\ then = "select" /\ terminalDone = "none"
        /\ outstanding = 0 /\ unparsed = <<>> /\ shown = 0 /\ unacked = 0 /\ toServer = <<>>
        /\ inputs = 0 /\ messages = <<>> /\ loop = "serve"
    BY Zenon DEF Init
  <2>4. TerminalType
    BY <2>1, <2>2, <2>3, Constants DEF TerminalType
  <2>5. ReaderType
    BY <2>1, <2>2, <2>3, Constants DEF ReaderType
  <2>6. WriterType
    BY <2>1, <2>2, <2>3, Constants DEF WriterType
  <2>7. CreditType
    BY <2>1, <2>2, <2>3, Constants DEF CreditType
  <2>8. BrowserType
    BY <2>1, <2>2, <2>3, Constants DEF BrowserType
  <2>9. OwnerType
    BY <2>1, <2>2, <2>3, Constants DEF OwnerType
  <2> QED
    BY <2>4, <2>5, <2>6, <2>7, <2>8, <2>9 DEF TypeOK
<1>2. TypeOK /\ [Next]_vars => TypeOK'
  BY TerminalStep, ReaderStep, WriterStep, CreditStep, BrowserStep, OwnerStep DEF TypeOK
<1> QED
  BY <1>1, <1>2, PTL DEF Spec

(* The wake of the credit is never lost, although reserve leaves its lock    *)
(* before it waits and acknowledge signals after leaving it: a writer that   *)
(* waits either lacks credit, or has a wake-up pending or about to be sent.  *)
THEOREM CreditIsNeverLost == Spec => []NoLostCredit
<1>1. Init => NoLostCredit
  BY DEF Init, NoLostCredit
<1>2. TypeOK /\ NoLostCredit /\ [Next]_vars => NoLostCredit'
  <2> SUFFICES ASSUME TypeOK, NoLostCredit, [Next]_vars PROVE NoLostCredit'
    OBVIOUS
  <2>1. CASE UNCHANGED vars
    BY <2>1 DEF NoLostCredit, Affordable, vars, creditVars, writerVars, ownerVars
  <2>2. CASE Reserve
    BY <2>2 DEF NoLostCredit, Affordable, Reserve, ownerVars
  <2>3. CASE CreditArrives
    BY <2>3 DEF NoLostCredit, Affordable, CreditArrives, ownerVars
  <2>4. CASE HandleMessage
    BY <2>4 DEF NoLostCredit, Affordable, HandleMessage, writerVars
  <2>5. CASE Signal
    BY <2>5 DEF NoLostCredit, Affordable, Signal, SignalsCredit, writerVars
  <2>6. CASE Stop
    BY <2>6 DEF NoLostCredit, Affordable, Stop, writerVars, creditVars
  <2>7. CASE CloseAll
    BY <2>7 DEF NoLostCredit, Affordable, CloseAll, writerVars, creditVars
  <2>8. CASE LoopEnds
    BY <2>8 DEF NoLostCredit, Affordable, LoopEnds, writerVars, creditVars
  <2>9. CASE LoopGivesUp
    BY <2>9 DEF NoLostCredit, Affordable, LoopGivesUp, writerVars, creditVars
  <2>10. CASE AppendChunk
    BY <2>10 DEF NoLostCredit, Affordable, AppendChunk, FlushThen, AppendArms, creditVars, ownerVars
  <2>11. CASE BatchTimer
    BY <2>11 DEF NoLostCredit, Affordable, BatchTimer, creditVars, ownerVars
  <2>12. CASE TakeChunk
    BY <2>12 DEF NoLostCredit, Affordable, TakeChunk, creditVars, ownerVars
  <2>13. CASE ChunksEnd
    BY <2>13
       DEF NoLostCredit, Affordable, ChunksEnd, ChunksEndFlushes, FlushThen, creditVars,
           ownerVars
  <2>14. CASE Write
    BY <2>14
       DEF NoLostCredit, Affordable, Write, WriteFrame, TypeOK, WriterType, creditVars,
           ownerVars
  <2>15. CASE WriterStops
    BY <2>15 DEF NoLostCredit, Affordable, WriterStops, Listens, creditVars, ownerVars
  <2>16. CASE ReportEnd
    BY <2>16 DEF NoLostCredit, Affordable, ReportEnd, creditVars, ownerVars
  <2>17. CASE WriteFails
    BY <2>17 DEF NoLostCredit, Affordable, WriteFails, creditVars, ownerVars
  <2> QED
    BY <2>1, <2>2, <2>3, <2>4, <2>5, <2>6, <2>7, <2>8, <2>9, <2>10, <2>11,
           <2>12, <2>13, <2>14, <2>15, <2>16, <2>17
    DEF NoLostCredit, Affordable, Next, Emit, Exit, ReadPTY, SendChunk, ReaderEnds, Parse, AckTimer, Type,
           PeerReads, PeerStalls, PeerFails, writerVars, creditVars, ownerVars
<1> QED
  BY <1>1, <1>2, TypeCorrect, PTL DEF Spec

------------------------------------------------------------------------------
(* SumOf: it has prefix sums, they are unique, and extending or consuming a  *)
(* queue adds or takes what it should.                                       *)
(* A set of naturals that is not empty has a least element: what is said by  *)
(* induction below is said by least counterexample.                          *)
LEMMA LeastNumber ==
    ASSUME NEW S \in SUBSET Nat, S # {}
    PROVE  \E n \in S : \A m \in S : n <= m
<1> DEFINE R == OpToRel(<, Nat)
<1>1. IsWellFoundedOn(R, Nat)
  BY NatLessThanWellFounded
<1>2. \A x, y \in Nat : <<y, x>> \in R <=> y < x
  BY DEF OpToRel
<1> HIDE DEF R
<1>3. PICK n \in S : \A m \in S : ~ (<<m, n>> \in R)
  BY <1>1, WFMin
<1>4. \A m \in S : n <= m
  <2> TAKE m \in S
  <2>1. m \in Nat /\ n \in Nat
    OBVIOUS
  <2>2. ~ (m < n)
    BY <1>2, <1>3, <2>1
  <2> QED
    BY <2>1, <2>2
<1> QED
  BY <1>4

(* The prefix sums of a queue of naturals: what SumOf takes the last of.      *)
Sums(f, s) == f = [i \in 0 .. Len(s) |-> IF i = 0 THEN 0 ELSE f[i - 1] + s[i]]

(* They start at zero and grow by each element.                              *)
LEMMA SumsAre ==
    ASSUME NEW s \in Seq(Nat), NEW f, Sums(f, s)
    PROVE  /\ f[0] = 0
           /\ \A i \in 0 .. Len(s) : f[i] \in Nat
           /\ \A i \in 1 .. Len(s) : f[i] = f[i - 1] + s[i]
<1>1. f[0] = 0 /\ \A i \in 1 .. Len(s) : f[i] = f[i - 1] + s[i]
  <2> DEFINE e(i) == IF i = 0 THEN 0 ELSE f[i - 1] + s[i]
  <2>1. f = [i \in 0 .. Len(s) |-> e(i)]
    BY Zenon DEF Sums
  <2>2. \A i \in 0 .. Len(s) : f[i] = e(i)
    <3> HIDE DEF e
    <3> QED BY <2>1
  <2> QED
    BY <2>2
<1>2. \A i \in 0 .. Len(s) : f[i] \in Nat
  <2> DEFINE bad == {i \in 0 .. Len(s) : f[i] \notin Nat}
  <2>1. SUFFICES ASSUME bad # {} PROVE FALSE
    OBVIOUS
  <2>2. PICK n \in bad : \A m \in bad : n <= m
    <3>1. bad \in SUBSET Nat
      OBVIOUS
    <3> HIDE DEF bad
    <3> QED
      BY <2>1, <3>1, LeastNumber
  <2>3. n # 0 /\ n - 1 \notin bad
    BY <1>1, <2>2
  <2> QED
    BY <1>1, <2>3
<1> QED
  BY <1>1, <1>2

(* A queue has one.                                                          *)
LEMMA SumsAreOne ==
    ASSUME NEW s \in Seq(Nat), NEW f, Sums(f, s), NEW g, Sums(g, s)
    PROVE  f = g
<1>1. \A i \in 0 .. Len(s) : f[i] = g[i]
  <2> DEFINE bad == {i \in 0 .. Len(s) : f[i] # g[i]}
  <2>1. SUFFICES ASSUME bad # {} PROVE FALSE
    OBVIOUS
  <2>2. PICK n \in bad : \A m \in bad : n <= m
    <3>1. bad \in SUBSET Nat
      OBVIOUS
    <3> HIDE DEF bad
    <3> QED
      BY <2>1, <3>1, LeastNumber
  <2>3. n # 0 /\ n - 1 \notin bad
    BY <2>2, SumsAre
  <2> QED
    BY <2>3, SumsAre
<1>2. /\ f = [i \in 0 .. Len(s) |-> f[i]]
      /\ g = [i \in 0 .. Len(s) |-> g[i]]
  BY Zenon DEF Sums
<1> QED
  BY <1>1, <1>2

(* Those of a longer queue extend those of the queue ...                     *)
LEMMA SumsAppend ==
    ASSUME NEW s \in Seq(Nat), NEW x \in Nat, NEW f, Sums(f, s)
    PROVE  \E g : Sums(g, Append(s, x)) /\ g[Len(s) + 1] = f[Len(s)] + x
<1> DEFINE g == [i \in 0 .. Len(s) + 1 |-> IF i = Len(s) + 1 THEN f[Len(s)] + x ELSE f[i]]
           t == Append(s, x)
<1>1. t \in Seq(Nat) /\ Len(t) = Len(s) + 1 /\ t[Len(s) + 1] = x /\ \A i \in 1 .. Len(s) : t[i] = s[i]
  OBVIOUS
<1>2. \A i \in 0 .. Len(s) + 1 : g[i] = IF i = 0 THEN 0 ELSE g[i - 1] + t[i]
  <2> HIDE DEF t
  <2>1. f[0] = 0 /\ \A i \in 1 .. Len(s) : f[i] = f[i - 1] + s[i]
    BY SumsAre
  <2> TAKE i \in 0 .. Len(s) + 1
  <2>2. CASE i = 0
    BY <2>1, <2>2
  <2>3. CASE i \in 1 .. Len(s)
    BY <1>1, <2>1, <2>3
  <2>4. CASE i = Len(s) + 1
    BY <1>1, <2>4
  <2> QED
    BY <2>2, <2>3, <2>4
<1>3. g = [i \in 0 .. Len(t) |-> g[i]]
  BY <1>1
<1>4. Sums(g, t)
  <2> HIDE DEF g, t
  <2> QED
    BY <1>1, <1>2, <1>3 DEF Sums
<1>5. g[Len(s) + 1] = f[Len(s)] + x
  OBVIOUS
<1> QED
  BY <1>4, <1>5

(* ... so that every queue has them.                                         *)
LEMMA SumsExist == ASSUME NEW s \in Seq(Nat) PROVE \E f : Sums(f, s)
<1> DEFINE bad == {n \in Nat : \E q \in Seq(Nat) : Len(q) = n /\ ~ \E f : Sums(f, q)}
<1>1. SUFFICES ASSUME bad # {} PROVE FALSE
  OBVIOUS
<1>2. PICK n \in bad : \A m \in bad : n <= m
  BY <1>1, LeastNumber
<1>3. PICK q \in Seq(Nat) : Len(q) = n /\ ~ \E f : Sums(f, q)
  BY <1>2
<1>4. n # 0
  <2> SUFFICES ASSUME n = 0 PROVE FALSE
    OBVIOUS
  <2> DEFINE z == [i \in 0 .. 0 |-> 0]
  <2>1. \A i \in 0 .. 0 : z[i] = IF i = 0 THEN 0 ELSE z[i - 1] + q[i]
    OBVIOUS
  <2>2. z = [i \in 0 .. Len(q) |-> z[i]]
    BY <1>3
  <2>3. Sums(z, q)
    <3> HIDE DEF z
    <3> QED
      BY <1>3, <2>1, <2>2 DEF Sums
  <2> QED
    BY <1>3, <2>3
<1> DEFINE p == SubSeq(q, 1, n - 1)
<1>5. p \in Seq(Nat) /\ Len(p) = n - 1 /\ q[n] \in Nat /\ q = Append(p, q[n])
  BY <1>3, <1>4
<1>6. n - 1 \notin bad /\ n - 1 \in Nat
  BY <1>2, <1>4
<1>7. PICK f : Sums(f, p)
  BY <1>5, <1>6
<1>8. \E g : Sums(g, Append(p, q[n]))
  BY <1>5, <1>7, SumsAppend
<1> QED
  BY <1>3, <1>5, <1>8

(* SumOf is the last of them.                                                *)
LEMMA SumOfIs ==
    ASSUME NEW s \in Seq(Nat), NEW f, Sums(f, s)
    PROVE  SumOf(s) = f[Len(s)]
<1> DEFINE sum == CHOOSE g : g = [i \in 0 .. Len(s) |-> IF i = 0 THEN 0 ELSE g[i - 1] + s[i]]
<1>1. Sums(sum, s)
  BY Zenon DEF Sums
<1>2. sum = f
  BY <1>1, SumsAreOne
<1>3. SumOf(s) = sum[Len(s)]
  BY Zenon DEF SumOf
<1> QED
  BY <1>2, <1>3

(* The sums of a queue that is empty, extended or consumed.                  *)
LEMMA SumOfEmpty == SumOf(<<>>) = 0
<1>1. PICK e \in Seq(Nat) : e = <<>> /\ Len(e) = 0
  <2>1. <<>> \in Seq(Nat) /\ Len(<<>>) = 0
    OBVIOUS
  <2> QED
    BY <2>1
<1>2. PICK f : Sums(f, e)
  BY SumsExist
<1>3. f[0] = 0 /\ SumOf(e) = f[Len(e)]
  BY <1>2, SumsAre, SumOfIs
<1> QED
  BY <1>1, <1>3

LEMMA SumOfNat == ASSUME NEW s \in Seq(Nat) PROVE SumOf(s) \in Nat
<1>1. PICK f : Sums(f, s)
  BY SumsExist
<1> QED
  BY <1>1, SumsAre, SumOfIs

LEMMA SumOfAppend ==
    ASSUME NEW s \in Seq(Nat), NEW x \in Nat
    PROVE  SumOf(Append(s, x)) = SumOf(s) + x
<1>1. PICK f : Sums(f, s)
  BY SumsExist
<1>2. PICK g : Sums(g, Append(s, x)) /\ g[Len(s) + 1] = f[Len(s)] + x
  BY <1>1, SumsAppend
<1>3. Append(s, x) \in Seq(Nat) /\ Len(Append(s, x)) = Len(s) + 1
  OBVIOUS
<1> QED
  BY <1>1, <1>2, <1>3, SumOfIs

LEMMA SumOfTail ==
    ASSUME NEW s \in Seq(Nat), s # <<>>
    PROVE  /\ Head(s) \in Nat /\ Tail(s) \in Seq(Nat)
           /\ SumOf(Tail(s)) \in Nat /\ SumOf(s) = Head(s) + SumOf(Tail(s))
<1> DEFINE t == Tail(s)
<1>1. PICK f : Sums(f, s)
  BY SumsExist
<1>2. /\ f[0] = 0 /\ \A i \in 0 .. Len(s) : f[i] \in Nat
      /\ \A i \in 1 .. Len(s) : f[i] = f[i - 1] + s[i]
  BY <1>1, SumsAre
<1>3. /\ t \in Seq(Nat) /\ Len(t) = Len(s) - 1 /\ Len(s) \in Nat \ {0} /\ Head(s) = s[1]
      /\ \A i \in 1 .. Len(t) : t[i] = s[i + 1]
  OBVIOUS
<1>4. \A i \in 1 .. Len(s) : s[i] \in Nat
  OBVIOUS
<1> DEFINE g == [i \in 0 .. Len(t) |-> f[i + 1] - s[1]]
<1>5. \A i \in 0 .. Len(t) : g[i] = IF i = 0 THEN 0 ELSE g[i - 1] + t[i]
  <2> HIDE DEF t
  <2> TAKE i \in 0 .. Len(t)
  <2>1. CASE i = 0
    BY <1>2, <1>3, <1>4, <2>1
  <2>2. CASE i # 0
    <3>1. i \in 1 .. Len(t) /\ i - 1 \in 0 .. Len(t) /\ i + 1 \in 1 .. Len(s) /\ i \in 1 .. Len(s) /\ 1 \in 1 .. Len(s)
      BY <1>3, <2>2
    <3>2. g[i] = f[i + 1] - s[1] /\ g[i - 1] = f[i] - s[1]
      BY <3>1
    <3>3. f[i + 1] = f[i] + s[i + 1] /\ t[i] = s[i + 1]
      BY <1>2, <1>3, <3>1
    <3>4. f[i] \in Nat /\ s[1] \in Nat /\ s[i + 1] \in Nat
      BY <1>2, <1>4, <3>1
    <3> QED
      BY <2>2, <3>2, <3>3, <3>4
  <2> QED
    BY <2>1, <2>2
<1>6. Sums(g, t)
  <2>1. g = [i \in 0 .. Len(t) |-> g[i]]
    OBVIOUS
  <2> HIDE DEF g, t
  <2> QED
    BY <1>5, <2>1 DEF Sums
<1>7. SumOf(t) = f[Len(s)] - s[1]
  <2>1. g[Len(t)] = f[Len(s)] - s[1]
    BY <1>3
  <2> HIDE DEF g, t
  <2> QED
    BY <1>3, <1>6, <2>1, SumOfIs
<1>8. SumOf(t) \in Nat /\ SumOf(s) = f[Len(s)] /\ s[1] \in Nat /\ f[Len(s)] \in Nat
  <2>1. t \in Seq(Nat) /\ Len(s) \in 0 .. Len(s) /\ 1 \in 1 .. Len(s)
    BY <1>3
  <2>2. SumOf(t) \in Nat
    BY <2>1, SumOfNat
  <2>3. SumOf(s) = f[Len(s)]
    BY <1>1, SumOfIs
  <2> QED
    BY <1>2, <1>4, <2>1, <2>2, <2>3
<1> QED
  BY <1>3, <1>7, <1>8

------------------------------------------------------------------------------
(* The queues of the bridge and their sums.                                  *)
LEMMA Queues ==
    ASSUME TypeOK
    PROVE  /\ chunks \in Seq(Nat) /\ unparsed \in Seq(Nat) /\ toServer \in Seq(Nat) /\ messages \in Seq(Nat)
<1>1. chunks \in Seq(Nat) /\ unparsed \in Seq(Nat)
  <2>1. chunks \in Seq(1 .. ReadSize) /\ unparsed \in Seq(1 .. FrameSize)
    BY DEF TypeOK, ReaderType, BrowserType
  <2>2. \A n \in Nat : \A q \in Seq(1 .. n) : q \in Seq(Nat)
    OBVIOUS
  <2> QED
    BY <2>1, <2>2, Constants
<1>2. toServer \in Seq(Nat) /\ messages \in Seq(Nat)
  BY DEF TypeOK, BrowserType, OwnerType
<1> QED
  BY <1>1, <1>2

(* Their sums.                                                               *)
LEMMA QueueSums ==
    ASSUME TypeOK
    PROVE  SumOf(chunks) \in Nat /\ SumOf(unparsed) \in Nat /\ SumOf(toServer) \in Nat /\ SumOf(messages) \in Nat
BY Queues, SumOfNat

(* The counters are naturals.                                                *)
LEMMA Counters ==
    ASSUME TypeOK
    PROVE  /\ produced \in Nat /\ ptyOut \in Nat /\ readerHand \in Nat /\ rest \in Nat /\ pending \in Nat
           /\ shown \in Nat /\ unacked \in Nat /\ outstanding \in Nat
BY Constants DEF TypeOK, TerminalType, ReaderType, WriterType, CreditType, BrowserType

(* Between a chunk and the next nothing of it is left in a hand: the reader   *)
(* asks for more with an empty one, and the writer's chunk is used up except  *)
(* while appendChunk flushes full frames of it.                               *)
Handed ==
    /\ reader = "read" => readerHand = 0
    /\ writer \in {"select", "end"} => rest = 0
    /\ writer \in {"reserve", "wait", "write"} /\ then # "append" => rest = 0

(* What AppendChunk leaves: a flush in the middle of the chunk is of a full   *)
(* frame.                                                                     *)
LEMMA AppendSplits ==
    ASSUME TypeOK, AppendChunk
    PROVE  /\ rest' + pending' = rest + pending /\ rest' \in Nat /\ pending' \in Nat
           /\ writer = "append" /\ writer' \in {"reserve", "select"}
           /\ writer' = "select" => rest' = 0
           /\ writer' = "reserve" /\ then' # "append" => rest' = 0 /\ then' = "select"
<1> USE Constants
<1> DEFINE space == Least(FrameSize - pending, rest)
           size  == pending + space
<1>1. pending \in 0 .. FrameSize - 1 /\ rest \in 0 .. ReadSize
  BY DEF TypeOK, WriterType, AppendChunk
<1>2. /\ space \in 0 .. rest /\ size \in pending .. FrameSize
      /\ size < FrameSize => space = rest
  BY <1>1 DEF Least
<1>3. rest' = rest - space /\ pending' = size /\ writer = "append"
  BY DEF AppendChunk
<1>4. \/ size = FrameSize /\ FlushThen(size, "append")
      \/ 0 < size /\ size < FrameSize /\ FlushThen(size, "select")
      \/ size < FrameSize /\ AppendArms(size)
  BY DEF AppendChunk
<1>8. /\ rest' + pending' = rest + pending /\ rest' \in Nat /\ pending' \in Nat
      /\ size < FrameSize => rest' = 0
  BY <1>1, <1>2, <1>3
<1> HIDE DEF space, size
<1>5. CASE size = FrameSize /\ FlushThen(size, "append")
  <2>1. writer' = "reserve" /\ then' = "append"
    BY <1>1, <1>2, <1>5, FlushReserves
  <2> QED
    BY <1>3, <1>8, <2>1
<1>6. CASE 0 < size /\ size < FrameSize /\ FlushThen(size, "select")
  <2>1. writer' = "reserve" /\ then' = "select"
    BY <1>1, <1>2, <1>6, FlushReserves
  <2> QED
    BY <1>3, <1>6, <1>8, <2>1
<1>7. CASE size < FrameSize /\ AppendArms(size)
  <2>1. writer' = "select"
    BY <1>7 DEF AppendArms
  <2> QED
    BY <1>3, <1>7, <1>8, <2>1
<1> QED
  BY <1>4, <1>5, <1>6, <1>7

(* Nothing stays in a hand that should be empty.                             *)
LEMMA HandedStep == TypeOK /\ Handed /\ [Next]_vars => Handed'
<1> SUFFICES ASSUME TypeOK, Handed, [Next]_vars PROVE Handed'
  OBVIOUS
<1>1. CASE ReadPTY
  BY <1>1 DEF Handed, ReadPTY, writerVars
<1>2. CASE TakeChunk
  BY <1>2 DEF Handed, TakeChunk, readerVars
<1>3. CASE AppendChunk
  <2>1. UNCHANGED readerVars
    BY <1>3 DEF AppendChunk
  <2> QED
    BY <1>3, <2>1, AppendSplits DEF Handed, readerVars
<1>4. CASE ChunksEnd
  BY <1>4 DEF Handed, ChunksEnd, ChunksEndFlushes, FlushThen, readerVars
<1>5. CASE Write
  BY <1>5 DEF Handed, Write, readerVars, TypeOK, WriterType
<1>6. CASE UNCHANGED vars
  BY <1>6 DEF Handed, vars, terminalVars, readerVars, writerVars, creditVars, browserVars, ownerVars
<1> QED
  BY <1>1, <1>2, <1>3, <1>4, <1>5, <1>6
  DEF Handed, Next, Emit, Exit, SendChunk, ReaderEnds, WriterStops,
      BatchTimer, ReportEnd, Reserve, CreditArrives, WriteFails, Parse, AckTimer, Type,
      PeerReads, PeerStalls, PeerFails, HandleMessage, Signal, LoopEnds, LoopGivesUp, Stop,
      CloseAll, terminalVars, readerVars, writerVars, creditVars, browserVars, ownerVars

(* A step of the output moves bytes, and loses none.                         *)
LEMMA BytesStep == TypeOK /\ Handed /\ NoByteLost /\ [Next]_vars => NoByteLost'
<1> SUFFICES ASSUME TypeOK, Handed, NoByteLost, [Next]_vars PROVE NoByteLost'
  OBVIOUS
<1>1. CASE Emit
  BY <1>1, QueueSums, Counters DEF NoByteLost, Emit, readerVars, writerVars, browserVars
<1>2. CASE ReadPTY
  <2>1. readerHand = 0
    BY <1>2 DEF Handed, ReadPTY
  <2>2. PICK count \in 1 .. Least(ReadSize, ptyOut) : readerHand' = count /\ ptyOut' = ptyOut - count
    BY <1>2 DEF ReadPTY
  <2>3. count \in Nat
    BY Constants, Counters DEF Least
  <2>4. produced' = produced
    BY <1>2 DEF ReadPTY
  <2>5. UNCHANGED <<chunks, rest, pending, unparsed, shown>>
    BY <1>2 DEF ReadPTY, writerVars, browserVars
  <2> QED
    BY <2>1, <2>2, <2>3, <2>4, <2>5, QueueSums, Counters DEF NoByteLost
<1>3. CASE SendChunk
  <2>1. SumOf(chunks') = SumOf(chunks) + readerHand
    BY <1>3, Queues, Counters, SumOfAppend DEF SendChunk
  <2> QED
    BY <1>3, <2>1, QueueSums, Counters
       DEF NoByteLost, SendChunk, terminalVars, writerVars, browserVars
<1>4. CASE TakeChunk
  <2>1. Head(chunks) \in Nat /\ SumOf(Tail(chunks)) \in Nat /\ SumOf(chunks) = Head(chunks) + SumOf(Tail(chunks))
    BY <1>4, Queues, SumOfTail DEF TakeChunk
  <2>2. rest = 0
    BY <1>4 DEF Handed, TakeChunk
  <2> QED
    BY <1>4, <2>1, <2>2, QueueSums, Counters
       DEF NoByteLost, TakeChunk, terminalVars, readerVars, browserVars
<1>5. CASE AppendChunk
  <2>1. UNCHANGED <<produced, ptyOut, readerHand, chunks, unparsed, shown>>
    BY <1>5 DEF AppendChunk, terminalVars, readerVars, browserVars
  <2> QED
    BY <1>5, <2>1, AppendSplits, QueueSums, Counters DEF NoByteLost
<1>6. CASE ChunksEnd
  BY <1>6 DEF NoByteLost, ChunksEnd, terminalVars, readerVars, browserVars
<1>7. CASE Write
  <2>1. SumOf(unparsed') = SumOf(unparsed) + pending
    BY <1>7, Queues, Counters, SumOfAppend DEF Write, WriteFrame
  <2> QED
    BY <1>7, <2>1, QueueSums, Counters
       DEF NoByteLost, Write, WriteFrame, terminalVars, readerVars, browserVars
<1>8. CASE Parse
  <2>1. PICK n, q : /\ n = Head(unparsed) /\ q = Tail(unparsed)
                    /\ n \in Nat /\ SumOf(q) \in Nat /\ SumOf(unparsed) = n + SumOf(q)
    <3>1. /\ Head(unparsed) \in Nat /\ SumOf(Tail(unparsed)) \in Nat
          /\ SumOf(unparsed) = Head(unparsed) + SumOf(Tail(unparsed))
      BY <1>8, Queues, SumOfTail DEF Parse
    <3> QED
      BY Zenon, <3>1
  <2>2. n \in Nat /\ SumOf(q) \in Nat /\ SumOf(unparsed) = n + SumOf(q)
    BY <2>1
  <2>3. unparsed' = q /\ shown' = shown + n
    BY <1>8, <2>1 DEF Parse
  <2>4. UNCHANGED <<produced, ptyOut, readerHand, chunks, rest, pending>>
    BY <1>8 DEF Parse, terminalVars, readerVars, writerVars
  <2> QED
    BY <2>2, <2>3, <2>4, QueueSums, Counters DEF NoByteLost
<1>9. CASE UNCHANGED vars
  BY <1>9
     DEF NoByteLost, vars, terminalVars, readerVars, writerVars, creditVars, browserVars,
         ownerVars
<1> QED
  BY <1>1, <1>2, <1>3, <1>4, <1>5, <1>6, <1>7, <1>8, <1>9
  DEF NoByteLost, Next, Exit, ReaderEnds, WriterStops, BatchTimer, ReportEnd, Reserve,
      CreditArrives, WriteFails, AckTimer, Type, PeerReads, PeerStalls, PeerFails,
      HandleMessage, Signal, LoopEnds, LoopGivesUp, Stop, CloseAll,
      terminalVars, readerVars, writerVars, creditVars, browserVars, ownerVars

(* Output is never lost, repeated or left behind between the pty and xterm:   *)
(* what the terminal printed is what each hop holds and what was parsed.      *)
THEOREM OutputIsConserved == Spec => []NoByteLost
<1>1. Init => Handed /\ NoByteLost
  BY SumOfEmpty DEF Init, Handed, NoByteLost
<1> QED
  BY <1>1, HandedStep, BytesStep, TypeCorrect, PTL DEF Spec

(* The credit moves with the bytes it stands for: reserved before they are    *)
(* written, acknowledged after they are parsed, returned when handled.        *)
LEMMA CreditExactStep == TypeOK /\ CreditIsExact /\ [Next]_vars => CreditIsExact'
<1> SUFFICES ASSUME TypeOK, CreditIsExact, [Next]_vars PROVE CreditIsExact'
  OBVIOUS
<1>1. CASE AppendChunk
  <2>1. UNCHANGED <<outstanding, unparsed, unacked, toServer, messages, socketOpen>>
    BY <1>1 DEF AppendChunk, creditVars, browserVars, ownerVars
  <2> QED
    BY <2>1, <1>1, AppendSplits DEF CreditIsExact
<1>2. CASE ChunksEnd
  <2>1. UNCHANGED <<outstanding, unparsed, unacked, toServer, messages, socketOpen, pending>>
    BY <1>2 DEF ChunksEnd, creditVars, browserVars, ownerVars
  <2>2. writer = "select" /\ writer' \in {"end", "reserve"}
    BY <1>2 DEF ChunksEnd, ChunksEndFlushes, FlushThen
  <2> QED
    BY <2>1, <2>2 DEF CreditIsExact
<1>3. CASE Reserve
  BY <1>3, QueueSums, Counters DEF CreditIsExact, Reserve, browserVars, ownerVars
<1>4. CASE Write
  <2>1. SumOf(unparsed') = SumOf(unparsed) + pending
    BY <1>4, Queues, Counters, SumOfAppend DEF Write, WriteFrame
  <2>2. writer' \in {"select", "append", "end"}
    BY <1>4 DEF Write, TypeOK, WriterType
  <2> QED
    BY <1>4, <2>1, <2>2, QueueSums, Counters
       DEF CreditIsExact, Write, WriteFrame, creditVars, browserVars, ownerVars
<1>5. CASE Parse
  <2>1. PICK n, q : /\ n = Head(unparsed) /\ q = Tail(unparsed)
                    /\ n \in Nat /\ SumOf(q) \in Nat /\ SumOf(unparsed) = n + SumOf(q)
    <3>1. /\ Head(unparsed) \in Nat /\ SumOf(Tail(unparsed)) \in Nat
          /\ SumOf(unparsed) = Head(unparsed) + SumOf(Tail(unparsed))
      BY <1>5, Queues, SumOfTail DEF Parse
    <3> QED
      BY Zenon, <3>1
  <2>2. n \in Nat /\ SumOf(q) \in Nat /\ SumOf(unparsed) = n + SumOf(q)
    BY <2>1
  <2>3. PICK bytes \in Nat : bytes = unacked + n
    BY <2>2, Counters
  <2>4. SumOf(Append(toServer, bytes)) = SumOf(toServer) + bytes
    BY Queues, SumOfAppend
  <2>5. unparsed' = q /\ Acknowledge(bytes)
    BY <1>5, <2>1, <2>3 DEF Parse
  <2>6. SumOf(toServer') + unacked' = SumOf(toServer) + bytes
    <3>1. CASE bytes >= AckThreshold /\ socketOpen
      <4>1. toServer' = Append(toServer, bytes) /\ unacked' = 0
        BY Zenon, <2>5, <3>1 DEF Acknowledge
      <4> QED
        BY <2>4, <4>1, QueueSums
    <3>2. CASE ~(bytes >= AckThreshold /\ socketOpen)
      <4>1. toServer' = toServer /\ unacked' = bytes
        BY Zenon, <2>5, <3>2 DEF Acknowledge
      <4> QED
        BY <4>1
    <3> QED
      BY <3>1, <3>2
  <2>7. UNCHANGED <<outstanding, writer, pending, messages, socketOpen>>
    BY <1>5 DEF Parse, writerVars, creditVars, ownerVars
  <2>8. SumOf(toServer') \in Nat /\ unacked' \in Nat
    BY BrowserStep, SumOfNat DEF BrowserType
  <2> QED
    BY <2>2, <2>3, <2>5, <2>6, <2>7, <2>8, QueueSums, Counters DEF CreditIsExact
<1>6. CASE AckTimer
  <2>1. SumOf(toServer') = SumOf(toServer) + unacked
    BY <1>6, Queues, Counters, SumOfAppend DEF AckTimer
  <2> QED
    BY <1>6, <2>1, QueueSums, Counters
       DEF CreditIsExact, AckTimer, writerVars, creditVars, ownerVars
<1>7. CASE Type
  <2>1. SumOf(toServer') = SumOf(toServer) + 0
    BY <1>7, Queues, SumOfAppend DEF Type
  <2> QED
    BY <1>7, <2>1, QueueSums, Counters DEF CreditIsExact, Type, writerVars, creditVars, ownerVars
<1>8. CASE PeerReads
  <2>1. PICK n, q : /\ n = Head(toServer) /\ q = Tail(toServer)
                    /\ n \in Nat /\ SumOf(q) \in Nat /\ SumOf(toServer) = n + SumOf(q)
    <3>1. /\ Head(toServer) \in Nat /\ SumOf(Tail(toServer)) \in Nat
          /\ SumOf(toServer) = Head(toServer) + SumOf(Tail(toServer))
      BY <1>8, Queues, SumOfTail DEF PeerReads
    <3> QED
      BY Zenon, <3>1
  <2>2. n \in Nat /\ SumOf(q) \in Nat /\ SumOf(toServer) = n + SumOf(q)
    BY <2>1
  <2>3. toServer' = q /\ SumOf(messages') = SumOf(messages) + n
    BY <1>8, <2>1, <2>2, Queues, SumOfAppend DEF PeerReads
  <2>4. UNCHANGED <<outstanding, writer, pending, unparsed, unacked, socketOpen>>
    BY <1>8 DEF PeerReads, writerVars, creditVars, browserVars, ownerVars
  <2> QED
    BY <2>2, <2>3, <2>4, QueueSums, Counters DEF CreditIsExact
<1>9. CASE HandleMessage
  <2> SUFFICES ASSUME socketOpen PROVE CreditIsExact'
    BY <1>9 DEF CreditIsExact, HandleMessage
  <2>1. PICK n, q : /\ n = Head(messages) /\ q = Tail(messages)
                    /\ n \in Nat /\ SumOf(q) \in Nat /\ SumOf(messages) = n + SumOf(q)
    <3>1. /\ Head(messages) \in Nat /\ SumOf(Tail(messages)) \in Nat
          /\ SumOf(messages) = Head(messages) + SumOf(Tail(messages))
      BY <1>9, Queues, SumOfTail DEF HandleMessage
    <3> QED
      BY Zenon, <3>1
  <2>2. n \in Nat /\ SumOf(q) \in Nat /\ SumOf(messages) = n + SumOf(q)
    BY <2>1
  <2>3. UNCHANGED <<unparsed, unacked, toServer, writer, pending>> /\ messages' = q
    BY <1>9, <2>1 DEF HandleMessage, browserVars, writerVars
  <2>4. outstanding >= n
    BY <2>2, QueueSums, Counters DEF CreditIsExact
  <2>5. outstanding' = outstanding - n
    BY <1>9, <2>1, <2>2, <2>4, Counters DEF HandleMessage, Acknowledged
  <2> QED
    BY <2>2, <2>3, <2>5, QueueSums, Counters DEF CreditIsExact
<1>10. CASE CloseAll
  BY <1>10 DEF CreditIsExact, CloseAll
<1>11. CASE UNCHANGED vars
  BY <1>11
     DEF CreditIsExact, vars, terminalVars, readerVars, writerVars, creditVars,
         browserVars, ownerVars
<1>12. CASE WriterStops
  BY <1>12 DEF CreditIsExact, WriterStops, Listens, creditVars, browserVars, ownerVars
<1>13. CASE TakeChunk
  BY <1>13 DEF CreditIsExact, TakeChunk, creditVars, browserVars, ownerVars
<1>14. CASE BatchTimer
  BY <1>14 DEF CreditIsExact, BatchTimer, creditVars, browserVars, ownerVars
<1>15. CASE ReportEnd
  BY <1>15 DEF CreditIsExact, ReportEnd, creditVars, browserVars, ownerVars
<1>16. CASE CreditArrives
  BY <1>16 DEF CreditIsExact, CreditArrives, creditVars, browserVars, ownerVars
<1>17. CASE WriteFails
  BY <1>17 DEF CreditIsExact, WriteFails, creditVars, browserVars, ownerVars
<1> QED
  BY <1>1, <1>2, <1>3, <1>4, <1>5, <1>6, <1>7, <1>8, <1>9, <1>10, <1>11, <1>12, <1>13,
     <1>14, <1>15, <1>16, <1>17
  DEF CreditIsExact, Next, Emit, Exit, ReadPTY, SendChunk, ReaderEnds, PeerStalls, PeerFails,
      Signal, LoopEnds, LoopGivesUp, Stop, writerVars, creditVars, browserVars, ownerVars

(* The credit is exactly the bytes handed to the socket whose acknowledgement *)
(* was not handled yet: none is counted twice and none is forgotten on the    *)
(* way through the browser, the peer's queue and the owner's loop.            *)
THEOREM CreditCountsTheUnacknowledged == Spec => []CreditIsExact
<1>1. Init => CreditIsExact
  BY SumOfEmpty DEF Init, CreditIsExact
<1> QED
  BY <1>1, CreditExactStep, TypeCorrect, PTL DEF Spec

(* What xterm was sent and has not parsed, or has not acknowledged, never     *)
(* exceeds the credit: a browser that parses slowly is never sent more than   *)
(* terminalOutputCreditBytes ahead.                                           *)
THEOREM BrowserIsNeverFlooded ==
    Spec => [](socketOpen => SumOf(unparsed) + unacked <= CreditLimit)
<1>1. TypeOK /\ CreditIsExact => (socketOpen => SumOf(unparsed) + unacked <= CreditLimit)
  <2> SUFFICES ASSUME TypeOK, CreditIsExact, socketOpen PROVE SumOf(unparsed) + unacked <= CreditLimit
    OBVIOUS
  <2>1. outstanding \in 0 .. CreditLimit /\ CreditLimit \in Nat
    BY Constants DEF TypeOK, CreditType
  <2> QED
    BY <2>1, QueueSums, Counters DEF CreditIsExact
<1> QED
  BY <1>1, TypeCorrect, CreditCountsTheUnacknowledged, PTL

(* The end of the output: until the bridge is stopped only a drained and       *)
(* exited terminal closes the chunks, and the writer that has seen them closed *)
(* has sent everything when it reports the end.                                *)
Ending ==
    /\ ~stop => ptyOpen /\ loop \notin {"close", "gone"}
    /\ chunksClosed => reader = "done"
    /\ chunksClosed /\ ~stop => exited /\ ptyOut = 0 /\ readerHand = 0
    /\ writer \in {"reserve", "wait", "write"} /\ then = "end" => chunksClosed /\ chunks = <<>>
    /\ writer = "end" \/ terminalDone = "end" => chunksClosed /\ chunks = <<>> /\ rest = 0 /\ pending = 0
    /\ terminalDone = "end" => writer = "gone"

(* The end is not reported before it.                                        *)
LEMMA EndingStep == TypeOK /\ Handed /\ Ending /\ [Next]_vars => Ending'
<1> SUFFICES ASSUME TypeOK, Handed, Ending, [Next]_vars PROVE Ending'
  OBVIOUS
<1>1. CASE Emit
  BY <1>1, Counters DEF Ending, Emit, readerVars, writerVars, ownerVars
<1>2. CASE Exit
  BY <1>2 DEF Ending, Exit, terminalVars, readerVars, writerVars, creditVars, browserVars, ownerVars
<1>3. CASE ReadPTY
  BY <1>3
     DEF Ending, ReadPTY, terminalVars, readerVars, writerVars, creditVars, browserVars,
         ownerVars
<1>4. CASE SendChunk
  BY <1>4
     DEF Ending, SendChunk, terminalVars, readerVars, writerVars, creditVars, browserVars,
         ownerVars
<1>5. CASE ReaderEnds
  <2>1. CASE reader = "read"
    BY <1>5, <2>1
       DEF Ending, Handed, ReaderEnds, terminalVars, readerVars, writerVars, creditVars,
           browserVars, ownerVars
  <2>2. CASE reader = "send" /\ stop
    BY <1>5, <2>2
       DEF Ending, ReaderEnds, terminalVars, readerVars, writerVars, creditVars,
           browserVars, ownerVars
  <2> QED
    BY <1>5, <2>1, <2>2 DEF ReaderEnds
<1>6. CASE WriterStops
  BY <1>6
     DEF Ending, WriterStops, Listens, terminalVars, readerVars, writerVars, creditVars,
         browserVars, ownerVars
<1>7. CASE TakeChunk
  BY <1>7
     DEF Ending, TakeChunk, terminalVars, readerVars, writerVars, creditVars, browserVars,
         ownerVars
<1>8. CASE AppendChunk
  <2>1. UNCHANGED <<stop, ptyOpen, loop, chunksClosed, reader, exited, ptyOut, readerHand, chunks, terminalDone>>
    BY <1>8 DEF AppendChunk, terminalVars, readerVars, ownerVars
  <2> QED
    BY <1>8, <2>1, AppendSplits DEF Ending
<1>9. CASE BatchTimer
  BY <1>9
     DEF Ending, BatchTimer, terminalVars, readerVars, writerVars, creditVars, browserVars,
         ownerVars
<1>10. CASE ChunksEnd
  <2>1. rest = 0
    BY <1>10 DEF Handed, ChunksEnd
  <2> QED
    BY <1>10, <2>1
       DEF Ending, ChunksEnd, ChunksEndFlushes, FlushThen, terminalVars, readerVars,
           writerVars, creditVars, browserVars, ownerVars
<1>11. CASE ReportEnd
  BY <1>11
     DEF Ending, ReportEnd, terminalVars, readerVars, writerVars, creditVars, browserVars,
         ownerVars
<1>12. CASE Reserve
  BY <1>12
     DEF Ending, Reserve, terminalVars, readerVars, writerVars, creditVars, browserVars,
         ownerVars
<1>13. CASE CreditArrives
  BY <1>13
     DEF Ending, CreditArrives, terminalVars, readerVars, writerVars, creditVars,
         browserVars, ownerVars
<1>14. CASE Write
  <2>1. then = "end" => rest = 0
    BY <1>14 DEF Handed, Write
  <2> QED
    BY <1>14, <2>1
       DEF Ending, Write, WriteFrame, TypeOK, WriterType, terminalVars, readerVars,
           writerVars, creditVars, browserVars, ownerVars
<1>15. CASE WriteFails
  BY <1>15
     DEF Ending, WriteFails, terminalVars, readerVars, writerVars, creditVars, browserVars,
         ownerVars
<1>16. CASE Stop
  BY <1>16
     DEF Ending, Stop, terminalVars, readerVars, writerVars, creditVars, browserVars,
         ownerVars
<1>17. CASE CloseAll
  BY <1>17
     DEF Ending, CloseAll, terminalVars, readerVars, writerVars, creditVars, browserVars,
         ownerVars
<1>18. CASE UNCHANGED vars
  BY <1>18
     DEF Ending, vars, terminalVars, readerVars, writerVars, creditVars, browserVars,
         ownerVars
<1> QED
  BY <1>1, <1>2, <1>3, <1>4, <1>5, <1>6, <1>7, <1>8, <1>9, <1>10, <1>11, <1>12, <1>13,
     <1>14, <1>15, <1>16, <1>17, <1>18
  DEF Ending, Next, Parse, AckTimer, Type, PeerReads, PeerStalls, PeerFails, HandleMessage,
      Signal, LoopEnds, LoopGivesUp,
      terminalVars, readerVars, writerVars, creditVars, browserVars, ownerVars

(* The terminal is reported as ended only after its last words were sent: the *)
(* owner, which closes the socket on that report, cuts nothing off.           *)
THEOREM LastWordsAreSent == Spec => []LastWordsFirst
<1>1. Init => Handed /\ NoByteLost /\ Ending
  BY SumOfEmpty DEF Init, Handed, NoByteLost, Ending
<1>2. TypeOK /\ NoByteLost /\ Ending => LastWordsFirst
  BY SumOfEmpty, QueueSums, Counters DEF NoByteLost, Ending, LastWordsFirst
<1> QED
  BY <1>1, <1>2, HandedStep, BytesStep, EndingStep, TypeCorrect, PTL DEF Spec
==============================================================================
