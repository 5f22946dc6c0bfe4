-------------------------- MODULE StateSocketProofs --------------------------
(***************************************************************************)
(* Proofs about StateSocket: the inductive invariant Safe of one state     *)
(* connection and the safety properties that follow from it; then Story,   *)
(* the way of every snapshot and every verdict from its handler to the     *)
(* wire, and with it the refinement of StateProtocol; and News, that the   *)
(* last word of every handler is on that way.  All of it for every number  *)
(* of ids and every limit.                                                 *)
(***************************************************************************)
EXTENDS StateSocket, FiniteSetTheorems, TLAPS

(* An id that has not been registered yet has no handler, no verdict.       *)
Fresh ==
    \A i \in Ids :
        (i > lastID \/ (reader = "register" /\ i = subject))
            => handler[i] = "none" /\ ~unsubscribed[i]

(* The reader works on the id of its message, newest when it registers.     *)
Reading ==
    /\ reader = "register" => subject \in Ids /\ subject = lastID
    /\ reader = "token" => subject \in Ids

(* A snapshot or terminal frame refers to a channel, and a terminal frame   *)
(* only exists once its handler is done.                                    *)
Refers(f, handlers) ==
    /\ f.kind \in ChannelEnds \cup {"snap"} => f.id \in Ids
    /\ f.kind \in ChannelEnds => handlers[f.id] = "done"
Ends ==
    /\ \A n \in 1 .. Len(queue) : Refers(queue[n], handler)
    /\ Refers(hand, handler)
    /\ writer = "snap" => hand.kind = "snap"
    /\ writer \in {"check", "forget"} => hand.kind \in ChannelEnds

(* Until a handler has reported its end its channel is listed, or given up. *)
Listed == \A i \in Ids : handler[i] \notin {"none", "done"} => i \in channels \/ unsubscribed[i]

(* shutdown cancels before it drains.                                       *)
CancelledFirst == server \in {"drain", "close", "join", "finished"} => ctxDone

(* Between the check of the limit and the registration nobody else adds.    *)
Room ==
    /\ IsFiniteSet(channels)
    /\ reader = "register" => Cardinality(channels) < ChannelLimit

Safe ==
    /\ TypeOK /\ Fresh /\ Reading /\ Ends /\ Listed /\ CancelledFirst
    /\ Room /\ Bounded /\ WriterNeverStranded /\ StaysDrained

------------------------------------------------------------------------------
USE DEF vars, connectionVars, channelVars, handlerVars, clientVars, writerVars, wireVars

(* The kinds of frames the actions queue are kinds. *)
LEMMA KindFacts ==
    /\ ChannelEnds \subseteq Kinds /\ "subend" \in ChannelEnds /\ "suberr" \in ChannelEnds
    /\ "snap" \in Kinds /\ "refused" \in Kinds /\ "reused" \in Kinds
    /\ "pong" \in Kinds /\ "close" \in Kinds
    BY DEF Kinds, ChannelEnds

(* queueFrame keeps the queue a sequence of frames. *)
LEMMA QueueType ==
    ASSUME ConnectionType, NEW k \in Kinds, NEW i \in Ids \cup {0}, Queue(Frame(k, i))
    PROVE  queue' \in Seq([kind : Kinds, id : Ids \cup {0}]) /\ wake' \in BOOLEAN
<1>1. Frame(k, i) \in [kind : Kinds, id : Ids \cup {0}]
    BY DEF Frame
<1> QED
    BY <1>1 DEF Queue, ConnectionType

(* Ids are positive naturals; 0 stands for no id. *)
LEMMA NumberFacts == Ids \subseteq Nat /\ 0 \notin Ids
    BY StateSocketAssumption DEF StateSocketAssumption

(* The parts of TypeOK, one lemma each: an action that leaves the variables of
   a part alone keeps it, the others have a step. *)
LEMMA ConnectionTypeNext ==
    ASSUME ConnectionType, ReaderType, [Next]_vars
    PROVE  ConnectionType'
<1>1. CASE UNCHANGED <<lastID, queue, wake, ctxDone, socketOpen>>
    BY <1>1 DEF ConnectionType
<1>2. ASSUME NEW i \in Ids, NEW decodes \in BOOLEAN, ReadSub(i, decodes)  PROVE ConnectionType'
    BY <1>2 DEF ReadSub, Receives, ConnectionType
<1>3. CASE Refuse
    BY <1>3, KindFacts, QueueType DEF Refuse, CanQueue, ConnectionType, ReaderType
<1>4. CASE ReadPing
    BY <1>4, KindFacts, QueueType DEF ReadPing, Receives, CanQueue, ConnectionType
<1>5. ASSUME NEW i \in Ids, Push(i)  PROVE ConnectionType'
    BY <1>5, KindFacts, QueueType DEF Push, Rejects, Skips, NoRoom, SnapshotQueued,
       SamePayload, ConnectionType
<1>6. ASSUME NEW i \in Ids, Report(i)  PROVE ConnectionType'
    BY <1>6, KindFacts, QueueType DEF Report, HandlerStep, CanQueue, EndKind, ConnectionType
<1>7. CASE NextOutbound
    BY <1>7 DEF NextOutbound, NoFrame, ConnectionType
<1>8. CASE Write
    BY <1>8 DEF Write, NoFrame, ConnectionType
<1>9. CASE WriteFails
    BY <1>9 DEF WriteFails, NoFrame, ConnectionType
<1>10. CASE WriterWakes
    BY <1>10 DEF WriterWakes, WriterStep, ConnectionType
<1>11. CASE NoticeProtocolError
    BY <1>11, KindFacts, QueueType DEF NoticeProtocolError, CanQueue, ConnectionType
<1>12. CASE Cancel
    BY <1>12 DEF Cancel, ServerStep, ConnectionType
<1>13. CASE Drain
    BY <1>13 DEF Drain, ServerStep, DrainAll, ConnectionType
<1>14. CASE CloseSocket
    BY <1>14 DEF CloseSocket, ServerStep, ConnectionType
<1> QED
    BY <1>1, <1>2, <1>3, <1>4, <1>5, <1>6, <1>7, <1>8, <1>9, <1>10, <1>11, <1>12, <1>13,
       <1>14 DEF Next, ReaderNext, HandlerNext, WriterNext, ServerNext,
       ReadUnsub, ReadResnap, Register, ResnapToken, ReadInvalid, ReadError, Open, Fail,
          Read, Update, Tick, Resnap, StopWaiting, Finish, Drop, TakeSnapshot, Check,
          Forget, WriterStops, NoticeEnd, CloseWaited, Join, Change, HandlerStep,
          ServerStep, WriterStep, CheckUnsubscribed, Forgotten

(* The head of a sequence is one of its elements. *)
LEMMA HeadType ==
    ASSUME NEW S, NEW q \in Seq(S), q # <<>>
    PROVE  Head(q) \in S
    OBVIOUS

(* What subscribe knows between its two critical sections. *)
LEMMA ReadyToRegister ==
    ASSUME Reading, Fresh, reader = "register"
    PROVE  /\ subject \in Ids /\ subject = lastID /\ subject <= lastID
           /\ ~(subject > lastID) /\ ~unsubscribed[subject] /\ handler[subject] = "none"
<1>1. subject \in Ids /\ subject = lastID
    BY DEF Reading
<1>2. subject \in Nat
    BY <1>1, NumberFacts
<1>3. ~unsubscribed[subject] /\ handler[subject] = "none"
    BY <1>1 DEF Fresh
<1> QED
    BY <1>1, <1>2, <1>3

LEMMA ChannelTypeNext ==
    ASSUME ChannelType, HandlerType, [Next]_vars
    PROVE  ChannelType'
<1>1. CASE UNCHANGED <<pending, queued, forceNext, terminal, unsubscribed, resnap, cancelled, nextSeq, lastPayload>>
    BY <1>1 DEF ChannelType
<1>2. ASSUME NEW i \in Ids, ReadUnsub(i)  PROVE ChannelType'
    BY <1>2 DEF ReadUnsub, Receives, Forgotten, ChannelType
<1>3. ASSUME NEW i \in Ids, ReadResnap(i)  PROVE ChannelType'
    BY <1>3 DEF ReadResnap, Receives, ChannelType
<1>4. CASE ResnapToken
    BY <1>4 DEF ResnapToken, ChannelType
<1>5. ASSUME NEW i \in Ids, Push(i)  PROVE ChannelType'
<2>1. CASE UNCHANGED channelVars
    BY <2>1, <1>5 DEF Push, ChannelType
<2>2. CASE SnapshotQueued(i)
    BY <2>2, <1>5 DEF Push, SnapshotQueued, ChannelType, HandlerType
<2> QED
    BY <2>1, <2>2, <1>5 DEF Push
<1>6. ASSUME NEW i \in Ids, Resnap(i)  PROVE ChannelType'
    BY <1>6 DEF Resnap, HandlerStep, ChannelType
<1>7. ASSUME NEW i \in Ids, Finish(i)  PROVE ChannelType'
    BY <1>7 DEF Finish, HandlerStep, Live, ChannelType
<1>8. ASSUME NEW i \in Ids, Drop(i)  PROVE ChannelType'
    BY <1>8 DEF Drop, HandlerStep, Forgotten, ChannelType
<1>9. CASE TakeSnapshot
    BY <1>9 DEF TakeSnapshot, NoFrame, Live, ChannelType
<1>10. CASE Drain
    BY <1>10 DEF Drain, ServerStep, DrainAll, ChannelType
<1> QED
    BY <1>1, <1>2, <1>3, <1>4, <1>5, <1>6, <1>7, <1>8, <1>9, <1>10 DEF Next, ReaderNext,
       HandlerNext, WriterNext, ServerNext,
       ReadSub, Refuse, Register, ReadPing, ReadInvalid, ReadError, Open, Fail, Read,
          Update, Tick, StopWaiting, Report, NextOutbound, Check, Write, Forget, WriteFails,
          WriterWakes, WriterStops, NoticeProtocolError, NoticeEnd, CloseWaited, Cancel,
          CloseSocket, Join, Change, HandlerStep, ServerStep, WriterStep, CheckUnsubscribed

LEMMA HandlerTypeNext ==
    ASSUME HandlerType, ServerType, [Next]_vars
    PROVE  HandlerType'
<1>1. CASE UNCHANGED <<handler, value, dirty>>
    BY <1>1 DEF HandlerType
<1>2. CASE Register
    BY <1>2 DEF Register, HandlerType, HandlerStates
<1>3. ASSUME NEW i \in Ids, Open(i)  PROVE HandlerType'
    BY <1>3 DEF Open, HandlerStep, HandlerType, HandlerStates
<1>4. ASSUME NEW i \in Ids, Fail(i)  PROVE HandlerType'
    BY <1>4 DEF Fail, HandlerStep, HandlerType, HandlerStates
<1>5. ASSUME NEW i \in Ids, Read(i)  PROVE HandlerType'
    BY <1>5 DEF Read, HandlerStep, HandlerType, HandlerStates, ServerType
<1>6. ASSUME NEW i \in Ids, Push(i)  PROVE HandlerType'
    BY <1>6 DEF Push, Rejects, Skips, NoRoom, SnapshotQueued, SamePayload, HandlerType,
       HandlerStates
<1>7. ASSUME NEW i \in Ids, Update(i)  PROVE HandlerType'
    BY <1>7 DEF Update, HandlerStep, HandlerType, HandlerStates
<1>8. ASSUME NEW i \in Ids, Tick(i)  PROVE HandlerType'
    BY <1>8 DEF Tick, HandlerStep, HandlerType, HandlerStates
<1>9. ASSUME NEW i \in Ids, Resnap(i)  PROVE HandlerType'
    BY <1>9 DEF Resnap, HandlerStep, HandlerType, HandlerStates
<1>10. ASSUME NEW i \in Ids, StopWaiting(i)  PROVE HandlerType'
    BY <1>10 DEF StopWaiting, HandlerStep, HandlerType, HandlerStates
<1>11. ASSUME NEW i \in Ids, Finish(i)  PROVE HandlerType'
    BY <1>11 DEF Finish, HandlerStep, Live, HandlerType, HandlerStates
<1>12. ASSUME NEW i \in Ids, Report(i)  PROVE HandlerType'
    BY <1>12 DEF Report, HandlerStep, CanQueue, EndKind, HandlerType, HandlerStates
<1>13. ASSUME NEW i \in Ids, Drop(i)  PROVE HandlerType'
    BY <1>13 DEF Drop, HandlerStep, Forgotten, HandlerType, HandlerStates
<1>14. CASE Change
    BY <1>14 DEF Change, HandlerType, HandlerStates
<1> QED
    BY <1>1, <1>2, <1>3, <1>4, <1>5, <1>6, <1>7, <1>8, <1>9, <1>10, <1>11, <1>12, <1>13,
       <1>14 DEF Next, ReaderNext, HandlerNext, WriterNext, ServerNext,
       ReadSub, ReadUnsub, ReadResnap, Refuse, ResnapToken, ReadPing, ReadInvalid,
          ReadError, NextOutbound, TakeSnapshot, Check, Write, Forget, WriteFails,
          WriterWakes, WriterStops, NoticeProtocolError, NoticeEnd, CloseWaited, Cancel,
          Drain, CloseSocket, Join, ServerStep, WriterStep, CheckUnsubscribed, DrainAll,
          Forgotten

LEMMA ReaderTypeNext ==
    ASSUME ReaderType, [Next]_vars
    PROVE  ReaderType'
<1>1. CASE UNCHANGED <<reader, subject, clientVars>>
    BY <1>1 DEF ReaderType
<1>2. ASSUME NEW i \in Ids, NEW decodes \in BOOLEAN, ReadSub(i, decodes)  PROVE ReaderType'
    BY <1>2 DEF ReadSub, Receives, ReaderType
<1>3. ASSUME NEW i \in Ids, ReadUnsub(i)  PROVE ReaderType'
    BY <1>3 DEF ReadUnsub, Receives, Forgotten, ReaderType
<1>4. ASSUME NEW i \in Ids, ReadResnap(i)  PROVE ReaderType'
    BY <1>4 DEF ReadResnap, Receives, ReaderType
<1>5. CASE Refuse
    BY <1>5 DEF Refuse, CanQueue, ReaderType
<1>6. CASE Register
    BY <1>6 DEF Register, ReaderType
<1>7. CASE ResnapToken
    BY <1>7 DEF ResnapToken, ReaderType
<1>8. CASE ReadPing
    BY <1>8 DEF ReadPing, Receives, CanQueue, ReaderType
<1>9. CASE ReadInvalid
    BY <1>9 DEF ReadInvalid, Receives, ReaderType
<1>10. CASE ReadError
    BY <1>10 DEF ReadError, ReaderType
<1> QED
    BY <1>1, <1>2, <1>3, <1>4, <1>5, <1>6, <1>7, <1>8, <1>9, <1>10 DEF Next, ReaderNext,
       HandlerNext, WriterNext, ServerNext,
       Open, Fail, Read, Push, Update, Tick, Resnap, StopWaiting, Finish, Report, Drop,
          NextOutbound, TakeSnapshot, Check, Write, Forget, WriteFails, WriterWakes,
          WriterStops, NoticeProtocolError, NoticeEnd, CloseWaited, Cancel, Drain,
          CloseSocket, Join, Change, HandlerStep, ServerStep, WriterStep, CheckUnsubscribed,
          DrainAll, Forgotten

LEMMA WriterTypeNext ==
    ASSUME WriterType, ConnectionType, ChannelType, ListedType, [Next]_vars
    PROVE  WriterType'
<1>1. CASE UNCHANGED <<writer, hand>>
    BY <1>1 DEF WriterType
<1>2. CASE NextOutbound
<2>1. CASE queue = <<>>
    BY <2>1, <1>2 DEF NextOutbound, WriterType
<2>2. CASE queue # <<>>
  <3>1. Head(queue) \in [kind : Kinds, id : Ids \cup {0}]
      BY <2>2, HeadType DEF ConnectionType
  <3>2. hand' = [kind |-> Head(queue).kind, id |-> Head(queue).id, seq |-> 0, version |-> None]
      BY <2>2, <1>2 DEF NextOutbound, NoFrame
  <3> QED
      BY <2>2, <3>1, <3>2, <1>2 DEF NextOutbound, WriterType
<2> QED
    BY <2>1, <2>2
<1>3. CASE TakeSnapshot
<2>1. CASE Live(hand.id) /\ pending[hand.id] # None
  <3>1. nextSeq[hand.id] \in Nat /\ pending[hand.id] \in Versions \cup {None}
      BY <2>1 DEF ChannelType, Live, ListedType
  <3>2. hand' = [hand EXCEPT !.seq = nextSeq[hand.id], !.version = pending[hand.id]]
      BY <2>1, <1>3 DEF TakeSnapshot
  <3> QED
      BY <2>1, <3>1, <3>2, <1>3 DEF TakeSnapshot, WriterType
<2>2. CASE ~(Live(hand.id) /\ pending[hand.id] # None)
    BY <2>2, <1>3 DEF TakeSnapshot, WriterType, NoFrame
<2> QED
    BY <2>1, <2>2
<1>4. CASE Check
    BY <1>4 DEF Check, CheckUnsubscribed, WriterStep, NoFrame, WriterType
<1>5. CASE Write
    BY <1>5 DEF Write, NoFrame, WriterType
<1>6. CASE Forget
    BY <1>6 DEF Forget, NoFrame, WriterType
<1>7. CASE WriteFails
    BY <1>7 DEF WriteFails, NoFrame, WriterType
<1>8. CASE WriterWakes
    BY <1>8 DEF WriterWakes, WriterStep, WriterType
<1>9. CASE WriterStops
    BY <1>9 DEF WriterStops, WriterStep, WriterType
<1> QED
    BY <1>1, <1>2, <1>3, <1>4, <1>5, <1>6, <1>7, <1>8, <1>9 DEF Next, ReaderNext,
       HandlerNext, WriterNext, ServerNext,
       ReadSub, ReadUnsub, ReadResnap, Refuse, Register, ResnapToken, ReadPing, ReadInvalid,
          ReadError, Open, Fail, Read, Push, Update, Tick, Resnap, StopWaiting, Finish,
          Report, Drop, NoticeProtocolError, NoticeEnd, CloseWaited, Cancel, Drain,
          CloseSocket, Join, Change, HandlerStep, ServerStep, DrainAll, Forgotten

LEMMA ServerTypeNext ==
    ASSUME ServerType, [Next]_vars
    PROVE  ServerType'
<1>1. CASE UNCHANGED <<server, version>>
    BY <1>1 DEF ServerType
<1>2. CASE NoticeProtocolError
    BY <1>2 DEF NoticeProtocolError, CanQueue, ServerType
<1>3. CASE NoticeEnd
    BY <1>3 DEF NoticeEnd, ServerStep, ServerType
<1>4. CASE CloseWaited
    BY <1>4 DEF CloseWaited, ServerStep, ServerType
<1>5. CASE Cancel
    BY <1>5 DEF Cancel, ServerStep, ServerType
<1>6. CASE Drain
    BY <1>6 DEF Drain, ServerStep, DrainAll, ServerType
<1>7. CASE CloseSocket
    BY <1>7 DEF CloseSocket, ServerStep, ServerType
<1>8. CASE Join
    BY <1>8 DEF Join, ServerStep, ServerType
<1>9. CASE Change
    BY <1>9, StateSocketAssumption DEF Change, ServerType, StateSocketAssumption, Versions
<1> QED
    BY <1>1, <1>2, <1>3, <1>4, <1>5, <1>6, <1>7, <1>8, <1>9 DEF Next, ReaderNext,
       HandlerNext, WriterNext, ServerNext,
       ReadSub, ReadUnsub, ReadResnap, Refuse, Register, ResnapToken, ReadPing, ReadInvalid,
          ReadError, Open, Fail, Read, Push, Update, Tick, Resnap, StopWaiting, Finish,
          Report, Drop, NextOutbound, TakeSnapshot, Check, Write, Forget, WriteFails,
          WriterWakes, WriterStops, HandlerStep, WriterStep, CheckUnsubscribed, Forgotten

LEMMA WireTypeNext ==
    ASSUME WireType, WriterType, [Next]_vars
    PROVE  WireType'
<1>1. CASE UNCHANGED wireVars
    BY <1>1 DEF WireType
<1>2. CASE Write
    BY <1>2, KindFacts DEF Write, NoFrame, WireType, WriterType
<1> QED
    BY <1>1, <1>2 DEF Next, ReaderNext, HandlerNext, WriterNext, ServerNext,
       ReadSub, ReadUnsub, ReadResnap, Refuse, Register, ResnapToken, ReadPing, ReadInvalid,
          ReadError, Open, Fail, Read, Push, Update, Tick, Resnap, StopWaiting, Finish,
          Report, Drop, NextOutbound, TakeSnapshot, Check, Forget, WriteFails, WriterWakes,
          WriterStops, NoticeProtocolError, NoticeEnd, CloseWaited, Cancel, Drain,
          CloseSocket, Join, Change, HandlerStep, ServerStep, WriterStep, CheckUnsubscribed,
          DrainAll, Forgotten

LEMMA ListedTypeNext ==
    ASSUME ListedType, Fresh, Reading, ReaderType, HandlerType, ConnectionType, ChannelType, [Next]_vars
    PROVE  ListedType'
<1>1. CASE UNCHANGED <<channels, lastID, unsubscribed, handler>>
    BY <1>1 DEF ListedType
<1>2. ASSUME NEW i \in Ids, NEW decodes \in BOOLEAN, ReadSub(i, decodes)  PROVE ListedType'
    BY <1>2, NumberFacts DEF ReadSub, Receives, ListedType, HandlerType, ConnectionType
<1>3. ASSUME NEW i \in Ids, ReadUnsub(i)  PROVE ListedType'
    BY <1>3 DEF ReadUnsub, Receives, Forgotten, ListedType, HandlerType, ChannelType
<1>4. CASE Register
<2>1. CASE ctxDone
    BY <2>1, <1>4 DEF Register, ListedType
<2>2. CASE ~ctxDone
  <3>1. subject \in Ids /\ subject = lastID /\ subject <= lastID /\ ~unsubscribed[subject]
      BY ReadyToRegister, <1>4 DEF Register
  <3>2. channels' = channels \cup {subject} /\ UNCHANGED <<lastID, unsubscribed>>
      BY <2>2, <1>4 DEF Register
  <3>3. \A j \in Ids : handler[j] # "none" \/ j = subject => handler'[j] # "none"
      BY <2>2, <1>4 DEF Register, HandlerType
  <3> QED
      BY <3>1, <3>2, <3>3 DEF ListedType
<2> QED
    BY <2>1, <2>2
<1>5. ASSUME NEW i \in Ids, Open(i)  PROVE ListedType'
    BY <1>5 DEF Open, HandlerStep, ListedType, HandlerType
<1>6. ASSUME NEW i \in Ids, Fail(i)  PROVE ListedType'
    BY <1>6 DEF Fail, HandlerStep, ListedType, HandlerType
<1>7. ASSUME NEW i \in Ids, Read(i)  PROVE ListedType'
    BY <1>7 DEF Read, HandlerStep, ListedType, HandlerType
<1>8. ASSUME NEW i \in Ids, Push(i)  PROVE ListedType'
    BY <1>8 DEF Push, Rejects, Skips, NoRoom, SnapshotQueued, SamePayload, ListedType,
       HandlerType
<1>9. ASSUME NEW i \in Ids, Update(i)  PROVE ListedType'
    BY <1>9 DEF Update, HandlerStep, ListedType, HandlerType
<1>10. ASSUME NEW i \in Ids, Tick(i)  PROVE ListedType'
    BY <1>10 DEF Tick, HandlerStep, ListedType, HandlerType
<1>11. ASSUME NEW i \in Ids, Resnap(i)  PROVE ListedType'
    BY <1>11 DEF Resnap, HandlerStep, ListedType, HandlerType
<1>12. ASSUME NEW i \in Ids, StopWaiting(i)  PROVE ListedType'
    BY <1>12 DEF StopWaiting, HandlerStep, ListedType, HandlerType
<1>13. ASSUME NEW i \in Ids, Finish(i)  PROVE ListedType'
    BY <1>13 DEF Finish, HandlerStep, Live, ListedType, HandlerType
<1>14. ASSUME NEW i \in Ids, Report(i)  PROVE ListedType'
    BY <1>14 DEF Report, HandlerStep, CanQueue, EndKind, ListedType, HandlerType
<1>15. ASSUME NEW i \in Ids, Drop(i)  PROVE ListedType'
    BY <1>15 DEF Drop, HandlerStep, Forgotten, ListedType, HandlerType, ChannelType
<1>16. CASE Forget
    BY <1>16 DEF Forget, NoFrame, ListedType, HandlerType
<1>17. CASE Drain
    BY <1>17 DEF Drain, ServerStep, DrainAll, ListedType, HandlerType, ChannelType
<1> QED
    BY <1>1, <1>2, <1>3, <1>4, <1>5, <1>6, <1>7, <1>8, <1>9, <1>10, <1>11, <1>12, <1>13,
       <1>14, <1>15, <1>16, <1>17 DEF Next, ReaderNext, HandlerNext, WriterNext, ServerNext,
       ReadResnap, Refuse, ResnapToken, ReadPing, ReadInvalid, ReadError, NextOutbound,
          TakeSnapshot, Check, Write, WriteFails, WriterWakes, WriterStops,
          NoticeProtocolError, NoticeEnd, CloseWaited, Cancel, CloseSocket, Join, Change,
          ServerStep, WriterStep, CheckUnsubscribed

(* The strengthening: ids not yet registered. *)
LEMMA FreshNext ==
    ASSUME Fresh, Reading, ListedType, ReaderType, HandlerType, ConnectionType, ChannelType, [Next]_vars
    PROVE  Fresh'
<1>1. CASE UNCHANGED <<lastID, reader, subject, handler, unsubscribed>>
    BY <1>1 DEF Fresh
<1>2. ASSUME NEW i \in Ids, NEW decodes \in BOOLEAN, ReadSub(i, decodes)  PROVE Fresh'
    BY <1>2, NumberFacts DEF ReadSub, Receives, Fresh, ConnectionType
<1>3. ASSUME NEW i \in Ids, ReadUnsub(i)  PROVE Fresh'
    BY <1>3, NumberFacts DEF ReadUnsub, Receives, Forgotten, Fresh, ListedType, ChannelType,
       ConnectionType
<1>4. ASSUME NEW i \in Ids, ReadResnap(i)  PROVE Fresh'
    BY <1>4 DEF ReadResnap, Receives, Fresh
<1>5. CASE Refuse
    BY <1>5 DEF Refuse, CanQueue, Fresh
<1>6. CASE Register
<2>1. reader' # "register"
    BY <1>6 DEF Register
<2>2. \A j \in Ids : j # subject => handler'[j] = handler[j]
    BY <1>6 DEF Register, HandlerType
<2>3. ~(subject > lastID)
    BY ReadyToRegister, <1>6 DEF Register
<2> QED
    BY <2>1, <2>2, <2>3, <1>6 DEF Register, Fresh
<1>7. CASE ResnapToken
    BY <1>7 DEF ResnapToken, Fresh
<1>8. CASE ReadPing
    BY <1>8 DEF ReadPing, Receives, CanQueue, Fresh
<1>9. CASE ReadInvalid
    BY <1>9 DEF ReadInvalid, Receives, Fresh
<1>10. CASE ReadError
    BY <1>10 DEF ReadError, Fresh
<1>11. ASSUME NEW i \in Ids, Open(i)  PROVE Fresh'
    BY <1>11 DEF Open, HandlerStep, Fresh, HandlerType
<1>12. ASSUME NEW i \in Ids, Fail(i)  PROVE Fresh'
    BY <1>12 DEF Fail, HandlerStep, Fresh, HandlerType
<1>13. ASSUME NEW i \in Ids, Read(i)  PROVE Fresh'
    BY <1>13 DEF Read, HandlerStep, Fresh, HandlerType
<1>14. ASSUME NEW i \in Ids, Push(i)  PROVE Fresh'
    BY <1>14 DEF Push, Rejects, Skips, NoRoom, SnapshotQueued, SamePayload, Fresh, HandlerType
<1>15. ASSUME NEW i \in Ids, Update(i)  PROVE Fresh'
    BY <1>15 DEF Update, HandlerStep, Fresh, HandlerType
<1>16. ASSUME NEW i \in Ids, Tick(i)  PROVE Fresh'
    BY <1>16 DEF Tick, HandlerStep, Fresh, HandlerType
<1>17. ASSUME NEW i \in Ids, Resnap(i)  PROVE Fresh'
    BY <1>17 DEF Resnap, HandlerStep, Fresh, HandlerType
<1>18. ASSUME NEW i \in Ids, StopWaiting(i)  PROVE Fresh'
    BY <1>18 DEF StopWaiting, HandlerStep, Fresh, HandlerType
<1>19. ASSUME NEW i \in Ids, Finish(i)  PROVE Fresh'
    BY <1>19 DEF Finish, HandlerStep, Live, Fresh, HandlerType
<1>20. ASSUME NEW i \in Ids, Report(i)  PROVE Fresh'
    BY <1>20 DEF Report, HandlerStep, CanQueue, EndKind, Fresh, HandlerType
<1>21. ASSUME NEW i \in Ids, Drop(i)  PROVE Fresh'
    BY <1>21, NumberFacts DEF Drop, HandlerStep, Forgotten, Fresh, ListedType, ChannelType,
       HandlerType
<1>22. CASE Drain
    BY <1>22, NumberFacts DEF Drain, ServerStep, DrainAll, Fresh, ListedType
<1> QED
    BY <1>1, <1>2, <1>3, <1>4, <1>5, <1>6, <1>7, <1>8, <1>9, <1>10, <1>11, <1>12, <1>13,
       <1>14, <1>15, <1>16, <1>17, <1>18, <1>19, <1>20, <1>21, <1>22 DEF Next, ReaderNext,
       HandlerNext, WriterNext, ServerNext,
       NextOutbound, TakeSnapshot, Check, Write, Forget, WriteFails, WriterWakes,
          WriterStops, NoticeProtocolError, NoticeEnd, CloseWaited, Cancel, CloseSocket,
          Join, Change, ServerStep, WriterStep, CheckUnsubscribed

(* The strengthening: the id in the hands of the reader. *)
LEMMA ReadingNext ==
    ASSUME Reading, [Next]_vars
    PROVE  Reading'
<1>1. CASE UNCHANGED <<reader, subject, lastID>>
    BY <1>1 DEF Reading
<1>2. ASSUME NEW i \in Ids, NEW decodes \in BOOLEAN, ReadSub(i, decodes)  PROVE Reading'
    BY <1>2 DEF ReadSub, Receives, Reading
<1>3. ASSUME NEW i \in Ids, ReadResnap(i)  PROVE Reading'
    BY <1>3 DEF ReadResnap, Receives, Reading
<1>4. CASE Refuse
    BY <1>4 DEF Refuse, CanQueue, Reading
<1>5. CASE Register
    BY <1>5 DEF Register, Reading
<1>6. CASE ResnapToken
    BY <1>6 DEF ResnapToken, Reading
<1>7. CASE ReadPing
    BY <1>7 DEF ReadPing, Receives, CanQueue, Reading
<1>8. CASE ReadInvalid
    BY <1>8 DEF ReadInvalid, Receives, Reading
<1>9. CASE ReadError
    BY <1>9 DEF ReadError, Reading
<1> QED
    BY <1>1, <1>2, <1>3, <1>4, <1>5, <1>6, <1>7, <1>8, <1>9 DEF Next, ReaderNext,
       HandlerNext, WriterNext, ServerNext,
       ReadUnsub, Open, Fail, Read, Push, Update, Tick, Resnap, StopWaiting, Finish, Report,
          Drop, NextOutbound, TakeSnapshot, Check, Write, Forget, WriteFails, WriterWakes,
          WriterStops, NoticeProtocolError, NoticeEnd, CloseWaited, Cancel, Drain,
          CloseSocket, Join, Change, HandlerStep, ServerStep, WriterStep, CheckUnsubscribed,
          DrainAll, Forgotten

(* The strengthening: a working handler is listed or was given up. *)
LEMMA ListedNext ==
    ASSUME Listed, ListedType, Ends, ReaderType, HandlerType, ChannelType, [Next]_vars
    PROVE  Listed'
<1>1. CASE UNCHANGED <<handler, channels, unsubscribed>>
    BY <1>1 DEF Listed
<1>2. ASSUME NEW i \in Ids, ReadUnsub(i)  PROVE Listed'
    BY <1>2 DEF ReadUnsub, Receives, Forgotten, Listed, ChannelType
<1>3. CASE Register
    BY <1>3 DEF Register, Listed, HandlerType
<1>4. ASSUME NEW i \in Ids, Open(i)  PROVE Listed'
    BY <1>4 DEF Open, HandlerStep, Listed, HandlerType
<1>5. ASSUME NEW i \in Ids, Fail(i)  PROVE Listed'
    BY <1>5 DEF Fail, HandlerStep, Listed, HandlerType
<1>6. ASSUME NEW i \in Ids, Read(i)  PROVE Listed'
    BY <1>6 DEF Read, HandlerStep, Listed, HandlerType
<1>7. ASSUME NEW i \in Ids, Push(i)  PROVE Listed'
    BY <1>7 DEF Push, Rejects, Skips, NoRoom, SnapshotQueued, SamePayload, Listed,
       HandlerType
<1>8. ASSUME NEW i \in Ids, Update(i)  PROVE Listed'
    BY <1>8 DEF Update, HandlerStep, Listed, HandlerType
<1>9. ASSUME NEW i \in Ids, Tick(i)  PROVE Listed'
    BY <1>9 DEF Tick, HandlerStep, Listed, HandlerType
<1>10. ASSUME NEW i \in Ids, Resnap(i)  PROVE Listed'
    BY <1>10 DEF Resnap, HandlerStep, Listed, HandlerType
<1>11. ASSUME NEW i \in Ids, StopWaiting(i)  PROVE Listed'
    BY <1>11 DEF StopWaiting, HandlerStep, Listed, HandlerType
<1>12. ASSUME NEW i \in Ids, Finish(i)  PROVE Listed'
    BY <1>12 DEF Finish, HandlerStep, Live, Listed, HandlerType
<1>13. ASSUME NEW i \in Ids, Report(i)  PROVE Listed'
    BY <1>13 DEF Report, HandlerStep, CanQueue, EndKind, Listed, HandlerType
<1>14. ASSUME NEW i \in Ids, Drop(i)  PROVE Listed'
    BY <1>14 DEF Drop, HandlerStep, Forgotten, Listed, ChannelType, HandlerType
<1>15. CASE Forget
    BY <1>15 DEF Forget, NoFrame, Listed, Ends, Refers, ChannelEnds
<1>16. CASE Drain
    BY <1>16 DEF Drain, ServerStep, DrainAll, Listed
<1> QED
    BY <1>1, <1>2, <1>3, <1>4, <1>5, <1>6, <1>7, <1>8, <1>9, <1>10, <1>11, <1>12, <1>13,
       <1>14, <1>15, <1>16 DEF Next, ReaderNext, HandlerNext, WriterNext, ServerNext,
       ReadSub, ReadResnap, Refuse, ResnapToken, ReadPing, ReadInvalid, ReadError,
          NextOutbound, TakeSnapshot, Check, Write, WriteFails, WriterWakes, WriterStops,
          NoticeProtocolError, NoticeEnd, CloseWaited, Cancel, CloseSocket, Join, Change,
          ServerStep, WriterStep, CheckUnsubscribed

(* The strengthening: shutdown cancels first. *)
LEMMA CancelledFirstNext ==
    ASSUME CancelledFirst, [Next]_vars
    PROVE  CancelledFirst'
<1>1. CASE UNCHANGED <<server, ctxDone>>
    BY <1>1 DEF CancelledFirst
<1>2. CASE NoticeProtocolError
    BY <1>2 DEF NoticeProtocolError, CanQueue, CancelledFirst
<1>3. CASE NoticeEnd
    BY <1>3 DEF NoticeEnd, ServerStep, CancelledFirst
<1>4. CASE CloseWaited
    BY <1>4 DEF CloseWaited, ServerStep, CancelledFirst
<1>5. CASE Cancel
    BY <1>5 DEF Cancel, ServerStep, CancelledFirst
<1>6. CASE Drain
    BY <1>6 DEF Drain, ServerStep, DrainAll, CancelledFirst
<1>7. CASE CloseSocket
    BY <1>7 DEF CloseSocket, ServerStep, CancelledFirst
<1>8. CASE Join
    BY <1>8 DEF Join, ServerStep, CancelledFirst
<1> QED
    BY <1>1, <1>2, <1>3, <1>4, <1>5, <1>6, <1>7, <1>8 DEF Next, ReaderNext, HandlerNext,
       WriterNext, ServerNext,
       ReadSub, ReadUnsub, ReadResnap, Refuse, Register, ResnapToken, ReadPing, ReadInvalid,
          ReadError, Open, Fail, Read, Push, Update, Tick, Resnap, StopWaiting, Finish,
          Report, Drop, NextOutbound, TakeSnapshot, Check, Write, Forget, WriteFails,
          WriterWakes, WriterStops, Change, HandlerStep, WriterStep, CheckUnsubscribed,
          Forgotten

(* Every append to the queue leaves a token. *)
LEMMA StrandedNext ==
    ASSUME WriterNeverStranded, [Next]_vars
    PROVE  WriterNeverStranded'
<1>1. CASE UNCHANGED <<writer, queue, wake, ctxDone>>
    BY <1>1 DEF WriterNeverStranded
<1>2. CASE Refuse
    BY <1>2 DEF Refuse, CanQueue, WriterNeverStranded, Queue
<1>3. CASE ReadPing
    BY <1>3 DEF ReadPing, Receives, CanQueue, WriterNeverStranded, Queue
<1>4. ASSUME NEW i \in Ids, Push(i)  PROVE WriterNeverStranded'
    BY <1>4 DEF Push, Rejects, Skips, NoRoom, SnapshotQueued, SamePayload,
       WriterNeverStranded, Queue
<1>5. ASSUME NEW i \in Ids, Report(i)  PROVE WriterNeverStranded'
    BY <1>5 DEF Report, HandlerStep, CanQueue, EndKind, WriterNeverStranded, Queue
<1>6. CASE NextOutbound
    BY <1>6 DEF NextOutbound, NoFrame, WriterNeverStranded
<1>7. CASE TakeSnapshot
    BY <1>7 DEF TakeSnapshot, NoFrame, Live, WriterNeverStranded
<1>8. CASE Check
    BY <1>8 DEF Check, CheckUnsubscribed, WriterStep, NoFrame, WriterNeverStranded
<1>9. CASE Write
    BY <1>9 DEF Write, NoFrame, WriterNeverStranded
<1>10. CASE Forget
    BY <1>10 DEF Forget, NoFrame, WriterNeverStranded
<1>11. CASE WriteFails
    BY <1>11 DEF WriteFails, NoFrame, WriterNeverStranded
<1>12. CASE WriterWakes
    BY <1>12 DEF WriterWakes, WriterStep, WriterNeverStranded
<1>13. CASE WriterStops
    BY <1>13 DEF WriterStops, WriterStep, WriterNeverStranded
<1>14. CASE NoticeProtocolError
    BY <1>14 DEF NoticeProtocolError, CanQueue, WriterNeverStranded, Queue
<1>15. CASE Cancel
    BY <1>15 DEF Cancel, ServerStep, WriterNeverStranded
<1>16. CASE Drain
    BY <1>16 DEF Drain, ServerStep, DrainAll, WriterNeverStranded
<1> QED
    BY <1>1, <1>2, <1>3, <1>4, <1>5, <1>6, <1>7, <1>8, <1>9, <1>10, <1>11, <1>12, <1>13,
       <1>14, <1>15, <1>16 DEF Next, ReaderNext, HandlerNext, WriterNext, ServerNext,
       ReadSub, ReadUnsub, ReadResnap, Register, ResnapToken, ReadInvalid, ReadError, Open,
          Fail, Read, Update, Tick, Resnap, StopWaiting, Finish, Drop, NoticeEnd,
          CloseWaited, CloseSocket, Join, Change, HandlerStep, ServerStep, Forgotten

(* What shutdown drained stays empty. *)
LEMMA DrainedNext ==
    ASSUME StaysDrained, CancelledFirst, Listed, ChannelType, HandlerType, [Next]_vars
    PROVE  StaysDrained'
<1>1. CASE UNCHANGED <<server, queue, channels, unsubscribed, handler>>
    BY <1>1 DEF StaysDrained, Drained
<1>2. ASSUME NEW i \in Ids, ReadUnsub(i)  PROVE StaysDrained'
    BY <1>2 DEF ReadUnsub, Receives, Forgotten, StaysDrained, Drained, CancelledFirst,
       ChannelType
<1>3. CASE Refuse
    BY <1>3 DEF Refuse, CanQueue, StaysDrained, Drained, CancelledFirst
<1>4. CASE Register
    BY <1>4 DEF Register, StaysDrained, Drained, CancelledFirst, HandlerType
<1>5. CASE ReadPing
    BY <1>5 DEF ReadPing, Receives, CanQueue, StaysDrained, Drained, CancelledFirst
<1>6. ASSUME NEW i \in Ids, Open(i)  PROVE StaysDrained'
    BY <1>6 DEF Open, HandlerStep, StaysDrained, Drained, CancelledFirst, HandlerType
<1>7. ASSUME NEW i \in Ids, Fail(i)  PROVE StaysDrained'
    BY <1>7 DEF Fail, HandlerStep, StaysDrained, Drained, CancelledFirst, HandlerType
<1>8. ASSUME NEW i \in Ids, Read(i)  PROVE StaysDrained'
    BY <1>8 DEF Read, HandlerStep, StaysDrained, Drained, CancelledFirst, HandlerType
<1>9. ASSUME NEW i \in Ids, Push(i)  PROVE StaysDrained'
    BY <1>9 DEF Push, Rejects, Skips, NoRoom, SnapshotQueued, SamePayload, StaysDrained,
       Drained, CancelledFirst, HandlerType, Stopped
<1>10. ASSUME NEW i \in Ids, Update(i)  PROVE StaysDrained'
    BY <1>10 DEF Update, HandlerStep, StaysDrained, Drained, CancelledFirst, HandlerType
<1>11. ASSUME NEW i \in Ids, Tick(i)  PROVE StaysDrained'
    BY <1>11 DEF Tick, HandlerStep, StaysDrained, Drained, CancelledFirst, HandlerType
<1>12. ASSUME NEW i \in Ids, Resnap(i)  PROVE StaysDrained'
    BY <1>12 DEF Resnap, HandlerStep, StaysDrained, Drained, CancelledFirst, HandlerType
<1>13. ASSUME NEW i \in Ids, StopWaiting(i)  PROVE StaysDrained'
    BY <1>13 DEF StopWaiting, HandlerStep, StaysDrained, Drained, CancelledFirst, HandlerType
<1>14. ASSUME NEW i \in Ids, Finish(i)  PROVE StaysDrained'
    BY <1>14 DEF Finish, HandlerStep, Live, StaysDrained, Drained, CancelledFirst, HandlerType
<1>15. ASSUME NEW i \in Ids, Report(i)  PROVE StaysDrained'
    BY <1>15 DEF Report, HandlerStep, CanQueue, EndKind, StaysDrained, Drained,
       CancelledFirst, HandlerType
<1>16. ASSUME NEW i \in Ids, Drop(i)  PROVE StaysDrained'
    BY <1>16 DEF Drop, HandlerStep, Forgotten, StaysDrained, Drained, CancelledFirst,
       ChannelType, HandlerType
<1>17. CASE NextOutbound
    BY <1>17 DEF NextOutbound, NoFrame, StaysDrained, Drained, CancelledFirst
<1>18. CASE Forget
    BY <1>18 DEF Forget, NoFrame, StaysDrained, Drained, CancelledFirst
<1>19. CASE NoticeProtocolError
    BY <1>19 DEF NoticeProtocolError, CanQueue, StaysDrained, Drained, CancelledFirst
<1>20. CASE NoticeEnd
    BY <1>20 DEF NoticeEnd, ServerStep, StaysDrained, Drained, CancelledFirst
<1>21. CASE CloseWaited
    BY <1>21 DEF CloseWaited, ServerStep, StaysDrained, Drained, CancelledFirst
<1>22. CASE Cancel
    BY <1>22 DEF Cancel, ServerStep, StaysDrained, Drained, CancelledFirst
<1>23. CASE Drain
    BY <1>23 DEF Drain, ServerStep, DrainAll, StaysDrained, Drained, CancelledFirst, Listed, HandlerType, HandlerStates
<1>24. CASE CloseSocket
    BY <1>24 DEF CloseSocket, ServerStep, StaysDrained, Drained, CancelledFirst
<1>25. CASE Join
    BY <1>25 DEF Join, ServerStep, StaysDrained, Drained, CancelledFirst
<1> QED
    BY <1>1, <1>2, <1>3, <1>4, <1>5, <1>6, <1>7, <1>8, <1>9, <1>10, <1>11, <1>12, <1>13,
       <1>14, <1>15, <1>16, <1>17, <1>18, <1>19, <1>20, <1>21, <1>22, <1>23, <1>24, <1>25
       DEF Next, ReaderNext, HandlerNext, WriterNext, ServerNext,
       ReadSub, ReadResnap, ResnapToken, ReadInvalid, ReadError, TakeSnapshot, Check, Write,
          WriteFails, WriterWakes, WriterStops, Change, WriterStep, CheckUnsubscribed

(* A handler that is done never works again: ids are not reused. *)
LEMMA DoneStays ==
    ASSUME HandlerType, Fresh, Reading, [Next]_vars
    PROVE  \A j \in Ids : handler[j] = "done" => handler'[j] = "done"
<1> DEFINE Kept == \A j \in Ids : handler[j] = "done" => handler'[j] = "done"
<1>1. CASE UNCHANGED <<handler>>
    BY <1>1
<1>2. CASE Register
    BY <1>2, ReadyToRegister DEF Register, HandlerType
<1>3. ASSUME NEW i \in Ids, Open(i)  PROVE Kept
    BY <1>3 DEF Open, HandlerStep, HandlerType
<1>4. ASSUME NEW i \in Ids, Fail(i)  PROVE Kept
    BY <1>4 DEF Fail, HandlerStep, HandlerType
<1>5. ASSUME NEW i \in Ids, Read(i)  PROVE Kept
    BY <1>5 DEF Read, HandlerStep, HandlerType
<1>6. ASSUME NEW i \in Ids, Push(i)  PROVE Kept
    BY <1>6 DEF Push, Rejects, Skips, NoRoom, SnapshotQueued, SamePayload, HandlerType
<1>7. ASSUME NEW i \in Ids, Update(i)  PROVE Kept
    BY <1>7 DEF Update, HandlerStep, HandlerType
<1>8. ASSUME NEW i \in Ids, Tick(i)  PROVE Kept
    BY <1>8 DEF Tick, HandlerStep, HandlerType
<1>9. ASSUME NEW i \in Ids, Resnap(i)  PROVE Kept
    BY <1>9 DEF Resnap, HandlerStep, HandlerType
<1>10. ASSUME NEW i \in Ids, StopWaiting(i)  PROVE Kept
    BY <1>10 DEF StopWaiting, HandlerStep, HandlerType
<1>11. ASSUME NEW i \in Ids, Finish(i)  PROVE Kept
    BY <1>11 DEF Finish, HandlerStep, Live, HandlerType
<1>12. ASSUME NEW i \in Ids, Report(i)  PROVE Kept
    BY <1>12 DEF Report, HandlerStep, CanQueue, EndKind, HandlerType
<1>13. ASSUME NEW i \in Ids, Drop(i)  PROVE Kept
    BY <1>13 DEF Drop, HandlerStep, Forgotten, HandlerType
<1> QED
    BY <1>1, <1>2, <1>3, <1>4, <1>5, <1>6, <1>7, <1>8, <1>9, <1>10, <1>11, <1>12, <1>13 DEF
       Next, ReaderNext, HandlerNext, WriterNext, ServerNext,
       ReadSub, ReadUnsub, ReadResnap, Refuse, ResnapToken, ReadPing, ReadInvalid,
          ReadError, NextOutbound, TakeSnapshot, Check, Write, Forget, WriteFails,
          WriterWakes, WriterStops, NoticeProtocolError, NoticeEnd, CloseWaited, Cancel,
          Drain, CloseSocket, Join, Change, ServerStep, WriterStep, CheckUnsubscribed,
          DrainAll, Forgotten

(* So a frame that refers soundly goes on doing so. *)
LEMMA RefersKept ==
    ASSUME NEW f, NEW before, NEW after, Refers(f, before),
           \A j \in Ids : before[j] = "done" => after[j] = "done"
    PROVE  Refers(f, after)
    BY DEF Refers

(* Queueing a sound frame keeps all frames sound. *)
LEMMA QueuedRefers ==
    ASSUME ConnectionType, Ends, NEW f, Refers(f, handler'), Queue(f),
           \A j \in Ids : handler[j] = "done" => handler'[j] = "done"
    PROVE  \A n \in 1 .. Len(queue') : Refers(queue'[n], handler')
<1>1. PICK q : q = queue /\ q \in Seq([kind : Kinds, id : Ids \cup {0}])
    BY DEF ConnectionType
<1>2. queue' = Append(q, f) /\ Len(queue') = Len(q) + 1
    BY <1>1 DEF Queue
<1>3. \A n \in 1 .. Len(q) : queue'[n] = q[n] /\ Refers(q[n], handler')
    BY <1>1, <1>2, RefersKept DEF Ends
<1>4. queue'[Len(q) + 1] = f
    BY <1>1, <1>2
<1> QED
    BY <1>1, <1>2, <1>3, <1>4

(* The strengthening: terminal frames follow the end of their handler. *)
LEMMA EndsNext ==
    ASSUME Ends, ConnectionType, HandlerType, WriterType, Fresh, Reading, [Next]_vars
    PROVE  Ends'
<1> USE DoneStays
<1>1. CASE UNCHANGED <<writer, queue, hand>>
    BY <1>1, RefersKept DEF Ends
<1>2. CASE Refuse
<2>1. CASE CanQueue
  <3>1. Queue(Frame(reader, subject)) /\ UNCHANGED <<writer, hand>>
      BY <2>1, <1>2 DEF Refuse
  <3>2. Refers(Frame(reader, subject), handler')
      BY <1>2 DEF Refuse, Refers, Frame, ChannelEnds
  <3> QED
      BY <3>1, <3>2, QueuedRefers, RefersKept DEF Ends
<2>2. CASE ~CanQueue
    BY <2>2, <1>2, RefersKept DEF Refuse, Ends
<2> QED
    BY <2>1, <2>2
<1>3. CASE ReadPing
<2>1. CASE CanQueue
  <3>1. Queue(Frame("pong", 0)) /\ UNCHANGED <<writer, hand>>
      BY <2>1, <1>3 DEF ReadPing
  <3>2. Refers(Frame("pong", 0), handler')
      BY <1>3 DEF ReadPing, Refers, Frame, ChannelEnds
  <3> QED
      BY <3>1, <3>2, QueuedRefers, RefersKept DEF Ends
<2>2. CASE ~CanQueue
    BY <2>2, <1>3, RefersKept DEF ReadPing, Ends
<2> QED
    BY <2>1, <2>2
<1>4. ASSUME NEW i \in Ids, Push(i)  PROVE Ends'
<2>1. CASE UNCHANGED queue
    BY <2>1, <1>4, RefersKept DEF Push, Ends
<2>2. CASE Queue(Frame("snap", i))
  <3>1. Refers(Frame("snap", i), handler')
      BY DEF Refers, Frame, ChannelEnds
  <3> QED
      BY <2>2, <3>1, <1>4, QueuedRefers, RefersKept DEF Push, Ends
<2> QED
    BY <2>1, <2>2, <1>4 DEF Push, SnapshotQueued
<1>5. ASSUME NEW i \in Ids, Report(i)  PROVE Ends'
<2>1. CASE CanQueue
  <3>1. Queue(Frame(EndKind(i), i)) /\ UNCHANGED <<writer, hand>>
      BY <2>1, <1>5 DEF Report
  <3>2. handler'[i] = "done"
      BY <2>1, <1>5 DEF Report, HandlerStep, HandlerType
  <3>3. Refers(Frame(EndKind(i), i), handler')
      BY <3>2 DEF Refers, Frame
  <3> QED
      BY <3>1, <3>3, QueuedRefers, RefersKept DEF Ends
<2>2. CASE ~CanQueue
    BY <2>2, <1>5, RefersKept DEF Report, Ends
<2> QED
    BY <2>1, <2>2
<1>6. CASE NextOutbound
<2>1. CASE queue = <<>>
    BY <2>1, <1>6 DEF NextOutbound, Ends
<2>2. CASE queue # <<>>
  <3>1. PICK q : q = queue /\ q \in Seq([kind : Kinds, id : Ids \cup {0}]) /\ q # <<>>
      BY <2>2 DEF ConnectionType
  <3>2. queue' = Tail(q) /\ UNCHANGED handler
      BY <2>2, <3>1, <1>6 DEF NextOutbound
  <3>3. Len(queue') = Len(q) - 1 /\ \A n \in 1 .. Len(queue') : queue'[n] = q[n + 1]
      BY <3>1, <3>2
  <3>a. \A n \in 1 .. Len(q) : Refers(q[n], handler)
      BY <3>1 DEF Ends
  <3>b. \A n \in 1 .. Len(queue') : n + 1 \in 1 .. Len(q)
      BY <3>1, <3>3
  <3>4. \A n \in 1 .. Len(queue') : Refers(queue'[n], handler')
      BY <3>2, <3>3, <3>a, <3>b
  <3>c. Head(queue) = q[1]
      BY <3>1
  <3>5. hand' = [kind |-> q[1].kind, id |-> q[1].id, seq |-> 0, version |-> None]
      BY <2>2, <3>c, <1>6 DEF NextOutbound, NoFrame
  <3>6. Refers(q[1], handler)
      BY <3>1 DEF Ends
  <3>7. Refers(hand', handler')
      BY <3>2, <3>5, <3>6 DEF Refers
  <3>8. writer' = (IF q[1].kind = "snap" THEN "snap"
                   ELSE IF q[1].kind \in ChannelEnds THEN "check" ELSE "write")
      BY <2>2, <3>c, <1>6 DEF NextOutbound
  <3> QED
      BY <3>4, <3>5, <3>7, <3>8 DEF Ends
<2> QED
    BY <2>1, <2>2
<1>7. CASE TakeSnapshot
<2>1. UNCHANGED <<queue, handler>> /\ writer = "snap" /\ writer' \in {"write", "next"}
    BY <1>7 DEF TakeSnapshot
<2>2. CASE Live(hand.id) /\ pending[hand.id] # None
  <3>1. hand' = [hand EXCEPT !.seq = nextSeq[hand.id], !.version = pending[hand.id]]
      BY <2>2, <1>7 DEF TakeSnapshot
  <3>2. hand'.kind = hand.kind /\ hand'.id = hand.id
      BY <3>1 DEF WriterType
  <3> QED
      BY <2>1, <3>2 DEF Ends, Refers
<2>3. CASE ~(Live(hand.id) /\ pending[hand.id] # None)
  <3>1. hand' = [kind |-> "none", id |-> 0, seq |-> 0, version |-> None]
      BY <2>3, <1>7 DEF TakeSnapshot, NoFrame
  <3> QED
      BY <2>1, <3>1 DEF Ends, Refers, ChannelEnds
<2> QED
    BY <2>2, <2>3
<1>8. CASE Check
<2>1. UNCHANGED <<queue, handler>>
    BY <1>8 DEF Check
<2>2. Refers(hand', handler')
    BY <1>8 DEF Check, CheckUnsubscribed, WriterStep, Ends, Refers, NoFrame, ChannelEnds, WriterType
<2>3. /\ writer' = "snap" => hand'.kind = "snap"
      /\ writer' \in {"check", "forget"} => hand'.kind \in ChannelEnds
    BY <1>8 DEF Check, CheckUnsubscribed, WriterStep, Ends, NoFrame, WriterType
<2> QED
    BY <2>1, <2>2, <2>3 DEF Ends
<1>9. CASE Write
<2>1. UNCHANGED <<queue, handler>>
    BY <1>9 DEF Write
<2>2. Refers(hand', handler')
    BY <1>9 DEF Write, Ends, Refers, NoFrame, ChannelEnds, WriterType
<2>3. /\ writer' = "snap" => hand'.kind = "snap"
      /\ writer' \in {"check", "forget"} => hand'.kind \in ChannelEnds
    BY <1>9 DEF Write, Ends, NoFrame, WriterType
<2> QED
    BY <2>1, <2>2, <2>3 DEF Ends
<1>10. CASE Forget
<2>1. UNCHANGED <<queue, handler>>
    BY <1>10 DEF Forget
<2>2. Refers(hand', handler')
    BY <1>10 DEF Forget, Ends, Refers, NoFrame, ChannelEnds, WriterType
<2>3. /\ writer' = "snap" => hand'.kind = "snap"
      /\ writer' \in {"check", "forget"} => hand'.kind \in ChannelEnds
    BY <1>10 DEF Forget, Ends, NoFrame, WriterType
<2> QED
    BY <2>1, <2>2, <2>3 DEF Ends
<1>11. CASE WriteFails
<2>1. UNCHANGED <<queue, handler>>
    BY <1>11 DEF WriteFails
<2>2. Refers(hand', handler')
    BY <1>11 DEF WriteFails, Ends, Refers, NoFrame, ChannelEnds, WriterType
<2>3. /\ writer' = "snap" => hand'.kind = "snap"
      /\ writer' \in {"check", "forget"} => hand'.kind \in ChannelEnds
    BY <1>11 DEF WriteFails, Ends, NoFrame, WriterType
<2> QED
    BY <2>1, <2>2, <2>3 DEF Ends
<1>12. CASE WriterWakes
    BY <1>12 DEF WriterWakes, WriterStep, Ends
<1>13. CASE WriterStops
    BY <1>13 DEF WriterStops, WriterStep, Ends
<1>14. CASE NoticeProtocolError
<2>1. CASE CanQueue
  <3>1. Queue(Frame("close", 0)) /\ UNCHANGED <<writer, hand>>
      BY <2>1, <1>14 DEF NoticeProtocolError
  <3>2. Refers(Frame("close", 0), handler')
      BY <1>14 DEF NoticeProtocolError, Refers, Frame, ChannelEnds
  <3> QED
      BY <3>1, <3>2, QueuedRefers, RefersKept DEF Ends
<2>2. CASE ~CanQueue
    BY <2>2, <1>14, RefersKept DEF NoticeProtocolError, Ends
<2> QED
    BY <2>1, <2>2
<1>15. CASE Drain
    BY <1>15, RefersKept DEF Drain, ServerStep, DrainAll, Ends
<1> QED
    BY <1>1, <1>2, <1>3, <1>4, <1>5, <1>6, <1>7, <1>8, <1>9, <1>10, <1>11, <1>12, <1>13,
       <1>14, <1>15 DEF Next, ReaderNext, HandlerNext, WriterNext, ServerNext,
       ReadSub, ReadUnsub, ReadResnap, Register, ResnapToken, ReadInvalid, ReadError, Open,
          Fail, Read, Update, Tick, Resnap, StopWaiting, Finish, Drop, NoticeEnd,
          CloseWaited, Cancel, CloseSocket, Join, Change, HandlerStep, ServerStep, Forgotten

(* Giving channels up keeps the map finite and no larger. *)
LEMMA Shrinks ==
    ASSUME Room, channels' \subseteq channels
    PROVE  /\ IsFiniteSet(channels') /\ Cardinality(channels') <= Cardinality(channels)
           /\ Cardinality(channels) \in Nat /\ Cardinality(channels') \in Nat
<1>1. PICK S : S = channels /\ IsFiniteSet(S)
    BY DEF Room
<1>2. PICK T : T = channels' /\ T \subseteq S
    BY <1>1
<1>3. IsFiniteSet(T) /\ Cardinality(T) <= Cardinality(S)
    BY <1>1, <1>2, FS_Subset
<1>4. Cardinality(S) \in Nat /\ Cardinality(T) \in Nat
    BY <1>1, <1>3, FS_CardinalityType
<1> QED
    BY <1>1, <1>2, <1>3, <1>4

(* Registration adds one channel, and subscribe left room for it. *)
LEMMA Grows ==
    ASSUME Room, reader = "register", channels' = channels \cup {subject}
    PROVE  IsFiniteSet(channels') /\ Cardinality(channels') <= ChannelLimit
<1>1. PICK S : S = channels /\ IsFiniteSet(S) /\ Cardinality(S) < ChannelLimit
    BY DEF Room
<1>2. PICK T : T = channels' /\ T = S \cup {subject}
    BY <1>1
<1>3. IsFiniteSet(T) /\ (Cardinality(T) = Cardinality(S) \/ Cardinality(T) = Cardinality(S) + 1)
    BY <1>1, <1>2, FS_AddElement
<1>4. Cardinality(S) \in Nat /\ ChannelLimit \in Nat
    BY <1>1, FS_CardinalityType, StateSocketAssumption DEF StateSocketAssumption
<1> QED
    BY <1>1, <1>2, <1>3, <1>4

(* The limits are naturals. *)
LEMMA LimitType == ChannelLimit \in Nat /\ MaxQueued \in Nat
    BY StateSocketAssumption DEF StateSocketAssumption

(* The strengthening: the room subscribe saw is still there when it registers. *)
LEMMA RoomNext ==
    ASSUME Room, ReaderType, [Next]_vars
    PROVE  Room'
<1>1. CASE UNCHANGED <<channels, reader>>
    BY <1>1 DEF Room
<1>2. ASSUME NEW i \in Ids, NEW decodes \in BOOLEAN, ReadSub(i, decodes)  PROVE Room'
    BY <1>2 DEF ReadSub, Receives, Room
<1>3. ASSUME NEW i \in Ids, ReadUnsub(i)  PROVE Room'
<2>1. channels' \subseteq channels /\ UNCHANGED reader
    BY <1>3 DEF ReadUnsub, Forgotten, Receives
<2> QED
    BY <2>1, Shrinks, LimitType DEF Room
<1>4. ASSUME NEW i \in Ids, ReadResnap(i)  PROVE Room'
    BY <1>4 DEF ReadResnap, Receives, Room
<1>5. CASE Refuse
    BY <1>5 DEF Refuse, CanQueue, Room
<1>6. CASE Register
<2>1. reader' # "register"
    BY <1>6 DEF Register
<2>2. channels' = channels \/ channels' = channels \cup {subject}
    BY <1>6 DEF Register
<2> QED
    BY <2>1, <2>2, <1>6, Grows DEF Register, Room
<1>7. CASE ResnapToken
    BY <1>7 DEF ResnapToken, Room
<1>8. CASE ReadPing
    BY <1>8 DEF ReadPing, Receives, CanQueue, Room
<1>9. CASE ReadInvalid
    BY <1>9 DEF ReadInvalid, Receives, Room
<1>10. CASE ReadError
    BY <1>10 DEF ReadError, Room
<1>11. ASSUME NEW i \in Ids, Drop(i)  PROVE Room'
<2>1. channels' \subseteq channels /\ UNCHANGED reader
    BY <1>11 DEF Drop, Forgotten
<2> QED
    BY <2>1, Shrinks, LimitType DEF Room
<1>12. CASE Forget
<2>1. channels' \subseteq channels /\ UNCHANGED reader
    BY <1>12 DEF Forget
<2> QED
    BY <2>1, Shrinks, LimitType DEF Room
<1>13. CASE Drain
<2>1. channels' \subseteq channels /\ UNCHANGED reader
    BY <1>13 DEF Drain, DrainAll
<2> QED
    BY <2>1, Shrinks, LimitType DEF Room
<1> QED
    BY <1>1, <1>2, <1>3, <1>4, <1>5, <1>6, <1>7, <1>8, <1>9, <1>10, <1>11, <1>12, <1>13 DEF
       Next, ReaderNext, HandlerNext, WriterNext, ServerNext,
       Open, Fail, Read, Push, Update, Tick, Resnap, StopWaiting, Finish, Report,
          NextOutbound, TakeSnapshot, Check, Write, WriteFails, WriterWakes, WriterStops,
          NoticeProtocolError, NoticeEnd, CloseWaited, Cancel, CloseSocket, Join, Change,
          HandlerStep, ServerStep, WriterStep, CheckUnsubscribed

ChannelsBounded == Cardinality(channels) <= ChannelLimit
QueueBounded == Len(queue) <= MaxQueued

(* The two halves of Bounded. *)
LEMMA ChannelsBoundedNext ==
    ASSUME ChannelsBounded, Room, [Next]_vars
    PROVE  ChannelsBounded'
<1>1. CASE UNCHANGED <<channels>>
    BY <1>1 DEF ChannelsBounded
<1>2. ASSUME NEW i \in Ids, ReadUnsub(i)  PROVE ChannelsBounded'
<2>1. channels' \subseteq channels
    BY <1>2 DEF ReadUnsub, Forgotten, Receives
<2> QED
    BY <2>1, Shrinks, LimitType DEF ChannelsBounded
<1>3. CASE Register
<2>1. channels' = channels \/ channels' = channels \cup {subject}
    BY <1>3 DEF Register
<2> QED
    BY <2>1, <1>3, Grows DEF Register, ChannelsBounded
<1>4. ASSUME NEW i \in Ids, Drop(i)  PROVE ChannelsBounded'
<2>1. channels' \subseteq channels
    BY <1>4 DEF Drop, Forgotten
<2> QED
    BY <2>1, Shrinks, LimitType DEF ChannelsBounded
<1>5. CASE Forget
<2>1. channels' \subseteq channels
    BY <1>5 DEF Forget
<2> QED
    BY <2>1, Shrinks, LimitType DEF ChannelsBounded
<1>6. CASE Drain
<2>1. channels' \subseteq channels
    BY <1>6 DEF Drain, DrainAll
<2> QED
    BY <2>1, Shrinks, LimitType DEF ChannelsBounded
<1> QED
    BY <1>1, <1>2, <1>3, <1>4, <1>5, <1>6 DEF Next, ReaderNext, HandlerNext, WriterNext,
       ServerNext,
       ReadSub, ReadResnap, Refuse, ResnapToken, ReadPing, ReadInvalid, ReadError, Open,
          Fail, Read, Push, Update, Tick, Resnap, StopWaiting, Finish, Report, NextOutbound,
          TakeSnapshot, Check, Write, WriteFails, WriterWakes, WriterStops,
          NoticeProtocolError, NoticeEnd, CloseWaited, Cancel, CloseSocket, Join, Change,
          HandlerStep, ServerStep, WriterStep, CheckUnsubscribed

(* A frame that found room leaves the queue within its limit. *)
LEMMA QueuedBounded ==
    ASSUME ConnectionType, NEW f, Queue(f), Len(queue) < MaxQueued
    PROVE  Len(queue') <= MaxQueued
<1>1. PICK q : q = queue /\ q \in Seq([kind : Kinds, id : Ids \cup {0}])
    BY DEF ConnectionType
<1>2. queue' = Append(q, f)
    BY <1>1 DEF Queue
<1>3. Len(queue') = Len(q) + 1 /\ Len(q) \in Nat
    BY <1>1, <1>2
<1> QED
    BY <1>1, <1>3, LimitType

LEMMA QueueBoundedNext ==
    ASSUME QueueBounded, ConnectionType, [Next]_vars
    PROVE  QueueBounded'
<1>1. CASE UNCHANGED <<queue>>
    BY <1>1 DEF QueueBounded
<1>2. CASE Refuse
    BY <1>2, QueuedBounded DEF Refuse, CanQueue, QueueBounded
<1>3. CASE ReadPing
    BY <1>3, QueuedBounded DEF ReadPing, CanQueue, QueueBounded
<1>4. ASSUME NEW i \in Ids, Push(i)  PROVE QueueBounded'
<2>1. CASE UNCHANGED queue
    BY <2>1 DEF QueueBounded
<2>2. CASE Queue(Frame("snap", i)) /\ ~queued[i] /\ ~NoRoom(i)
  <3>1. Len(queue) < MaxQueued
      BY <2>2, LimitType DEF NoRoom, ConnectionType
  <3> QED
      BY <2>2, <3>1, QueuedBounded DEF QueueBounded
<2> QED
    BY <2>1, <2>2, <1>4 DEF Push, SnapshotQueued
<1>5. ASSUME NEW i \in Ids, Report(i)  PROVE QueueBounded'
    BY <1>5, QueuedBounded DEF Report, CanQueue, QueueBounded
<1>6. CASE NextOutbound
<2>1. CASE queue = <<>>
    BY <2>1, <1>6 DEF NextOutbound, QueueBounded
<2>2. CASE queue # <<>>
  <3>1. PICK q : q = queue /\ q \in Seq([kind : Kinds, id : Ids \cup {0}]) /\ q # <<>>
      BY <2>2 DEF ConnectionType
  <3>2. queue' = Tail(q)
      BY <2>2, <3>1, <1>6 DEF NextOutbound
  <3>3. Len(queue') = Len(q) - 1 /\ Len(q) \in Nat
      BY <3>1, <3>2
  <3> QED
      BY <3>1, <3>3, LimitType DEF QueueBounded
<2> QED
    BY <2>1, <2>2
<1>7. CASE NoticeProtocolError
    BY <1>7, QueuedBounded DEF NoticeProtocolError, CanQueue, QueueBounded
<1>8. CASE Drain
<2>1. queue' = <<>>
    BY <1>8 DEF Drain, DrainAll
<2> QED
    BY <2>1, LimitType DEF QueueBounded
<1> QED
    BY <1>1, <1>2, <1>3, <1>4, <1>5, <1>6, <1>7, <1>8 DEF Next, ReaderNext, HandlerNext,
       WriterNext, ServerNext,
       ReadSub, ReadUnsub, ReadResnap, Register, ResnapToken, ReadInvalid, ReadError, Open,
          Fail, Read, Update, Tick, Resnap, StopWaiting, Finish, Drop, TakeSnapshot, Check,
          Write, Forget, WriteFails, WriterWakes, WriterStops, NoticeEnd, CloseWaited,
          Cancel, CloseSocket, Join, Change, HandlerStep, ServerStep, WriterStep,
          CheckUnsubscribed, Forgotten

(* The invariant holds when ready has been written. *)
LEMMA SafeInit == Init => Safe
<1> SUFFICES ASSUME Init PROVE Safe
    OBVIOUS
<1> USE DEF Init
<1>1. ConnectionType
  <2>1. <<>> \in Seq([kind : Kinds, id : Ids \cup {0}])
      OBVIOUS
  <2>2. lastID = 0 /\ queue = <<>> /\ wake = FALSE /\ ctxDone = FALSE /\ socketOpen = TRUE
      OBVIOUS
  <2> QED
      BY <2>1, <2>2 DEF ConnectionType
<1>2. ChannelType /\ HandlerType /\ ReaderType
    BY StateSocketAssumption
       DEF StateSocketAssumption, ChannelType, HandlerType, ReaderType, HandlerStates
<1>3. WriterType /\ ServerType /\ WireType /\ ListedType
    BY StateSocketAssumption
       DEF StateSocketAssumption, WriterType, ServerType, WireType, ListedType, Versions, NoFrame
<1>4. Fresh /\ Reading /\ CancelledFirst /\ Listed
    BY DEF Fresh, Reading, CancelledFirst, Listed
<1>5. Ends
    BY DEF Ends, Refers, NoFrame, ChannelEnds
<1>6. Room
    BY FS_EmptySet DEF Room
<1>7. Bounded
  <2>1. Cardinality(channels) = 0 /\ Len(queue) = 0
      BY FS_EmptySet
  <2> QED
      BY <2>1, LimitType DEF Bounded
<1>8. WriterNeverStranded /\ StaysDrained
    BY DEF WriterNeverStranded, StaysDrained, Drained
<1> QED
    BY <1>1, <1>2, <1>3, <1>4, <1>5, <1>6, <1>7, <1>8 DEF Safe, TypeOK

(* Every step keeps it. *)
LEMMA SafeNext == Safe /\ [Next]_vars => Safe'
<1> SUFFICES ASSUME Safe, [Next]_vars PROVE Safe'
    OBVIOUS
<1> USE DEF Safe, TypeOK
<1>1. TypeOK'
    BY ConnectionTypeNext, ChannelTypeNext, HandlerTypeNext, ReaderTypeNext, WriterTypeNext,
       ServerTypeNext, WireTypeNext, ListedTypeNext
<1>2. Fresh' /\ Reading' /\ Ends' /\ Listed' /\ CancelledFirst'
    BY FreshNext, ReadingNext, EndsNext, ListedNext, CancelledFirstNext
<1>3. Bounded'
    BY ChannelsBoundedNext, QueueBoundedNext DEF Bounded, ChannelsBounded, QueueBounded
<1>4. Room' /\ WriterNeverStranded' /\ StaysDrained'
    BY RoomNext, StrandedNext, DrainedNext
<1> QED
    BY <1>1, <1>2, <1>3, <1>4

(* So it always holds. *)
LEMMA AlwaysSafe == Spec => []Safe
    BY SafeInit, SafeNext, PTL DEF Spec

(* Types, and the channel map of subscribe, unsubscribe, writeLoop and      *)
(* shutdown: a listed channel is live, registered, and its id was handed out. *)
THEOREM TypeCorrect == Spec => []TypeOK
<1>1. Safe => TypeOK
    BY DEF Safe
<1> QED
    BY <1>1, AlwaysSafe, PTL

(* queueFrame, queueSnapshot and subscribe: whatever a client does and      *)
(* however slowly it reads, the queue and the channel map stay within       *)
(* stateMaxQueuedFrames and stateChannelLimit.                              *)
THEOREM OneClientIsBounded == Spec => []Bounded
<1>1. Safe => Bounded
    BY DEF Safe
<1> QED
    BY <1>1, AlwaysSafe, PTL

(* shutdown against subscribe, queueSnapshot, queueFrame and the handlers:  *)
(* what it drained stays empty, and no working handler keeps a context that *)
(* nobody cancels.                                                          *)
THEOREM ShutdownIsFinal == Spec => []StaysDrained
<1>1. Safe => StaysDrained
    BY DEF Safe
<1> QED
    BY <1>1, AlwaysSafe, PTL

------------------------------------------------------------------------------
(* The protocol of one subscription.                                         *)
(* Frames about a subscription: snapshots, and the verdict that ends it.     *)
Verdicts == ChannelEnds \cup {"refused"}
Abouts == Verdicts \cup {"snap"}
Has(q, K, i) == \E n \in 1 .. Len(q) : q[n].kind \in K /\ q[n].id = i
Holds(K, i) == hand.kind \in K /\ hand.id = i
OnWay(K, i) == Has(queue, K, i) \/ Holds(K, i)
Sending(i) == writer = "write" /\ Holds({"snap"}, i)
SnapAhead(i) == Has(queue, {"snap"}, i) \/ (writer = "snap" /\ Holds({"snap"}, i))
Told(i) == wireOver[i] # "no" \/ OnWay(Verdicts, i)

(* Snapshots are numbered upwards: what was sent is below what the writer    *)
(* holds, and that below what is pending.                                    *)
NumbersOf(i) ==
    /\ wireSeq[i] <= nextSeq[i]
    /\ pending[i] # None => wireSeq[i] < nextSeq[i]
    /\ Sending(i) => /\ wireSeq[i] < hand.seq /\ hand.seq <= nextSeq[i]
                     /\ pending[i] # None => hand.seq < nextSeq[i]
(* The same of the versions they show, up to what the handler has read.      *)
VersionsOf(i) ==
    /\ wireVersion[i] \in 0 .. version
    /\ pending[i] # None => wireVersion[i] <= pending[i] /\ pending[i] <= version
    /\ value[i] # None => wireVersion[i] <= value[i] /\ value[i] <= version
    /\ pending[i] # None /\ value[i] # None => pending[i] <= value[i]
    /\ Sending(i) => /\ hand.version \in wireVersion[i] .. version
                     /\ pending[i] # None => hand.version <= pending[i]
                     /\ value[i] # None => hand.version <= value[i]
(* Nothing about a subscription follows its verdict.                         *)
Orderly(q, i) ==
    \A a, b \in 1 .. Len(q) :
        a < b /\ q[a].kind \in Verdicts /\ q[a].id = i => ~(q[b].kind \in Abouts /\ q[b].id = i)
OrderOf(i) ==
    /\ Orderly(queue, i)
    /\ wireOver[i] # "no" \/ Holds(Verdicts, i) => ~Has(queue, Abouts, i)
    /\ wireOver[i] # "no" => writer = "forget" \/ ~Holds(Abouts, i)
(* A verdict has one source: the handler that is done, or the reader that    *)
(* refused; and it says whether there was a snapshot.                        *)
SourcesOf(i) ==
    /\ Told(i) => handler[i] \in {"none", "done"}
    /\ handler[i] # "none" \/ Told(i) => i <= lastID
    /\ reader \in {"register", "refused"} /\ subject = i => handler[i] = "none" /\ ~Told(i) /\ i <= lastID
    /\ handler[i] = "none" \/ OnWay({"suberr", "refused"}, i) => nextSeq[i] = 0
    /\ OnWay({"subend"}, i) => nextSeq[i] > 0
    /\ handler[i] = "push" => value[i] # None
(* A snapshot that was numbered reaches the client before subend does,       *)
(* unless the client gave the subscription up.                               *)
DeliveryOf(i) ==
    /\ queued[i] => SnapAhead(i) \/ ctxDone
    /\ writer # "failed" /\ nextSeq[i] > 0 =>
          \/ wireSeq[i] > 0 \/ unsubscribed[i] \/ Sending(i)
          \/ i \in channels /\ pending[i] # None /\ SnapAhead(i)
    /\ writer = "write" /\ Holds({"subend"}, i) => wireSeq[i] > 0
(* No more refusals of an id that was not new are on the wire, in the queue, *)
(* in the writer's hand and in the reader's than the client asked for.       *)
Waiting(i) == {n \in 1 .. Len(queue) : queue[n].kind = "reused" /\ queue[n].id = i}
One(here) == IF here THEN 1 ELSE 0
AnswersOf(i) ==
    wireRefused[i] + Cardinality(Waiting(i)) + One(Holds({"reused"}, i))
        + One(reader = "reused" /\ subject = i) <= misused[i]
(* What the writer holds where.                                              *)
Writing ==
    /\ writer \in {"next", "wait", "failed", "gone"} => hand.kind = "none"
    /\ writer = "snap" => hand.kind = "snap"
    /\ writer \in {"check", "forget"} => hand.kind \in ChannelEnds
StoryOf(i) ==
    /\ NumbersOf(i) /\ VersionsOf(i) /\ OrderOf(i) /\ SourcesOf(i) /\ DeliveryOf(i)
    /\ AnswersOf(i)
Story == Writing /\ \A i \in Ids : StoryOf(i)


(* nextOutbound hands the writer the first frame.                            *)
LEMMA TakesHead ==
    ASSUME TypeOK, NextOutbound
    PROVE  /\ writer = "next"
           /\ \/ queue = <<>> /\ writer' = "wait" /\ UNCHANGED <<queue, hand>>
              \/ /\ queue # <<>> /\ queue' = Tail(queue)
                 /\ hand'.kind = Head(queue).kind /\ hand'.id = Head(queue).id
                 /\ Head(queue).kind \in Kinds
                 /\ writer' = IF Head(queue).kind = "snap" THEN "snap"
                              ELSE IF Head(queue).kind \in ChannelEnds THEN "check" ELSE "write"
<1>1. CASE queue = <<>>
    BY <1>1 DEF NextOutbound
<1>2. CASE queue # <<>>
    <2>1. Head(queue) \in [kind : Kinds, id : Ids \cup {0}]
        BY <1>2, HeadType DEF TypeOK, ConnectionType
    <2>2. PICK f : f = Head(queue)
        OBVIOUS
    <2>3. /\ hand' = [NoFrame EXCEPT !.kind = f.kind, !.id = f.id]
          /\ writer' = IF f.kind = "snap" THEN "snap" ELSE IF f.kind \in ChannelEnds THEN "check" ELSE "write"
          /\ queue' = Tail(queue) /\ writer = "next"
        BY <1>2, <2>2, Zenon DEF NextOutbound
    <2>4. hand'.kind = f.kind /\ hand'.id = f.id
        BY <2>3 DEF NoFrame
    <2> QED
        BY <1>2, <2>1, <2>2, <2>3, <2>4
<1> QED
    BY <1>1, <1>2

(* The writer turns a snapshot frame into what is pending, or drops it.      *)
LEMMA TakesSnapshot ==
    ASSUME TypeOK, TakeSnapshot, NEW i \in Ids
    PROVE  /\ writer = "snap"
           /\ queued'[i] = IF i = hand.id THEN FALSE ELSE queued[i]
           /\ \/ /\ Live(hand.id) /\ pending[hand.id] # None
                 /\ writer' = "write" /\ hand'.kind = hand.kind /\ hand'.id = hand.id
                 /\ hand'.seq = nextSeq[hand.id] /\ hand'.version = pending[hand.id]
                 /\ pending'[i] = IF i = hand.id THEN None ELSE pending[i]
              \/ /\ ~ (Live(hand.id) /\ pending[hand.id] # None)
                 /\ writer' = "next" /\ hand' = NoFrame /\ pending' = pending
<1>1. /\ writer = "snap"
      /\ queued' = [queued EXCEPT ![hand.id] = FALSE]
    BY DEF TakeSnapshot
<1>2. queued'[i] = IF i = hand.id THEN FALSE ELSE queued[i]
    BY <1>1 DEF TypeOK, ChannelType
<1>3. CASE Live(hand.id) /\ pending[hand.id] # None
    <2>1. /\ hand' = [hand EXCEPT !.seq = nextSeq[hand.id], !.version = pending[hand.id]]
          /\ pending' = [pending EXCEPT ![hand.id] = None]
          /\ writer' = "write"
        BY <1>3, Zenon DEF TakeSnapshot
    <2>2. hand'.kind = hand.kind /\ hand'.id = hand.id /\ hand'.seq = nextSeq[hand.id] /\ hand'.version = pending[hand.id]
        BY <2>1 DEF TypeOK, WriterType
    <2>3. pending'[i] = IF i = hand.id THEN None ELSE pending[i]
        BY <2>1 DEF TypeOK, ChannelType
    <2> QED
        BY <1>1, <1>2, <1>3, <2>1, <2>2, <2>3
<1>4. CASE ~ (Live(hand.id) /\ pending[hand.id] # None)
    <2>1. hand' = NoFrame /\ writer' = "next" /\ pending' = pending
        BY <1>4, Zenon DEF TakeSnapshot
    <2> QED
        BY <1>1, <1>2, <1>4, <2>1
<1> QED
    BY <1>3, <1>4

(* queueSnapshot numbers what its handler read and makes it pending, or      *)
(* leaves the channel alone.                                                 *)
LEMMA Pushes ==
    ASSUME TypeOK, NEW j \in Ids, Push(j), NEW i \in Ids
    PROVE  /\ value'[i] = (IF i = j THEN None ELSE value[i]) /\ handler[j] = "push"
           /\ \/ UNCHANGED <<queue, wake, channelVars>>
              \/ /\ ~ Rejects(j)
                 /\ nextSeq'[i] = (IF i = j THEN nextSeq[i] + 1 ELSE nextSeq[i])
                 /\ pending'[i] = (IF i = j THEN value[j] ELSE pending[i])
                 /\ queued'[i] = (IF i = j THEN TRUE ELSE queued[i])
                 /\ UNCHANGED <<unsubscribed, terminal>>
                 /\ \/ queued[j] /\ UNCHANGED queue
                    \/ ~ queued[j] /\ queue' = Append(queue, Frame("snap", j))
<1>1. /\ value' = [value EXCEPT ![j] = None] /\ handler[j] = "push"
      /\ \/ UNCHANGED <<queue, wake, channelVars>>
         \/ ~ Rejects(j) /\ SnapshotQueued(j) /\ UNCHANGED <<unsubscribed, terminal>>
    BY DEF Push
<1>2. value'[i] = IF i = j THEN None ELSE value[i]
    BY <1>1 DEF TypeOK, HandlerType
<1>3. CASE UNCHANGED <<queue, wake, channelVars>>
    BY <1>1, <1>2, <1>3
<1>4. CASE ~ Rejects(j) /\ SnapshotQueued(j) /\ UNCHANGED <<unsubscribed, terminal>>
    <2>1. /\ nextSeq' = [nextSeq EXCEPT ![j] = @ + 1]
          /\ pending' = [pending EXCEPT ![j] = value[j]]
          /\ queued' = [queued EXCEPT ![j] = TRUE]
        BY <1>4 DEF SnapshotQueued
    <2>2. /\ nextSeq'[i] = IF i = j THEN nextSeq[i] + 1 ELSE nextSeq[i]
          /\ pending'[i] = IF i = j THEN value[j] ELSE pending[i]
        BY <2>1 DEF TypeOK, ChannelType
    <2>3. queued'[i] = IF i = j THEN TRUE ELSE queued[i]
        BY <2>1, Zenon DEF TypeOK, ChannelType
    <2>4. \/ queued[j] /\ UNCHANGED queue
          \/ ~ queued[j] /\ queue' = Append(queue, Frame("snap", j))
        BY <1>4 DEF SnapshotQueued, Queue
    <2> QED
        BY <1>1, <1>2, <1>4, <2>2, <2>3, <2>4
<1> QED
    BY <1>1, <1>3, <1>4

(* The counters and versions of a channel in numbers.                        *)
LEMMA Numeric ==
    ASSUME TypeOK, NEW i \in Ids
    PROVE  /\ wireSeq[i] \in Nat /\ nextSeq[i] \in Nat /\ hand.seq \in Nat
           /\ version \in Nat /\ hand.version \in Int
           /\ pending[i] \in Nat \cup {None} /\ value[i] \in Nat \cup {None}
BY StateSocketAssumption
DEF TypeOK, ConnectionType, ChannelType, HandlerType, WriterType, WireType, ServerType, Versions, None

(* The numbers of a subscription's snapshots only grow on their way to the client. *)
LEMMA NumbersNext ==
    ASSUME TypeOK, Writing, NEW i \in Ids, NumbersOf(i), [Next]_vars
    PROVE  NumbersOf(i)'
<1>1. CASE UNCHANGED <<wireSeq, nextSeq, pending, writer, hand>>
    BY <1>1 DEF NumbersOf, Sending, Holds
<1>2. ASSUME NEW j \in Ids, ReadUnsub(j)  PROVE NumbersOf(i)'
    BY <1>2 DEF ReadUnsub, Receives, Forgotten, NumbersOf, Sending, Holds,
       TypeOK, ConnectionType, ChannelType, HandlerType, WriterType, WireType, ServerType
<1>3. ASSUME NEW j \in Ids, Push(j)  PROVE NumbersOf(i)'
    <2>1. UNCHANGED <<wireSeq, writer, hand>> /\ value[j] \in Nat \cup {None}
        BY <1>3, Numeric DEF Push
    <2>2. /\ wireSeq[i] \in Nat /\ nextSeq[i] \in Nat /\ hand.seq \in Nat
        BY Numeric
    <2>3. \/ nextSeq'[i] = nextSeq[i] /\ pending'[i] = pending[i]
          \/ nextSeq'[i] = nextSeq[i] + 1
        BY <1>3, Pushes
    <2> QED
        BY <2>1, <2>2, <2>3 DEF NumbersOf, Sending, Holds
<1>4. ASSUME NEW j \in Ids, Drop(j)  PROVE NumbersOf(i)'
    BY <1>4 DEF Drop, HandlerStep, Forgotten, NumbersOf, Sending, Holds,
       TypeOK, ConnectionType, ChannelType, HandlerType, WriterType, WireType, ServerType
<1>5. CASE NextOutbound
    <2>1. UNCHANGED <<wireSeq, nextSeq, pending>>
        BY <1>5 DEF NextOutbound
    <2> QED
        BY <1>5, <2>1, TakesHead DEF NumbersOf, Sending, Holds
<1>6. CASE TakeSnapshot
    <2>1. UNCHANGED <<wireSeq, nextSeq>>
        BY <1>6 DEF TakeSnapshot
    <2>2. wireSeq[i] \in Nat /\ nextSeq[i] \in Nat
        BY Numeric
    <2>3. CASE i = hand.id
        <3>1. \/ /\ pending[i] # None /\ pending'[i] = None /\ hand'.seq = nextSeq[i] /\ hand'.version = pending[i]
              \/ writer' # "write" /\ pending' = pending
            BY <1>6, <2>3, TakesSnapshot
        <3> QED
            BY <2>1, <2>2, <3>1 DEF NumbersOf, Sending, Holds
    <2>4. CASE i # hand.id
        <3>1. pending'[i] = pending[i] /\ (writer' # "write" \/ hand'.id # i)
            BY <1>6, <2>4, TakesSnapshot
        <3> QED
            BY <2>1, <3>1 DEF NumbersOf, Sending, Holds
    <2> QED
        BY <2>3, <2>4
<1>7. CASE Check
    BY <1>7
    DEF Check, CheckUnsubscribed, WriterStep, NoFrame, NumbersOf, Sending, Holds, Writing, ChannelEnds
<1>8. CASE Write
    BY <1>8 DEF Write, NoFrame, NumbersOf, Sending, Holds,
       TypeOK, ConnectionType, ChannelType, HandlerType, WriterType, WireType, ServerType
<1>9. CASE Forget
    BY <1>9 DEF Forget, NoFrame, NumbersOf, Sending, Holds,
       TypeOK, ConnectionType, ChannelType, HandlerType, WriterType, WireType, ServerType
<1>10. CASE WriteFails
    BY <1>10 DEF WriteFails, NoFrame, NumbersOf, Sending, Holds,
       TypeOK, ConnectionType, ChannelType, HandlerType, WriterType, WireType, ServerType
<1>11. CASE WriterWakes
    BY <1>11 DEF WriterWakes, WriterStep, NumbersOf, Sending, Holds,
       TypeOK, ConnectionType, ChannelType, HandlerType, WriterType, WireType, ServerType
<1>12. CASE WriterStops
    BY <1>12 DEF WriterStops, WriterStep, NumbersOf, Sending, Holds,
       TypeOK, ConnectionType, ChannelType, HandlerType, WriterType, WireType, ServerType
<1>13. CASE Drain
    BY <1>13 DEF Drain, ServerStep, DrainAll, NumbersOf, Sending, Holds,
       TypeOK, ConnectionType, ChannelType, HandlerType, WriterType, WireType, ServerType
<1> QED
    BY <1>1, <1>2, <1>3, <1>4, <1>5, <1>6, <1>7, <1>8, <1>9, <1>10, <1>11, <1>12, <1>13
    DEF Next, ReaderNext, HandlerNext, WriterNext, ServerNext, ReadSub, Refuse, Register,
       ReadResnap, ResnapToken, ReadPing, ReadInvalid, ReadError, Open, Fail, Read, Update,
       Tick, Resnap, StopWaiting, Finish, Report, NoticeProtocolError, NoticeEnd,
       CloseWaited, Cancel, CloseSocket, Join, Change, HandlerStep, WriterStep, ServerStep,
       Receives

(* So does the state they show: it was read later the further it is from the client. *)
LEMMA VersionsNext ==
    ASSUME TypeOK, Writing, NEW i \in Ids, VersionsOf(i), [Next]_vars
    PROVE  VersionsOf(i)'
<1>1. CASE UNCHANGED <<wireVersion, value, version, pending, writer, hand>>
    BY <1>1 DEF VersionsOf, Sending, Holds
<1>2. ASSUME NEW j \in Ids, ReadUnsub(j)  PROVE VersionsOf(i)'
    BY <1>2 DEF ReadUnsub, Receives, Forgotten, VersionsOf, Sending, Holds,
       TypeOK, ConnectionType, ChannelType, HandlerType, WriterType, WireType, ServerType
<1>3. ASSUME NEW j \in Ids, Read(j)  PROVE VersionsOf(i)'
    <2>1. /\ UNCHANGED <<wireVersion, version, pending, writer, hand>>
          /\ value'[i] = IF i = j THEN version ELSE value[i]
        BY <1>3 DEF Read, HandlerStep, TypeOK, HandlerType
    <2> QED
        BY <2>1, Numeric DEF VersionsOf, Sending, Holds
<1>4. ASSUME NEW j \in Ids, Push(j)  PROVE VersionsOf(i)'
    <2>1. UNCHANGED <<wireVersion, version, writer, hand>>
        BY <1>4 DEF Push
    <2>2. /\ value'[i] = (IF i = j THEN None ELSE value[i])
          /\ \/ pending'[i] = pending[i]
             \/ pending'[i] = (IF i = j THEN value[i] ELSE pending[i])
        BY <1>4, Pushes
    <2>3. pending[i] \in Nat \cup {None} /\ value[i] \in Nat \cup {None} /\ version \in Nat
        BY Numeric
    <2> QED
        BY <2>1, <2>2, <2>3 DEF VersionsOf, Sending, Holds
<1>5. ASSUME NEW j \in Ids, Drop(j)  PROVE VersionsOf(i)'
    BY <1>5 DEF Drop, HandlerStep, Forgotten, VersionsOf, Sending, Holds,
       TypeOK, ConnectionType, ChannelType, HandlerType, WriterType, WireType, ServerType
<1>6. CASE NextOutbound
    <2>1. UNCHANGED <<wireVersion, value, version, pending>>
        BY <1>6 DEF NextOutbound
    <2> QED
        BY <1>6, <2>1, TakesHead DEF VersionsOf, Sending, Holds
<1>7. CASE TakeSnapshot
    <2>1. UNCHANGED <<wireVersion, value, version>>
        BY <1>7 DEF TakeSnapshot
    <2>2. version \in Nat /\ pending[i] \in Nat \cup {None} /\ value[i] \in Nat \cup {None}
        BY Numeric
    <2>3. CASE i = hand.id
        <3>1. \/ /\ pending[i] # None /\ pending'[i] = None /\ hand'.seq = nextSeq[i] /\ hand'.version = pending[i]
              \/ writer' # "write" /\ pending' = pending
            BY <1>7, <2>3, TakesSnapshot
        <3> QED
            BY <2>1, <2>2, <3>1 DEF VersionsOf, Sending, Holds
    <2>4. CASE i # hand.id
        <3>1. pending'[i] = pending[i] /\ (writer' # "write" \/ hand'.id # i)
            BY <1>7, <2>4, TakesSnapshot
        <3> QED
            BY <2>1, <3>1 DEF VersionsOf, Sending, Holds
    <2> QED
        BY <2>3, <2>4
<1>8. CASE Check
    BY <1>8
    DEF Check, CheckUnsubscribed, WriterStep, NoFrame, VersionsOf, Sending, Holds, Writing, ChannelEnds
<1>9. CASE Write
    BY <1>9 DEF Write, NoFrame, VersionsOf, Sending, Holds,
       TypeOK, ConnectionType, ChannelType, HandlerType, WriterType, WireType, ServerType
<1>10. CASE Forget
    BY <1>10 DEF Forget, NoFrame, VersionsOf, Sending, Holds,
       TypeOK, ConnectionType, ChannelType, HandlerType, WriterType, WireType, ServerType
<1>11. CASE WriteFails
    BY <1>11 DEF WriteFails, NoFrame, VersionsOf, Sending, Holds,
       TypeOK, ConnectionType, ChannelType, HandlerType, WriterType, WireType, ServerType
<1>12. CASE WriterWakes
    BY <1>12 DEF WriterWakes, WriterStep, VersionsOf, Sending, Holds,
       TypeOK, ConnectionType, ChannelType, HandlerType, WriterType, WireType, ServerType
<1>13. CASE WriterStops
    BY <1>13 DEF WriterStops, WriterStep, VersionsOf, Sending, Holds,
       TypeOK, ConnectionType, ChannelType, HandlerType, WriterType, WireType, ServerType
<1>14. CASE Drain
    BY <1>14 DEF Drain, ServerStep, DrainAll, VersionsOf, Sending, Holds,
       TypeOK, ConnectionType, ChannelType, HandlerType, WriterType, WireType, ServerType
<1>15. CASE Change
    <2>1. UNCHANGED <<wireVersion, value, pending, writer, hand>> /\ version' = version + 1
        BY <1>15 DEF Change
    <2> QED
        BY <2>1, Numeric DEF VersionsOf, Sending, Holds
<1> QED
    BY <1>1, <1>2, <1>3, <1>4, <1>5, <1>6, <1>7, <1>8, <1>9, <1>10, <1>11, <1>12, <1>13,
       <1>14, <1>15
    DEF Next, ReaderNext, HandlerNext, WriterNext, ServerNext, ReadSub, Refuse, Register,
       ReadResnap, ResnapToken, ReadPing, ReadInvalid, ReadError, Open, Fail, Update, Tick,
       Resnap, StopWaiting, Finish, Report, NoticeProtocolError, NoticeEnd, CloseWaited,
       Cancel, CloseSocket, Join, HandlerStep, WriterStep, ServerStep, Receives


(* Frames about a subscription in a queue that grows or shrinks.             *)
LEMMA HasMore ==
    ASSUME NEW q, NEW i, NEW K, NEW L, K \subseteq L, Has(q, K, i)
    PROVE  Has(q, L, i)
    BY DEF Has

(* What a longer queue holds about a subscription.                           *)
LEMMA HasAppend ==
    ASSUME NEW S, NEW q \in Seq(S), NEW f \in S, NEW K, NEW i
    PROVE  Has(Append(q, f), K, i) <=> Has(q, K, i) \/ (f.kind \in K /\ f.id = i)
<1>1. /\ Len(Append(q, f)) = Len(q) + 1 /\ Append(q, f)[Len(q) + 1] = f /\ Len(q) \in Nat
      /\ \A n \in 1 .. Len(q) : Append(q, f)[n] = q[n]
    OBVIOUS
<1> DEFINE r == Append(q, f)
<1> HIDE DEF r
<1>2. 1 .. Len(r) = (1 .. Len(q)) \cup {Len(q) + 1}
    BY <1>1 DEF r
<1>3. r[Len(q) + 1] = f /\ \A n \in 1 .. Len(q) : r[n] = q[n]
    BY <1>1 DEF r
<1>4. Has(r, K, i) <=> Has(q, K, i) \/ (f.kind \in K /\ f.id = i)
    BY <1>2, <1>3 DEF Has
<1> QED
    BY <1>4 DEF r

(* What the first frame and the rest of a queue hold about it.               *)
LEMMA HasTail ==
    ASSUME NEW S, NEW q \in Seq(S), q # <<>>, NEW K, NEW i
    PROVE  Has(q, K, i) <=> (Head(q).kind \in K /\ Head(q).id = i) \/ Has(Tail(q), K, i)
<1>1. /\ Len(Tail(q)) = Len(q) - 1 /\ Len(q) \in Nat \ {0} /\ Head(q) = q[1]
      /\ \A n \in 1 .. Len(q) - 1 : Tail(q)[n] = q[n + 1]
    OBVIOUS
<1> DEFINE r == Tail(q)
<1>2. Len(r) = Len(q) - 1 /\ \A n \in 1 .. Len(r) : r[n] = q[n + 1]
    BY <1>1
<1> HIDE DEF r
<1>3. ASSUME Has(q, K, i) PROVE (q[1].kind \in K /\ q[1].id = i) \/ Has(r, K, i)
    <2>1. PICK n \in 1 .. Len(q) : q[n].kind \in K /\ q[n].id = i
        BY <1>3 DEF Has
    <2>2. CASE n = 1
        BY <2>1, <2>2
    <2>3. CASE n # 1
        <3>1. n - 1 \in 1 .. Len(r) /\ r[n - 1] = q[n]
            BY <1>1, <1>2, <2>3
        <3> QED
            BY <2>1, <3>1 DEF Has
    <2> QED
        BY <2>2, <2>3
<1>4. ASSUME Has(r, K, i) PROVE Has(q, K, i)
    <2>1. PICK n \in 1 .. Len(r) : r[n].kind \in K /\ r[n].id = i
        BY <1>4 DEF Has
    <2>2. n + 1 \in 1 .. Len(q) /\ q[n + 1] = r[n]
        BY <1>1, <1>2
    <2> QED
        BY <2>1, <2>2 DEF Has
<1>5. ASSUME q[1].kind \in K, q[1].id = i PROVE Has(q, K, i)
    BY <1>1, <1>5 DEF Has
<1> QED
    BY <1>1, <1>3, <1>4, <1>5 DEF r

(* A queue stays orderly unless a frame about i follows the verdict on i.    *)
LEMMA OrderlyAppend ==
    ASSUME NEW S, NEW q \in Seq(S), NEW f \in S, NEW i, Orderly(q, i),
           Has(q, Verdicts, i) => ~ (f.kind \in Abouts /\ f.id = i)
    PROVE  Orderly(Append(q, f), i)
<1>1. /\ Len(Append(q, f)) = Len(q) + 1 /\ Append(q, f)[Len(q) + 1] = f /\ Len(q) \in Nat
      /\ \A n \in 1 .. Len(q) : Append(q, f)[n] = q[n]
    OBVIOUS
<1> DEFINE r == Append(q, f)
<1>2. Len(r) = Len(q) + 1 /\ r[Len(q) + 1] = f /\ \A n \in 1 .. Len(q) : r[n] = q[n]
    BY <1>1
<1> HIDE DEF r
<1>3. ASSUME NEW a \in 1 .. Len(r), NEW b \in 1 .. Len(r), a < b, r[a].kind \in Verdicts, r[a].id = i
      PROVE  ~ (r[b].kind \in Abouts /\ r[b].id = i)
    <2>1. a \in 1 .. Len(q) /\ r[a] = q[a]
        BY <1>1, <1>2, <1>3
    <2>2. CASE b \in 1 .. Len(q)
        BY <1>2, <1>3, <2>1, <2>2 DEF Orderly
    <2>3. CASE b = Len(q) + 1
        BY <1>2, <1>3, <2>1, <2>3 DEF Has
    <2> QED
        BY <1>1, <1>2, <2>2, <2>3
<1>4. Orderly(r, i)
    BY <1>3 DEF Orderly
<1> QED
    BY <1>4 DEF r

(* What follows a verdict at the head of a queue is about others.            *)
LEMMA OrderlyTail ==
    ASSUME NEW S, NEW q \in Seq(S), q # <<>>, NEW i, Orderly(q, i)
    PROVE  /\ Orderly(Tail(q), i)
           /\ Head(q).kind \in Verdicts /\ Head(q).id = i => ~ Has(Tail(q), Abouts, i)
<1>1. /\ Len(Tail(q)) = Len(q) - 1 /\ Len(q) \in Nat \ {0} /\ Head(q) = q[1]
      /\ \A n \in 1 .. Len(q) - 1 : Tail(q)[n] = q[n + 1]
    OBVIOUS
<1> DEFINE r == Tail(q)
<1>2. Len(r) = Len(q) - 1 /\ \A n \in 1 .. Len(r) : r[n] = q[n + 1]
    BY <1>1
<1> HIDE DEF r
<1>3. \A n \in 1 .. Len(r) : n + 1 \in 1 .. Len(q) /\ 1 < n + 1
    BY <1>1, <1>2
<1>4. Orderly(r, i)
    <2> SUFFICES ASSUME NEW a \in 1 .. Len(r), NEW b \in 1 .. Len(r), a < b, r[a].kind \in Verdicts, r[a].id = i
                 PROVE  ~ (r[b].kind \in Abouts /\ r[b].id = i)
        BY DEF Orderly
    <2>1. a + 1 < b + 1 /\ a + 1 \in 1 .. Len(q) /\ b + 1 \in 1 .. Len(q) /\ r[a] = q[a + 1] /\ r[b] = q[b + 1]
        BY <1>2, <1>3
    <2> QED
        BY <2>1 DEF Orderly
<1>5. ASSUME q[1].kind \in Verdicts, q[1].id = i PROVE ~ Has(r, Abouts, i)
    <2>1. 1 \in 1 .. Len(q)
        BY <1>1
    <2>2. ASSUME NEW n \in 1 .. Len(r), r[n].kind \in Abouts, r[n].id = i PROVE FALSE
        <3>1. n + 1 \in 1 .. Len(q) /\ 1 < n + 1 /\ r[n] = q[n + 1]
            BY <1>2, <1>3
        <3> QED
            BY <1>5, <2>1, <2>2, <3>1 DEF Orderly
    <2> QED
        BY <2>2 DEF Has
<1> QED
    BY <1>1, <1>4, <1>5 DEF r

(* Nothing waits in an empty queue.                                          *)
LEMMA EmptyHasNone == \A K, i : ~ Has(<<>>, K, i) /\ Orderly(<<>>, i)
<1>1. Len(<<>>) = 0
    OBVIOUS
<1> QED
    BY <1>1 DEF Has, Orderly

(* The kinds that are about a subscription.                                  *)
LEMMA AboutKinds ==
    /\ Verdicts = {"subend", "suberr", "refused"} /\ Abouts = {"subend", "suberr", "refused", "snap"}
    /\ ChannelEnds = {"subend", "suberr"}
    BY DEF Verdicts, Abouts, ChannelEnds

(* A frame is queued.                                                        *)
LEMMA Queued ==
    ASSUME TypeOK, NEW k \in Kinds, NEW j \in Ids \cup {0}, queue' = Append(queue, Frame(k, j)), NEW i
    PROVE  /\ \A K : Has(queue', K, i) <=> Has(queue, K, i) \/ (k \in K /\ j = i)
           /\ Orderly(queue, i) /\ (Has(queue, Verdicts, i) => ~ (k \in Abouts /\ j = i)) => Orderly(queue', i)
<1>1. /\ Frame(k, j) \in [kind : Kinds, id : Ids \cup {0}] /\ Frame(k, j).kind = k /\ Frame(k, j).id = j
    BY DEF Frame
<1>2. queue \in Seq([kind : Kinds, id : Ids \cup {0}])
    BY DEF TypeOK, ConnectionType
<1>3. PICK f \in [kind : Kinds, id : Ids \cup {0}] : f = Frame(k, j) /\ f.kind = k /\ f.id = j
    BY <1>1
<1>4. \A K : Has(Append(queue, f), K, i) <=> Has(queue, K, i) \/ (k \in K /\ j = i)
    <2> TAKE K
    <2>1. Has(Append(queue, f), K, i) <=> Has(queue, K, i) \/ (f.kind \in K /\ f.id = i)
        BY <1>2, HasAppend
    <2> QED
        BY <1>3, <2>1
<1>5. Orderly(queue, i) /\ (Has(queue, Verdicts, i) => ~ (k \in Abouts /\ j = i)) => Orderly(Append(queue, f), i)
    BY <1>2, <1>3, OrderlyAppend
<1> QED
    BY <1>3, <1>4, <1>5, Zenon

(* A frame is taken.                                                         *)
LEMMA Taken ==
    ASSUME TypeOK, NextOutbound, queue # <<>>, NEW i
    PROVE  /\ writer = "next" /\ queue' = Tail(queue)
           /\ \A K : Has(queue, K, i) <=> Holds(K, i)' \/ Has(queue', K, i)
           /\ Orderly(queue, i) => Orderly(queue', i) /\ (Holds(Verdicts, i)' => ~ Has(queue', Abouts, i))
           /\ writer' = IF hand'.kind = "snap" THEN "snap" ELSE IF hand'.kind \in ChannelEnds THEN "check" ELSE "write"
           /\ hand'.kind \in Kinds
<1>1. /\ writer = "next" /\ queue' = Tail(queue)
      /\ hand'.kind = Head(queue).kind /\ hand'.id = Head(queue).id /\ hand'.kind \in Kinds
      /\ writer' = IF hand'.kind = "snap" THEN "snap" ELSE IF hand'.kind \in ChannelEnds THEN "check" ELSE "write"
    BY TakesHead
<1>2. queue \in Seq([kind : Kinds, id : Ids \cup {0}])
    BY DEF TypeOK, ConnectionType
<1>3. \A K : Has(queue, K, i) <=> (Head(queue).kind \in K /\ Head(queue).id = i) \/ Has(Tail(queue), K, i)
    BY <1>2, HasTail
<1>4. Orderly(queue, i) => /\ Orderly(Tail(queue), i)
                           /\ Head(queue).kind \in Verdicts /\ Head(queue).id = i => ~ Has(Tail(queue), Abouts, i)
    BY <1>2, OrderlyTail
<1> QED
    BY <1>1, <1>3, <1>4, Zenon DEF Holds

(* The writer's hand follows its place. *)
LEMMA WritingNext ==
    ASSUME TypeOK, Writing, [Next]_vars
    PROVE  Writing'
<1>1. CASE UNCHANGED <<writer, hand>>
    BY <1>1 DEF Writing, NoFrame
<1>2. CASE NextOutbound
    BY <1>2, TakesHead DEF Writing
<1>3. CASE TakeSnapshot
    BY <1>3 DEF TakeSnapshot, NoFrame, Writing
<1>4. CASE Check
    BY <1>4 DEF Check, CheckUnsubscribed, WriterStep, NoFrame, Writing, NoFrame, ChannelEnds
<1>5. CASE Write
    BY <1>5 DEF Write, NoFrame, Writing, NoFrame, ChannelEnds
<1>6. CASE Forget
    BY <1>6 DEF Forget, NoFrame, Writing, NoFrame, ChannelEnds
<1>7. CASE WriteFails
    BY <1>7 DEF WriteFails, NoFrame, Writing, NoFrame, ChannelEnds
<1>8. CASE WriterWakes
    BY <1>8 DEF WriterWakes, WriterStep, Writing, NoFrame, ChannelEnds
<1>9. CASE WriterStops
    BY <1>9 DEF WriterStops, WriterStep, Writing, NoFrame, ChannelEnds
<1> QED
    BY <1>1, <1>2, <1>3, <1>4, <1>5, <1>6, <1>7, <1>8, <1>9
    DEF Next, ReaderNext, HandlerNext, WriterNext, ServerNext, ReadSub, Refuse, Register,
       ReadUnsub, ReadResnap, ResnapToken, ReadPing, ReadInvalid, ReadError, Open, Fail,
       Read, Push, Update, Tick, Resnap, StopWaiting, Finish, Report, Drop,
       NoticeProtocolError, NoticeEnd, CloseWaited, Cancel, Drain, CloseSocket, Join,
       Change, HandlerStep, WriterStep, ServerStep, Receives

(* Nothing about a subscription gets behind its verdict. *)
LEMMA OrderNext ==
    ASSUME TypeOK, Writing, NEW i \in Ids, OrderOf(i), SourcesOf(i), [Next]_vars
    PROVE  OrderOf(i)'
<1>1. CASE UNCHANGED <<queue, hand, writer, wireOver>>
    BY <1>1 DEF OrderOf, Holds
<1>2. CASE Refuse
    <2>1. UNCHANGED <<hand, writer, wireOver>>
        BY <1>2 DEF Refuse
    <2>2. CASE UNCHANGED queue
        BY <2>1, <2>2 DEF OrderOf, Holds
    <2>3. CASE queue' = Append(queue, Frame(reader, subject))
        <3>1. reader \in {"reused", "refused"} /\ subject \in Ids \cup {0} /\ reader \in Kinds
            BY <1>2 DEF Refuse, Kinds, TypeOK, ReaderType
        <3>2. CASE reader = "refused" /\ subject = i
            <4>1. wireOver[i] = "no" /\ ~ Holds(Verdicts, i) /\ ~ Has(queue, Verdicts, i)
                BY <3>2 DEF SourcesOf, Told, OnWay
            <4>2. Orderly(queue', i)
                BY <2>3, <3>1, <4>1, Queued DEF OrderOf
            <4> QED
                BY <2>1, <4>1, <4>2 DEF OrderOf, Holds
        <3>3. CASE ~ (reader = "refused" /\ subject = i)
            <4>1. ~ (reader \in Abouts /\ subject = i)
                BY <3>1, <3>3, AboutKinds
            <4>2. /\ Orderly(queue', i)
                  /\ Has(queue', Abouts, i) <=> Has(queue, Abouts, i)
                BY <2>3, <3>1, <4>1, Queued DEF OrderOf
            <4> QED
                BY <2>1, <4>2 DEF OrderOf, Holds
        <3> QED
            BY <3>2, <3>3
    <2> QED
        BY <1>2, <2>2, <2>3 DEF Refuse, Queue
<1>3. CASE ReadPing
    <2>1. UNCHANGED <<hand, writer, wireOver>>
        BY <1>3 DEF ReadPing
    <2>2. CASE UNCHANGED queue
        BY <2>1, <2>2 DEF OrderOf, Holds
    <2>3. CASE queue' = Append(queue, Frame("pong", 0))
        <3>1. "pong" \in Kinds /\ 0 \in Ids \cup {0} /\ "pong" \notin Abouts
            BY AboutKinds DEF Kinds
        <3>2. /\ Orderly(queue', i)
              /\ Has(queue', Abouts, i) <=> Has(queue, Abouts, i)
            BY <2>3, <3>1, Queued DEF OrderOf
        <3> QED
            BY <2>1, <3>2 DEF OrderOf, Holds
    <2> QED
        BY <1>3, <2>2, <2>3 DEF ReadPing, Queue
<1>4. CASE NoticeProtocolError
    <2>1. UNCHANGED <<hand, writer, wireOver>>
        BY <1>4 DEF NoticeProtocolError
    <2>2. CASE UNCHANGED queue
        BY <2>1, <2>2 DEF OrderOf, Holds
    <2>3. CASE queue' = Append(queue, Frame("close", 0))
        <3>1. "close" \in Kinds /\ 0 \in Ids \cup {0} /\ "close" \notin Abouts
            BY AboutKinds DEF Kinds
        <3>2. /\ Orderly(queue', i)
              /\ Has(queue', Abouts, i) <=> Has(queue, Abouts, i)
            BY <2>3, <3>1, Queued DEF OrderOf
        <3> QED
            BY <2>1, <3>2 DEF OrderOf, Holds
    <2> QED
        BY <1>4, <2>2, <2>3 DEF NoticeProtocolError, Queue
<1>5. ASSUME NEW j \in Ids, Push(j)  PROVE OrderOf(i)'
    <2>1. UNCHANGED <<hand, writer, wireOver>> /\ handler[j] = "push"
        BY <1>5 DEF Push
    <2>2. CASE UNCHANGED queue
        BY <2>1, <2>2 DEF OrderOf, Holds
    <2>3. CASE queue' = Append(queue, Frame("snap", j))
        <3>1. "snap" \in Kinds /\ j \in Ids \cup {0}
            BY DEF Kinds
        <3>2. CASE i = j
            <4>1. wireOver[i] = "no" /\ ~ Holds(Verdicts, i) /\ ~ Has(queue, Verdicts, i)
                BY <2>1, <3>2 DEF SourcesOf, Told, OnWay
            <4>2. Orderly(queue', i)
                BY <2>3, <3>1, <4>1, Queued DEF OrderOf
            <4> QED
                BY <2>1, <4>1, <4>2 DEF OrderOf, Holds
        <3>3. CASE i # j
            <4>1. /\ Orderly(queue', i)
                  /\ Has(queue', Abouts, i) <=> Has(queue, Abouts, i)
                BY <2>3, <3>1, <3>3, Queued DEF OrderOf
            <4> QED
                BY <2>1, <4>1 DEF OrderOf, Holds
        <3> QED
            BY <3>2, <3>3
    <2> QED
        BY <1>5, <2>2, <2>3, Pushes
<1>6. ASSUME NEW j \in Ids, Report(j)  PROVE OrderOf(i)'
    <2>1. UNCHANGED <<hand, writer, wireOver>> /\ handler[j] = "report"
        BY <1>6 DEF Report, HandlerStep
    <2>2. CASE UNCHANGED queue
        BY <2>1, <2>2 DEF OrderOf, Holds
    <2>3. CASE queue' = Append(queue, Frame(EndKind(j), j))
        <3>1. EndKind(j) \in Kinds /\ j \in Ids \cup {0}
            BY KindFacts DEF EndKind
        <3>2. CASE i = j
            <4>1. wireOver[i] = "no" /\ ~ Holds(Verdicts, i) /\ ~ Has(queue, Verdicts, i)
                BY <2>1, <3>2 DEF SourcesOf, Told, OnWay
            <4>2. Orderly(queue', i)
                BY <2>3, <3>1, <4>1, Queued DEF OrderOf
            <4> QED
                BY <2>1, <4>1, <4>2 DEF OrderOf, Holds
        <3>3. CASE i # j
            <4>1. /\ Orderly(queue', i)
                  /\ Has(queue', Abouts, i) <=> Has(queue, Abouts, i)
                BY <2>3, <3>1, <3>3, Queued DEF OrderOf
            <4> QED
                BY <2>1, <4>1 DEF OrderOf, Holds
        <3> QED
            BY <3>2, <3>3
    <2> QED
        BY <1>6, <2>2, <2>3 DEF Report, Queue
<1>7. CASE NextOutbound
    <2>1. UNCHANGED wireOver
        BY <1>7 DEF NextOutbound
    <2>2. CASE queue = <<>>
        <3>1. UNCHANGED <<queue, hand>> /\ writer = "next" /\ writer' = "wait"
            BY <1>7, <2>2, TakesHead
        <3> QED
            BY <2>1, <3>1 DEF OrderOf, Holds
    <2>3. CASE queue # <<>>
        <3>1. /\ Has(queue, Abouts, i) <=> Holds(Abouts, i)' \/ Has(queue', Abouts, i)
              /\ Orderly(queue, i) => Orderly(queue', i) /\ (Holds(Verdicts, i)' => ~ Has(queue', Abouts, i))
            BY <1>7, <2>3, Taken
        <3> QED
            BY <2>1, <3>1 DEF OrderOf
    <2> QED
        BY <2>2, <2>3
<1>8. CASE TakeSnapshot
    <2>1. UNCHANGED <<queue, wireOver>> /\ writer = "snap"
        BY <1>8 DEF TakeSnapshot
    <2>2. hand' = NoFrame \/ (hand'.kind = hand.kind /\ hand'.id = hand.id)
        BY <1>8, TakesSnapshot
    <2>3. (Holds(Abouts, i)' => Holds(Abouts, i)) /\ (Holds(Verdicts, i)' => Holds(Verdicts, i))
        BY <2>2, AboutKinds DEF Holds, NoFrame
    <2> QED
        BY <2>1, <2>3 DEF OrderOf
<1>9. CASE Check
    BY <1>9, AboutKinds DEF Check, CheckUnsubscribed, WriterStep, NoFrame, OrderOf, Holds
<1>10. CASE Write
    <2>1. /\ UNCHANGED queue /\ writer = "write"
          /\ wireOver'[i] = (IF i # hand.id THEN wireOver[i]
                             ELSE IF hand.kind \in ChannelEnds THEN hand.kind
                             ELSE IF hand.kind = "refused" THEN "suberr" ELSE wireOver[i])
          /\ \/ hand.kind \in ChannelEnds /\ hand' = hand /\ writer' = "forget"
             \/ hand.kind \notin ChannelEnds /\ hand' = NoFrame
        BY <1>10 DEF Write
    <2>2. CASE hand.kind \in ChannelEnds
        BY <2>1, <2>2, AboutKinds DEF OrderOf, Holds
    <2>3. CASE hand.kind \notin ChannelEnds
        BY <2>1, <2>3, AboutKinds DEF OrderOf, Holds, NoFrame
    <2> QED
        BY <2>2, <2>3
<1>11. CASE Forget
    BY <1>11, AboutKinds DEF Forget, NoFrame, OrderOf, Holds
<1>12. CASE WriteFails
    BY <1>12, AboutKinds DEF WriteFails, NoFrame, OrderOf, Holds
<1>13. CASE WriterWakes
    BY <1>13, AboutKinds DEF WriterWakes, WriterStep, OrderOf, Holds
<1>14. CASE WriterStops
    BY <1>14, AboutKinds DEF WriterStops, WriterStep, OrderOf, Holds
<1>15. CASE Drain
    BY <1>15, EmptyHasNone DEF Drain, ServerStep, DrainAll, OrderOf, Holds
<1> QED
    BY <1>1, <1>2, <1>3, <1>4, <1>5, <1>6, <1>7, <1>8, <1>9, <1>10, <1>11, <1>12, <1>13,
       <1>14, <1>15
    DEF Next, ReaderNext, HandlerNext, WriterNext, ServerNext, ReadSub, Register, ReadUnsub,
       ReadResnap, ResnapToken, ReadInvalid, ReadError, Open, Fail, Read, Update, Tick,
       Resnap, StopWaiting, Finish, Drop, NoticeEnd, CloseWaited, Cancel, CloseSocket,
       Join, Change, HandlerStep, WriterStep, ServerStep, Receives


(* Where a step adds no verdict, keeps the numbers and moves the handler on, *)
(* the sources stay.                                                         *)
LEMMA SourcesKept ==
    ASSUME TypeOK, NEW i \in Ids, SourcesOf(i),
           Told(i)' => Told(i),
           OnWay({"suberr", "refused"}, i)' => OnWay({"suberr", "refused"}, i),
           OnWay({"subend"}, i)' => OnWay({"subend"}, i),
           nextSeq'[i] = nextSeq[i], lastID' \in Nat, lastID <= lastID',
           reader' \in {"register", "refused"} /\ subject' = i =>
               \/ reader \in {"register", "refused"} /\ subject = i
               \/ handler[i] = "none" /\ ~ Told(i) /\ i <= lastID',
           handler'[i] = handler[i] \/ (handler[i] \notin {"none", "done"} /\ handler'[i] # "none"),
           handler'[i] = "push" => value'[i] # None
    PROVE  SourcesOf(i)'
<1>1. i \in Nat /\ lastID \in Nat
    BY NumberFacts DEF TypeOK, ConnectionType
<1> HIDE DEF Told, OnWay
<1> QED
    BY <1>1 DEF SourcesOf

(* The same when the frames and the verdict are left alone.                  *)
LEMMA SourcesUntouched ==
    ASSUME TypeOK, NEW i \in Ids, SourcesOf(i), UNCHANGED <<queue, hand, wireOver, lastID>>,
           nextSeq'[i] = nextSeq[i],
           reader' \in {"register", "refused"} /\ subject' = i =>
               reader \in {"register", "refused"} /\ subject = i,
           handler'[i] = handler[i] \/ (handler[i] \notin {"none", "done"} /\ handler'[i] # "none"),
           handler'[i] = "push" => value'[i] # None
    PROVE  SourcesOf(i)'
<1>1. /\ Told(i)' => Told(i)
      /\ OnWay({"suberr", "refused"}, i)' => OnWay({"suberr", "refused"}, i)
      /\ OnWay({"subend"}, i)' => OnWay({"subend"}, i)
    BY DEF Told, OnWay, Holds
<1>2. lastID' \in Nat /\ lastID <= lastID'
    BY NumberFacts DEF TypeOK, ConnectionType
<1> QED
    BY <1>1, <1>2, SourcesKept DEF Told, OnWay, Holds

(* Verdicts among the kinds.                                                 *)
LEMMA VerdictSets ==
    ASSUME NEW k
    PROVE  /\ k \in {"suberr", "refused"} => k \in Verdicts
           /\ k \in {"subend"} => k \in Verdicts
           /\ k \notin Verdicts => k \notin {"suberr", "refused"} /\ k \notin {"subend"}
BY AboutKinds

(* Either kind of verdict is one.                                            *)
LEMMA VerdictOnWay ==
    ASSUME NEW i, OnWay({"suberr", "refused"}, i) \/ OnWay({"subend"}, i)
    PROVE  OnWay(Verdicts, i)
<1>1. {"suberr", "refused"} \subseteq Verdicts /\ {"subend"} \subseteq Verdicts
    BY AboutKinds
<1> QED
    BY <1>1, HasMore DEF OnWay, Holds

(* A frame that is no verdict of the subscription is queued: no source more. *)
LEMMA NoVerdictQueued ==
    ASSUME TypeOK, NEW k \in Kinds, NEW j \in Ids \cup {0}, queue' = Append(queue, Frame(k, j)), NEW i,
           k \notin Verdicts \/ j # i, UNCHANGED <<hand, wireOver>>
    PROVE  /\ Told(i)' => Told(i)
           /\ OnWay({"suberr", "refused"}, i)' => OnWay({"suberr", "refused"}, i)
           /\ OnWay({"subend"}, i)' => OnWay({"subend"}, i)
<1>1. \A K : Has(queue', K, i) <=> Has(queue, K, i) \/ (k \in K /\ j = i)
    BY Queued
<1>2. /\ Has(queue', Verdicts, i) => Has(queue, Verdicts, i)
      /\ Has(queue', {"suberr", "refused"}, i) => Has(queue, {"suberr", "refused"}, i)
      /\ Has(queue', {"subend"}, i) => Has(queue, {"subend"}, i)
    BY <1>1, VerdictSets
<1> QED
    BY <1>2 DEF Told, OnWay, Holds

(* A verdict keeps its one source. *)
LEMMA SourcesNext ==
    ASSUME TypeOK, Writing, Reading, NEW i \in Ids, SourcesOf(i), [Next]_vars
    PROVE  SourcesOf(i)'
<1>1. CASE UNCHANGED <<queue, hand, wireOver, handler, lastID, reader, subject, nextSeq, value>>
    BY <1>1 DEF SourcesOf, Told, OnWay, Holds
<1>2. ASSUME NEW j \in Ids, NEW decodes \in BOOLEAN, ReadSub(j, decodes)  PROVE SourcesOf(i)'
    <2>1. /\ UNCHANGED <<queue, hand, wireOver, nextSeq, handler, value>>
          /\ reader = "read" /\ subject' = j /\ j \in Nat /\ lastID \in Nat
          /\ \/ j <= lastID /\ reader' = "reused" /\ lastID' = lastID
             \/ ~ (j <= lastID) /\ lastID' = j
        BY <1>2, NumberFacts DEF ReadSub, Receives, TypeOK, ConnectionType
    <2>2. ~ (i <= lastID) => handler[i] = "none" /\ ~ Told(i)
        BY DEF SourcesOf
    <2>3. /\ Told(i)' => Told(i)
          /\ OnWay({"suberr", "refused"}, i)' => OnWay({"suberr", "refused"}, i)
          /\ OnWay({"subend"}, i)' => OnWay({"subend"}, i)
        BY <2>1 DEF Told, OnWay, Holds
    <2>4. lastID' \in Nat /\ lastID <= lastID'
        BY <2>1
    <2>5. reader' \in {"register", "refused"} /\ subject' = i => handler[i] = "none" /\ ~ Told(i) /\ i <= lastID'
        BY <2>1, <2>2
    <2> QED
        BY <2>1, <2>3, <2>4, <2>5, SourcesKept DEF SourcesOf, Told, OnWay, Holds
<1>3. CASE Refuse
    <2>1. UNCHANGED <<hand, wireOver, lastID, nextSeq, handler, value, subject>>
          /\ reader' \notin {"register", "refused"}
        BY <1>3 DEF Refuse
    <2>2. CASE UNCHANGED queue
        BY <2>1, <2>2, SourcesUntouched DEF SourcesOf
    <2>3. CASE queue' = Append(queue, Frame(reader, subject))
        <3>1. reader \in {"reused", "refused"} /\ subject \in Ids \cup {0} /\ reader \in Kinds
            BY <1>3 DEF Refuse, Kinds, TypeOK, ReaderType
        <3>2. CASE reader = "refused" /\ subject = i
            <4>1. handler[i] = "none" /\ ~ Told(i) /\ i <= lastID /\ nextSeq[i] = 0
                BY <3>2 DEF SourcesOf
            <4>2. Has(queue', {"subend"}, i) <=> Has(queue, {"subend"}, i)
                <5>1. \A K : Has(queue', K, i) <=> Has(queue, K, i) \/ (reader \in K /\ subject = i)
                    BY <2>3, <3>1, Queued
                <5> QED
                    BY <3>2, <5>1
            <4>3. ~ OnWay({"subend"}, i)
                BY <4>1, VerdictOnWay DEF Told
            <4>4. ~ OnWay({"subend"}, i)'
                BY <2>1, <4>2, <4>3 DEF OnWay, Holds
            <4> QED
                BY <2>1, <4>1, <4>4 DEF SourcesOf
        <3>3. CASE ~ (reader = "refused" /\ subject = i)
            <4>1. reader \notin Verdicts \/ subject # i
                BY <3>1, <3>3, AboutKinds
            <4>2. /\ Told(i)' => Told(i)
                  /\ OnWay({"suberr", "refused"}, i)' => OnWay({"suberr", "refused"}, i)
                  /\ OnWay({"subend"}, i)' => OnWay({"subend"}, i)
                BY <2>1, <2>3, <3>1, <4>1, NoVerdictQueued DEF Told, OnWay, Holds
            <4>3. lastID' \in Nat /\ lastID <= lastID'
                BY <2>1, NumberFacts DEF TypeOK, ConnectionType
            <4> QED
                BY <2>1, <4>2, <4>3, SourcesKept DEF SourcesOf, Told, OnWay, Holds
        <3> QED
            BY <3>2, <3>3
    <2> QED
        BY <1>3, <2>2, <2>3 DEF Refuse, Queue
<1>4. CASE Register
    <2>1. UNCHANGED <<queue, hand, wireOver, lastID, nextSeq, value, subject>>
          /\ reader' \notin {"register", "refused"}
        BY <1>4 DEF Register
    <2>2. CASE handler'[i] = handler[i]
        BY <2>1, <2>2, SourcesUntouched DEF SourcesOf
    <2>3. CASE handler'[i] # handler[i]
        <3>1. reader = "register" /\ subject = i /\ handler'[i] = "open"
            BY <1>4, <2>3 DEF Register, TypeOK, HandlerType
        <3>2. ~ Told(i) /\ i <= lastID /\ nextSeq[i] = 0
            BY <3>1 DEF SourcesOf
        <3>3. ~ Told(i)' /\ ~ OnWay({"subend"}, i)'
            <4>1. ~ OnWay({"subend"}, i)
                BY <3>2, VerdictOnWay DEF Told
            <4> QED
                BY <2>1, <3>2, <4>1 DEF Told, OnWay, Holds
        <3> QED
            BY <2>1, <3>1, <3>2, <3>3 DEF SourcesOf
    <2> QED
        BY <2>2, <2>3
<1>5. ASSUME NEW j \in Ids, ReadResnap(j)  PROVE SourcesOf(i)'
    <2>1. /\ UNCHANGED <<queue, hand, wireOver, lastID, nextSeq, handler, value>>
          /\ reader' \notin {"register", "refused"}
        BY <1>5 DEF ReadResnap, Receives
    <2> QED
        BY <2>1, SourcesUntouched DEF SourcesOf
<1>6. CASE ResnapToken
    <2>1. /\ UNCHANGED <<queue, hand, wireOver, lastID, nextSeq, handler, value>>
          /\ reader' \notin {"register", "refused"}
        BY <1>6 DEF ResnapToken
    <2> QED
        BY <2>1, SourcesUntouched DEF SourcesOf
<1>7. CASE ReadInvalid
    <2>1. /\ UNCHANGED <<queue, hand, wireOver, lastID, nextSeq, handler, value>>
          /\ reader' \notin {"register", "refused"}
        BY <1>7 DEF ReadInvalid, Receives
    <2> QED
        BY <2>1, SourcesUntouched DEF SourcesOf
<1>8. CASE ReadError
    <2>1. /\ UNCHANGED <<queue, hand, wireOver, lastID, nextSeq, handler, value>>
          /\ reader' \notin {"register", "refused"}
        BY <1>8 DEF ReadError
    <2> QED
        BY <2>1, SourcesUntouched DEF SourcesOf
<1>9. CASE ReadPing
    <2>1. /\ UNCHANGED <<hand, wireOver, lastID, nextSeq, handler, value, subject>>
          /\ reader' = reader \/ reader' \notin {"register", "refused"}
        BY <1>9 DEF ReadPing, Receives
    <2>2. CASE UNCHANGED queue
        BY <2>1, <2>2, SourcesUntouched DEF SourcesOf
    <2>3. CASE queue' = Append(queue, Frame("pong", 0))
        <3>1. "pong" \in Kinds /\ 0 \in Ids \cup {0} /\ "pong" \notin Verdicts
            BY AboutKinds DEF Kinds
        <3>2. /\ Told(i)' => Told(i)
              /\ OnWay({"suberr", "refused"}, i)' => OnWay({"suberr", "refused"}, i)
              /\ OnWay({"subend"}, i)' => OnWay({"subend"}, i)
            BY <2>1, <2>3, <3>1, NoVerdictQueued DEF Told, OnWay, Holds
        <3>3. lastID' \in Nat /\ lastID <= lastID'
            BY <2>1, NumberFacts DEF TypeOK, ConnectionType
        <3> QED
            BY <2>1, <3>2, <3>3, SourcesKept DEF SourcesOf, Told, OnWay, Holds
    <2> QED
        BY <1>9, <2>2, <2>3 DEF ReadPing, Queue
<1>10. CASE NoticeProtocolError
    <2>1. /\ UNCHANGED <<hand, wireOver, lastID, nextSeq, handler, value, subject>>
          /\ reader' = reader \/ reader' \notin {"register", "refused"}
        BY <1>10 DEF NoticeProtocolError, Receives
    <2>2. CASE UNCHANGED queue
        BY <2>1, <2>2, SourcesUntouched DEF SourcesOf
    <2>3. CASE queue' = Append(queue, Frame("close", 0))
        <3>1. "close" \in Kinds /\ 0 \in Ids \cup {0} /\ "close" \notin Verdicts
            BY AboutKinds DEF Kinds
        <3>2. /\ Told(i)' => Told(i)
              /\ OnWay({"suberr", "refused"}, i)' => OnWay({"suberr", "refused"}, i)
              /\ OnWay({"subend"}, i)' => OnWay({"subend"}, i)
            BY <2>1, <2>3, <3>1, NoVerdictQueued DEF Told, OnWay, Holds
        <3>3. lastID' \in Nat /\ lastID <= lastID'
            BY <2>1, NumberFacts DEF TypeOK, ConnectionType
        <3> QED
            BY <2>1, <3>2, <3>3, SourcesKept DEF SourcesOf, Told, OnWay, Holds
    <2> QED
        BY <1>10, <2>2, <2>3 DEF NoticeProtocolError, Queue
<1>11. ASSUME NEW j \in Ids, Open(j)  PROVE SourcesOf(i)'
    <2>1. /\ UNCHANGED <<queue, hand, wireOver, lastID, nextSeq, reader, subject, value>>
          /\ handler'[i] = handler[i] \/ (handler[i] \notin {"none", "done"} /\ handler'[i] \notin {"none", "push"})
        BY <1>11 DEF Open, HandlerStep, TypeOK, HandlerType
    <2> QED
        BY <2>1, SourcesUntouched DEF SourcesOf
<1>12. ASSUME NEW j \in Ids, Fail(j)  PROVE SourcesOf(i)'
    <2>1. /\ UNCHANGED <<queue, hand, wireOver, lastID, nextSeq, reader, subject, value>>
          /\ handler'[i] = handler[i] \/ (handler[i] \notin {"none", "done"} /\ handler'[i] \notin {"none", "push"})
        BY <1>12 DEF Fail, HandlerStep, TypeOK, HandlerType
    <2> QED
        BY <2>1, SourcesUntouched DEF SourcesOf
<1>13. ASSUME NEW j \in Ids, Update(j)  PROVE SourcesOf(i)'
    <2>1. /\ UNCHANGED <<queue, hand, wireOver, lastID, nextSeq, reader, subject, value>>
          /\ handler'[i] = handler[i] \/ (handler[i] \notin {"none", "done"} /\ handler'[i] \notin {"none", "push"})
        BY <1>13 DEF Update, HandlerStep, TypeOK, HandlerType
    <2> QED
        BY <2>1, SourcesUntouched DEF SourcesOf
<1>14. ASSUME NEW j \in Ids, Tick(j)  PROVE SourcesOf(i)'
    <2>1. /\ UNCHANGED <<queue, hand, wireOver, lastID, nextSeq, reader, subject, value>>
          /\ handler'[i] = handler[i] \/ (handler[i] \notin {"none", "done"} /\ handler'[i] \notin {"none", "push"})
        BY <1>14 DEF Tick, HandlerStep, TypeOK, HandlerType
    <2> QED
        BY <2>1, SourcesUntouched DEF SourcesOf
<1>15. ASSUME NEW j \in Ids, Resnap(j)  PROVE SourcesOf(i)'
    <2>1. /\ UNCHANGED <<queue, hand, wireOver, lastID, nextSeq, reader, subject, value>>
          /\ handler'[i] = handler[i] \/ (handler[i] \notin {"none", "done"} /\ handler'[i] \notin {"none", "push"})
        BY <1>15 DEF Resnap, HandlerStep, TypeOK, HandlerType
    <2> QED
        BY <2>1, SourcesUntouched DEF SourcesOf
<1>16. ASSUME NEW j \in Ids, StopWaiting(j)  PROVE SourcesOf(i)'
    <2>1. /\ UNCHANGED <<queue, hand, wireOver, lastID, nextSeq, reader, subject, value>>
          /\ handler'[i] = handler[i] \/ (handler[i] \notin {"none", "done"} /\ handler'[i] \notin {"none", "push"})
        BY <1>16 DEF StopWaiting, HandlerStep, TypeOK, HandlerType
    <2> QED
        BY <2>1, SourcesUntouched DEF SourcesOf
<1>17. ASSUME NEW j \in Ids, Finish(j)  PROVE SourcesOf(i)'
    <2>1. /\ UNCHANGED <<queue, hand, wireOver, lastID, nextSeq, reader, subject, value>>
          /\ handler'[i] = handler[i] \/ (handler[i] \notin {"none", "done"} /\ handler'[i] \notin {"none", "push"})
        BY <1>17 DEF Finish, HandlerStep, TypeOK, HandlerType
    <2> QED
        BY <2>1, SourcesUntouched DEF SourcesOf
<1>18. ASSUME NEW j \in Ids, Drop(j)  PROVE SourcesOf(i)'
    <2>1. /\ UNCHANGED <<queue, hand, wireOver, lastID, nextSeq, reader, subject, value>>
          /\ handler'[i] = handler[i] \/ (handler[i] \notin {"none", "done"} /\ handler'[i] \notin {"none", "push"})
        BY <1>18 DEF Drop, HandlerStep, Forgotten, TypeOK, HandlerType
    <2> QED
        BY <2>1, SourcesUntouched DEF SourcesOf
<1>19. ASSUME NEW j \in Ids, Read(j)  PROVE SourcesOf(i)'
    <2>1. /\ UNCHANGED <<queue, hand, wireOver, lastID, nextSeq, reader, subject>>
          /\ \/ handler'[i] = handler[i] /\ value'[i] = value[i]
             \/ handler[i] = "read" /\ handler'[i] = "push" /\ value'[i] = version
        BY <1>19 DEF Read, HandlerStep, TypeOK, HandlerType
    <2>2. version # None
        BY DEF TypeOK, ServerType, Versions, None
    <2> QED
        BY <2>1, <2>2, SourcesUntouched DEF SourcesOf
<1>20. ASSUME NEW j \in Ids, Push(j)  PROVE SourcesOf(i)'
    <2>1. /\ UNCHANGED <<hand, wireOver, lastID, reader, subject>> /\ handler[j] = "push"
          /\ handler'[i] = handler[i] \/ i = j
          /\ i = j => handler'[i] \in {"finish", "wait"}
        BY <1>20 DEF Push, TypeOK, HandlerType
    <2>2. CASE i = j
        <3>1. ~ Told(i) /\ i <= lastID
            BY <2>1, <2>2 DEF SourcesOf
        <3>2. ~ Told(i)'
            <4>1. CASE UNCHANGED queue
                BY <2>1, <3>1, <4>1 DEF Told, OnWay, Holds
            <4>2. CASE queue' = Append(queue, Frame("snap", j))
                <5>1. "snap" \in Kinds /\ j \in Ids \cup {0} /\ "snap" \notin Verdicts
                    BY AboutKinds DEF Kinds
                <5> QED
                    BY <2>1, <3>1, <4>2, <5>1, NoVerdictQueued DEF Told, OnWay, Holds
            <4> QED
                BY <1>20, <4>1, <4>2, Pushes
        <3>3. ~ OnWay({"suberr", "refused"}, i)' /\ ~ OnWay({"subend"}, i)'
            <4>1. {"suberr", "refused"} \subseteq Verdicts /\ {"subend"} \subseteq Verdicts
                BY AboutKinds
            <4> QED
                BY <3>2, <4>1, HasMore DEF Told, OnWay, Holds
        <3>4. handler[i] \notin {"none", "done"} /\ ~ (reader \in {"register", "refused"} /\ subject = i)
            BY <2>1, <2>2 DEF SourcesOf
        <3> QED
            BY <2>1, <2>2, <3>1, <3>2, <3>3, <3>4 DEF SourcesOf
    <2>3. CASE i # j
        <3>1. value'[i] = value[i] /\ nextSeq'[i] = nextSeq[i]
            BY <1>20, <2>3, Pushes
        <3>2. CASE UNCHANGED queue
            BY <2>1, <2>3, <3>1, <3>2, SourcesUntouched DEF SourcesOf
        <3>3. CASE queue' = Append(queue, Frame("snap", j))
            <4>1. "snap" \in Kinds /\ j \in Ids \cup {0}
                BY DEF Kinds
            <4>2. /\ Told(i)' => Told(i)
                  /\ OnWay({"suberr", "refused"}, i)' => OnWay({"suberr", "refused"}, i)
                  /\ OnWay({"subend"}, i)' => OnWay({"subend"}, i)
                BY <2>1, <2>3, <3>3, <4>1, NoVerdictQueued DEF Told, OnWay, Holds
            <4>3. lastID' \in Nat /\ lastID <= lastID'
                BY <2>1, NumberFacts DEF TypeOK, ConnectionType
            <4> QED
                BY <2>1, <2>3, <3>1, <4>2, <4>3, SourcesKept DEF SourcesOf, Told, OnWay, Holds
        <3> QED
            BY <1>20, <3>2, <3>3, Pushes
    <2> QED
        BY <2>2, <2>3
<1>21. ASSUME NEW j \in Ids, Report(j)  PROVE SourcesOf(i)'
    <2>1. /\ UNCHANGED <<hand, wireOver, lastID, reader, subject, nextSeq, value>> /\ handler[j] = "report"
          /\ handler'[i] = handler[i] \/ i = j
          /\ \/ handler'[j] = "done" /\ queue' = Append(queue, Frame(EndKind(j), j))
             \/ handler'[j] = "drop" /\ UNCHANGED queue
        BY <1>21 DEF Report, HandlerStep, Queue, TypeOK, HandlerType
    <2>2. EndKind(j) \in Kinds /\ j \in Ids \cup {0}
        BY KindFacts DEF EndKind
    <2>3. CASE i = j
        <3>1. CASE handler'[j] = "drop" /\ UNCHANGED queue
            BY <2>1, <2>3, <3>1, SourcesUntouched DEF SourcesOf
        <3>2. CASE handler'[j] = "done" /\ queue' = Append(queue, Frame(EndKind(j), j))
            <4>1. ~ Told(i) /\ i <= lastID /\ ~ (reader \in {"register", "refused"} /\ subject = i)
                BY <2>1, <2>3 DEF SourcesOf
            <4>2. ~ OnWay({"suberr", "refused"}, i) /\ ~ OnWay({"subend"}, i)
                BY <4>1, VerdictOnWay DEF Told
            <4>3. /\ Has(queue', {"suberr", "refused"}, i) => EndKind(i) \in {"suberr", "refused"}
                  /\ Has(queue', {"subend"}, i) => EndKind(i) \in {"subend"}
                BY <2>2, <2>3, <3>2, <4>2, Queued DEF OnWay
            <4>4. /\ OnWay({"suberr", "refused"}, i)' => ~ (nextSeq[i] > 0)
                  /\ OnWay({"subend"}, i)' => nextSeq[i] > 0
                BY <2>1, <4>2, <4>3 DEF OnWay, Holds, EndKind
            <4>5. nextSeq[i] \in Nat
                BY Numeric
            <4> QED
                BY <2>1, <2>3, <3>2, <4>1, <4>4, <4>5 DEF SourcesOf
        <3> QED
            BY <2>1, <3>1, <3>2
    <2>4. CASE i # j
        <3>1. CASE UNCHANGED queue
            BY <2>1, <2>4, <3>1, SourcesUntouched DEF SourcesOf
        <3>2. CASE queue' = Append(queue, Frame(EndKind(j), j))
            <4>1. /\ Told(i)' => Told(i)
                  /\ OnWay({"suberr", "refused"}, i)' => OnWay({"suberr", "refused"}, i)
                  /\ OnWay({"subend"}, i)' => OnWay({"subend"}, i)
                BY <2>1, <2>2, <2>4, <3>2, NoVerdictQueued DEF Told, OnWay, Holds
            <4>2. lastID' \in Nat /\ lastID <= lastID'
                BY <2>1, NumberFacts DEF TypeOK, ConnectionType
            <4> QED
                BY <2>1, <2>4, <4>1, <4>2, SourcesKept DEF SourcesOf, Told, OnWay, Holds
        <3> QED
            BY <2>1, <3>1, <3>2
    <2> QED
        BY <2>3, <2>4
<1>22. CASE NextOutbound
    <2>1. UNCHANGED <<lastID, nextSeq, handler, value, subject, reader>>
        BY <1>22 DEF NextOutbound
    <2>2. lastID' \in Nat /\ lastID <= lastID'
        BY <2>1, NumberFacts DEF TypeOK, ConnectionType
    <2>3. /\ Told(i)' => Told(i)
          /\ OnWay({"suberr", "refused"}, i)' => OnWay({"suberr", "refused"}, i)
          /\ OnWay({"subend"}, i)' => OnWay({"subend"}, i)
        <3>1. CASE queue = <<>>
            BY <1>22, <3>1, TakesHead DEF NextOutbound, Told, OnWay, Holds
        <3>2. CASE queue # <<>>
            <4>1. /\ Has(queue, Verdicts, i) <=> Holds(Verdicts, i)' \/ Has(queue', Verdicts, i)
                  /\ Has(queue, {"suberr", "refused"}, i) <=> Holds({"suberr", "refused"}, i)' \/ Has(queue', {"suberr", "refused"}, i)
                  /\ Has(queue, {"subend"}, i) <=> Holds({"subend"}, i)' \/ Has(queue', {"subend"}, i)
                BY <1>22, <3>2, Taken DEF Holds
            <4>2. UNCHANGED wireOver
                BY <1>22 DEF NextOutbound
            <4> QED
                BY <4>1, <4>2 DEF Told, OnWay
        <3> QED
            BY <3>1, <3>2
    <2> QED
        BY <2>1, <2>2, <2>3, SourcesKept DEF SourcesOf, Told, OnWay, Holds
<1>23. CASE TakeSnapshot
    <2>1. UNCHANGED <<lastID, nextSeq, handler, value, subject, reader>>
        BY <1>23 DEF TakeSnapshot
    <2>2. lastID' \in Nat /\ lastID <= lastID'
        BY <2>1, NumberFacts DEF TypeOK, ConnectionType
    <2>3. /\ Told(i)' => Told(i)
          /\ OnWay({"suberr", "refused"}, i)' => OnWay({"suberr", "refused"}, i)
          /\ OnWay({"subend"}, i)' => OnWay({"subend"}, i)
        <3>1. UNCHANGED <<queue, wireOver>>
              /\ (hand' = NoFrame \/ (hand'.kind = hand.kind /\ hand'.id = hand.id))
            BY <1>23, TakesSnapshot DEF TakeSnapshot
        <3> QED
            BY <3>1, AboutKinds DEF Told, OnWay, Holds, NoFrame
    <2> QED
        BY <2>1, <2>2, <2>3, SourcesKept DEF SourcesOf, Told, OnWay, Holds
<1>24. CASE Check
    <2>1. UNCHANGED <<lastID, nextSeq, handler, value, subject, reader>>
        BY <1>24 DEF Check, CheckUnsubscribed, WriterStep
    <2>2. lastID' \in Nat /\ lastID <= lastID'
        BY <2>1, NumberFacts DEF TypeOK, ConnectionType
    <2>3. /\ Told(i)' => Told(i)
          /\ OnWay({"suberr", "refused"}, i)' => OnWay({"suberr", "refused"}, i)
          /\ OnWay({"subend"}, i)' => OnWay({"subend"}, i)
        BY <1>24, AboutKinds DEF Check, CheckUnsubscribed, WriterStep, NoFrame, Told, OnWay, Holds
    <2> QED
        BY <2>1, <2>2, <2>3, SourcesKept DEF SourcesOf, Told, OnWay, Holds
<1>25. CASE Forget
    <2>1. UNCHANGED <<lastID, nextSeq, handler, value, subject, reader>>
        BY <1>25 DEF Forget
    <2>2. lastID' \in Nat /\ lastID <= lastID'
        BY <2>1, NumberFacts DEF TypeOK, ConnectionType
    <2>3. /\ Told(i)' => Told(i)
          /\ OnWay({"suberr", "refused"}, i)' => OnWay({"suberr", "refused"}, i)
          /\ OnWay({"subend"}, i)' => OnWay({"subend"}, i)
        BY <1>25, AboutKinds DEF Forget, NoFrame, Told, OnWay, Holds
    <2> QED
        BY <2>1, <2>2, <2>3, SourcesKept DEF SourcesOf, Told, OnWay, Holds
<1>26. CASE WriteFails
    <2>1. UNCHANGED <<lastID, nextSeq, handler, value, subject, reader>>
        BY <1>26 DEF WriteFails
    <2>2. lastID' \in Nat /\ lastID <= lastID'
        BY <2>1, NumberFacts DEF TypeOK, ConnectionType
    <2>3. /\ Told(i)' => Told(i)
          /\ OnWay({"suberr", "refused"}, i)' => OnWay({"suberr", "refused"}, i)
          /\ OnWay({"subend"}, i)' => OnWay({"subend"}, i)
        BY <1>26, AboutKinds DEF WriteFails, NoFrame, Told, OnWay, Holds
    <2> QED
        BY <2>1, <2>2, <2>3, SourcesKept DEF SourcesOf, Told, OnWay, Holds
<1>27. CASE Write
    <2>1. UNCHANGED <<lastID, nextSeq, handler, value, subject, reader>>
        BY <1>27 DEF Write
    <2>2. lastID' \in Nat /\ lastID <= lastID'
        BY <2>1, NumberFacts DEF TypeOK, ConnectionType
    <2>3. /\ Told(i)' => Told(i)
          /\ OnWay({"suberr", "refused"}, i)' => OnWay({"suberr", "refused"}, i)
          /\ OnWay({"subend"}, i)' => OnWay({"subend"}, i)
        <3>1. /\ UNCHANGED queue /\ (hand' = hand \/ hand' = NoFrame)
              /\ wireOver'[i] = (IF i # hand.id THEN wireOver[i]
                                 ELSE IF hand.kind \in ChannelEnds THEN hand.kind
                                 ELSE IF hand.kind = "refused" THEN "suberr" ELSE wireOver[i])
            BY <1>27 DEF Write
        <3>2. wireOver'[i] # wireOver[i] => Holds(Verdicts, i)
            BY <3>1, AboutKinds DEF Holds
        <3> QED
            BY <3>1, <3>2, AboutKinds DEF Told, OnWay, Holds, NoFrame
    <2> QED
        BY <2>1, <2>2, <2>3, SourcesKept DEF SourcesOf, Told, OnWay, Holds
<1>28. CASE Drain
    <2>1. UNCHANGED <<lastID, nextSeq, handler, value, subject, reader>>
        BY <1>28 DEF Drain, ServerStep, DrainAll
    <2>2. lastID' \in Nat /\ lastID <= lastID'
        BY <2>1, NumberFacts DEF TypeOK, ConnectionType
    <2>3. /\ Told(i)' => Told(i)
          /\ OnWay({"suberr", "refused"}, i)' => OnWay({"suberr", "refused"}, i)
          /\ OnWay({"subend"}, i)' => OnWay({"subend"}, i)
        BY <1>28, EmptyHasNone DEF Drain, ServerStep, DrainAll, Told, OnWay, Holds
    <2> QED
        BY <2>1, <2>2, <2>3, SourcesKept DEF SourcesOf, Told, OnWay, Holds
<1> QED
    BY <1>1, <1>2, <1>3, <1>4, <1>5, <1>6, <1>7, <1>8, <1>9, <1>10, <1>11, <1>12, <1>13,
       <1>14, <1>15, <1>16, <1>17, <1>18, <1>19, <1>20, <1>21, <1>22, <1>23, <1>24, <1>25,
       <1>26, <1>27, <1>28
    DEF Next, ReaderNext, HandlerNext, WriterNext, ServerNext, ReadUnsub, WriterWakes,
       WriterStops, NoticeEnd, CloseWaited, Cancel, CloseSocket, Join, Change, HandlerStep,
       WriterStep, ServerStep, Receives


(* Where a step loses no snapshot on its way, a delivery stays a delivery.   *)
LEMMA DeliveryKept ==
    ASSUME NEW i \in Ids, DeliveryOf(i), nextSeq'[i] = nextSeq[i], wireSeq'[i] = wireSeq[i],
           queued'[i] => queued[i], ctxDone => ctxDone', SnapAhead(i) => SnapAhead(i)',
           writer = "failed" => writer' = "failed",
           unsubscribed[i] => unsubscribed'[i], Sending(i) => Sending(i)',
           i \in channels /\ pending[i] # None /\ SnapAhead(i) =>
               (i \in channels' /\ pending'[i] # None) \/ unsubscribed'[i],
           writer' = "write" /\ Holds({"subend"}, i)' => wireSeq[i] > 0
    PROVE  DeliveryOf(i)'
<1> HIDE DEF SnapAhead, Sending, Holds
<1> QED
    BY DEF DeliveryOf

(* A frame more in the queue takes nothing away.                             *)
LEMMA DeliveryQueued ==
    ASSUME TypeOK, NEW i \in Ids, DeliveryOf(i), NEW k \in Kinds, NEW j \in Ids \cup {0},
           UNCHANGED queue \/ queue' = Append(queue, Frame(k, j)),
           UNCHANGED <<writer, hand, channels, ctxDone>>, nextSeq'[i] = nextSeq[i], wireSeq'[i] = wireSeq[i],
           queued'[i] = queued[i], unsubscribed'[i] = unsubscribed[i], pending'[i] = pending[i]
    PROVE  DeliveryOf(i)'
<1>1. Has(queue, {"snap"}, i) => Has(queue', {"snap"}, i)
    BY Queued
<1>2. SnapAhead(i) => SnapAhead(i)'
    BY <1>1 DEF SnapAhead, Holds
<1>3. Sending(i) => Sending(i)'
    BY DEF Sending, Holds
<1>4. writer' = "write" /\ Holds({"subend"}, i)' => wireSeq[i] > 0
    BY DEF DeliveryOf, Holds
<1> QED
    BY <1>2, <1>3, <1>4, DeliveryKept DEF SnapAhead, Sending, Holds

(* What was numbered reaches the client before its end does. *)
LEMMA DeliveryNext ==
    ASSUME TypeOK, Writing, CancelledFirst, NEW i \in Ids, NumbersOf(i), OrderOf(i), SourcesOf(i), DeliveryOf(i), [Next]_vars
    PROVE  DeliveryOf(i)'
<1>1. CASE UNCHANGED <<queue, hand, writer, ctxDone, queued, nextSeq, wireSeq, unsubscribed, channels, pending>>
    BY <1>1 DEF DeliveryOf, SnapAhead, Sending, Holds
<1>2. CASE Refuse
    <2>1. UNCHANGED <<writer, hand, channels, ctxDone, nextSeq, wireSeq, queued, unsubscribed, pending>>
        BY <1>2 DEF Refuse, channelVars, wireVars, writerVars
    <2>2. reader \in Kinds /\ subject \in Ids \cup {0}
        BY <1>2 DEF Refuse, Kinds, TypeOK, ReaderType
    <2>3. UNCHANGED queue \/ queue' = Append(queue, Frame(reader, subject))
        BY <1>2 DEF Refuse, Queue
    <2> QED
        BY <2>1, <2>2, <2>3, DeliveryQueued
<1>3. CASE Register
    <2>1. /\ UNCHANGED <<queue, hand, writer, ctxDone, queued, nextSeq, wireSeq, unsubscribed, pending>>
          /\ i \in channels => i \in channels'
        BY <1>3 DEF Register
    <2>2. writer' = "write" /\ Holds({"subend"}, i)' => wireSeq[i] > 0
        BY <2>1 DEF DeliveryOf, Holds
    <2> QED
        BY <2>1, <2>2, DeliveryKept DEF SnapAhead, Sending, Holds
<1>4. ASSUME NEW j \in Ids, ReadUnsub(j)  PROVE DeliveryOf(i)'
    <2>1. /\ UNCHANGED <<queue, hand, writer, ctxDone, queued, nextSeq, wireSeq>>
          /\ (unsubscribed[i] => unsubscribed'[i]) /\ (i \in channels => i \in channels' \/ unsubscribed'[i])
          /\ i # j => pending'[i] = pending[i]
          /\ i = j => unsubscribed'[i]
        BY <1>4 DEF ReadUnsub, Forgotten, TypeOK, ChannelType
    <2>2. writer' = "write" /\ Holds({"subend"}, i)' => wireSeq[i] > 0
        BY <2>1 DEF DeliveryOf, Holds
    <2> QED
        BY <2>1, <2>2, DeliveryKept DEF SnapAhead, Sending, Holds
<1>5. CASE ReadPing
    <2>1. UNCHANGED <<writer, hand, channels, ctxDone, nextSeq, wireSeq, queued, unsubscribed, pending>>
        BY <1>5 DEF ReadPing, channelVars, wireVars, writerVars, Receives
    <2>2. "pong" \in Kinds /\ 0 \in Ids \cup {0}
        BY DEF Kinds
    <2>3. UNCHANGED queue \/ queue' = Append(queue, Frame("pong", 0))
        BY <1>5 DEF ReadPing, Queue
    <2> QED
        BY <2>1, <2>2, <2>3, DeliveryQueued
<1>6. ASSUME NEW j \in Ids, Push(j)  PROVE DeliveryOf(i)'
    <2>1. UNCHANGED <<writer, hand, channels, ctxDone, wireSeq>>
        BY <1>6 DEF Push
    <2>2. "snap" \in Kinds /\ j \in Ids \cup {0}
        BY DEF Kinds
    <2>3. CASE UNCHANGED <<queue, wake, channelVars>>
        BY <2>1, <2>2, <2>3, DeliveryQueued DEF channelVars
    <2>4. CASE /\ ~ Rejects(j)
               /\ nextSeq'[i] = (IF i = j THEN nextSeq[i] + 1 ELSE nextSeq[i])
               /\ pending'[i] = (IF i = j THEN value[j] ELSE pending[i])
               /\ queued'[i] = (IF i = j THEN TRUE ELSE queued[i])
               /\ UNCHANGED <<unsubscribed, terminal>>
               /\ \/ queued[j] /\ UNCHANGED queue
                  \/ ~ queued[j] /\ queue' = Append(queue, Frame("snap", j))
        <3>1. CASE i # j
            BY <2>1, <2>2, <2>4, <3>1, DeliveryQueued
        <3>2. CASE i = j
            <4>1. i \in channels' /\ pending'[i] # None /\ ~ ctxDone
                BY <1>6, <2>1, <2>4, <3>2, Pushes DEF SourcesOf, Rejects, Stopped
            <4>2. SnapAhead(i)'
                <5>1. CASE queued[j] /\ UNCHANGED queue
                    BY <2>1, <3>2, <4>1, <5>1 DEF DeliveryOf, SnapAhead, Holds
                <5>2. CASE queue' = Append(queue, Frame("snap", j))
                    BY <2>2, <3>2, <5>2, Queued DEF SnapAhead
                <5> QED
                    BY <2>4, <5>1, <5>2
            <4>3. writer' = "write" /\ Holds({"subend"}, i)' => wireSeq'[i] > 0
                BY <2>1 DEF DeliveryOf, Holds
            <4> QED
                BY <4>1, <4>2, <4>3 DEF DeliveryOf
        <3> QED
            BY <3>1, <3>2
    <2> QED
        BY <1>6, <2>3, <2>4, Pushes
<1>7. ASSUME NEW j \in Ids, Report(j)  PROVE DeliveryOf(i)'
    <2>1. UNCHANGED <<writer, hand, channels, ctxDone, nextSeq, wireSeq, queued, unsubscribed, pending>>
        BY <1>7 DEF Report, channelVars, wireVars, writerVars
    <2>2. EndKind(j) \in Kinds /\ j \in Ids \cup {0}
        BY KindFacts DEF EndKind
    <2>3. UNCHANGED queue \/ queue' = Append(queue, Frame(EndKind(j), j))
        BY <1>7 DEF Report, Queue
    <2> QED
        BY <2>1, <2>2, <2>3, DeliveryQueued
<1>8. ASSUME NEW j \in Ids, Drop(j)  PROVE DeliveryOf(i)'
    <2>1. /\ UNCHANGED <<queue, hand, writer, ctxDone, queued, nextSeq, wireSeq>>
          /\ (unsubscribed[i] => unsubscribed'[i]) /\ (i \in channels => i \in channels' \/ unsubscribed'[i])
          /\ i # j => pending'[i] = pending[i]
          /\ i = j => unsubscribed'[i] \/ (pending'[i] = pending[i] /\ channels' = channels)
        BY <1>8 DEF Drop, Forgotten, HandlerStep, TypeOK, ChannelType, channelVars
    <2>2. writer' = "write" /\ Holds({"subend"}, i)' => wireSeq[i] > 0
        BY <2>1 DEF DeliveryOf, Holds
    <2> QED
        BY <2>1, <2>2, DeliveryKept DEF SnapAhead, Sending, Holds
<1>9. CASE NextOutbound
    <2>1. UNCHANGED <<channels, ctxDone, nextSeq, wireSeq, queued, unsubscribed, pending>>
          /\ writer = "next"
        BY <1>9 DEF NextOutbound, channelVars, wireVars
    <2>2. CASE queue = <<>>
        <3>1. writer' = "wait" /\ UNCHANGED <<queue, hand>>
            BY <1>9, <2>2 DEF NextOutbound
        <3> QED
            BY <2>1, <3>1, DeliveryKept DEF SnapAhead, Sending, Holds
    <2>3. CASE queue # <<>>
        <3>1. /\ Has(queue, {"snap"}, i) <=> Holds({"snap"}, i)' \/ Has(queue', {"snap"}, i)
              /\ writer' = IF hand'.kind = "snap" THEN "snap" ELSE IF hand'.kind \in ChannelEnds THEN "check" ELSE "write"
            BY <1>9, <2>3, Taken DEF Holds
        <3>2. SnapAhead(i) => SnapAhead(i)'
            BY <2>1, <3>1 DEF SnapAhead, Holds
        <3>3. ~ (writer' = "write" /\ Holds({"subend"}, i)') /\ writer' # "failed"
            BY <3>1, AboutKinds DEF Holds
        <3> QED
            BY <2>1, <3>2, <3>3, DeliveryKept DEF Sending, SnapAhead, Holds
    <2> QED
        BY <2>2, <2>3
<1>10. CASE TakeSnapshot
    <2>1. UNCHANGED <<queue, channels, ctxDone, nextSeq, wireSeq, unsubscribed>>
          /\ writer = "snap" /\ hand.kind = "snap"
        BY <1>10 DEF TakeSnapshot, connectionVars, wireVars, Writing
    <2>2. /\ queued'[i] = IF i = hand.id THEN FALSE ELSE queued[i]
          /\ \/ /\ Live(hand.id) /\ pending[hand.id] # None
                /\ writer' = "write" /\ hand'.kind = hand.kind /\ hand'.id = hand.id
                /\ pending'[i] = IF i = hand.id THEN None ELSE pending[i]
             \/ /\ ~ (Live(hand.id) /\ pending[hand.id] # None)
                /\ writer' = "next" /\ hand' = NoFrame /\ pending' = pending
        BY <1>10, TakesSnapshot
    <2>3. ~ (writer' = "write" /\ Holds({"subend"}, i)') /\ writer' # "failed"
        BY <2>1, <2>2 DEF Holds
    <2>4. CASE i # hand.id
        <3>1. SnapAhead(i) => SnapAhead(i)'
            BY <2>1, <2>4 DEF SnapAhead, Holds
        <3> QED
            BY <2>1, <2>2, <2>3, <2>4, <3>1, DeliveryKept DEF Sending, SnapAhead, Holds
    <2>5. CASE i = hand.id
        <3>1. ~ Sending(i)
            BY <2>1 DEF Sending
        <3>2. CASE Live(i) /\ pending[i] # None
            <4>1. Sending(i)' /\ ~ queued'[i]
                BY <2>1, <2>2, <2>5, <3>2 DEF Sending, Holds
            <4> QED
                BY <2>3, <4>1 DEF DeliveryOf
        <3>3. CASE ~ (Live(i) /\ pending[i] # None)
            <4>1. nextSeq[i] > 0 => wireSeq[i] > 0 \/ unsubscribed[i]
                BY <2>1, <3>1, <3>3 DEF DeliveryOf, Live
            <4>2. ~ queued'[i]
                BY <2>2, <2>5
            <4> QED
                BY <2>1, <2>3, <4>1, <4>2 DEF DeliveryOf
        <3> QED
            BY <3>2, <3>3
    <2> QED
        BY <2>4, <2>5
<1>11. CASE Check
    <2>1. /\ UNCHANGED <<queue, channels, ctxDone, nextSeq, wireSeq, queued, unsubscribed, pending>> /\ writer = "check"
          /\ \/ writer' = "next"
             \/ writer' = "write" /\ UNCHANGED hand /\ ~ unsubscribed[hand.id]
        BY <1>11 DEF Check, CheckUnsubscribed, WriterStep, connectionVars, channelVars, wireVars
    <2>2. ASSUME writer' = "write", Holds({"subend"}, i)'  PROVE wireSeq[i] > 0
        <3>1. Holds({"subend"}, i) /\ ~ unsubscribed[i]
            BY <2>1, <2>2 DEF Holds
        <3>2. nextSeq[i] > 0
            BY <3>1 DEF SourcesOf, OnWay
        <3>3. ~ Has(queue, Abouts, i)
            BY <3>1, AboutKinds DEF OrderOf, Holds
        <3>4. ~ SnapAhead(i)
            <4>1. {"snap"} \subseteq Abouts
                BY AboutKinds
            <4> QED
                BY <2>1, <3>3, <4>1, HasMore DEF SnapAhead
        <3> QED
            BY <2>1, <3>1, <3>2, <3>4 DEF DeliveryOf, Sending
    <2> QED
        BY <2>1, <2>2, DeliveryKept DEF SnapAhead, Sending, Holds
<1>12. CASE Write
    <2>1. /\ UNCHANGED <<queue, channels, ctxDone, nextSeq, queued, unsubscribed, pending>> /\ writer = "write"
          /\ writer' \in {"forget", "next"}
          /\ wireSeq'[i] = IF hand.kind = "snap" /\ i = hand.id THEN hand.seq ELSE wireSeq[i]
        BY <1>12 DEF Write, channelVars
    <2>2. ~ SnapAhead(i) \/ SnapAhead(i)'
        BY <2>1 DEF SnapAhead
    <2>3. wireSeq[i] \in Nat /\ hand.seq \in Nat
        BY Numeric
    <2>4. (wireSeq[i] > 0 \/ Sending(i)) => wireSeq'[i] > 0
        BY <2>1, <2>3 DEF NumbersOf, Sending, Holds
    <2> HIDE DEF SnapAhead, Sending, Holds
    <2> QED
        BY <2>1, <2>2, <2>4 DEF DeliveryOf
<1>13. CASE Forget
    <2>1. /\ UNCHANGED <<queue, ctxDone, nextSeq, wireSeq, queued, unsubscribed, pending>> /\ writer = "forget"
          /\ writer' = "next" /\ channels' = channels \ {hand.id} /\ hand.kind \in ChannelEnds
        BY <1>13 DEF Forget, channelVars, wireVars, Writing
    <2>2. SnapAhead(i) => SnapAhead(i)'
        BY <2>1 DEF SnapAhead
    <2>3. i = hand.id => ~ SnapAhead(i)
        <3>1. i = hand.id => ~ Has(queue, Abouts, i)
            BY <2>1, AboutKinds DEF OrderOf, Holds
        <3>2. {"snap"} \subseteq Abouts
            BY AboutKinds
        <3> QED
            BY <2>1, <3>1, <3>2, HasMore DEF SnapAhead
    <2> QED
        BY <2>1, <2>2, <2>3, DeliveryKept DEF SnapAhead, Sending, Holds
<1>14. CASE WriteFails
    <2>1. UNCHANGED <<queue, ctxDone, queued>> /\ writer \in {"write", "wait"} /\ writer' = "failed"
        BY <1>14 DEF WriteFails, channelVars
    <2>2. SnapAhead(i) => SnapAhead(i)'
        BY <2>1 DEF SnapAhead
    <2> HIDE DEF SnapAhead
    <2> QED
        BY <2>1, <2>2 DEF DeliveryOf
<1>15. CASE WriterWakes
    <2>1. UNCHANGED <<queue, hand, channels, ctxDone, nextSeq, wireSeq, queued, unsubscribed, pending>>
          /\ writer = "wait" /\ writer' = "next"
        BY <1>15 DEF WriterWakes, WriterStep, channelVars, wireVars
    <2> QED
        BY <2>1, DeliveryKept DEF SnapAhead, Sending, Holds
<1>16. CASE WriterStops
    <2>1. UNCHANGED <<queue, hand, channels, ctxDone, nextSeq, wireSeq, queued, unsubscribed, pending>>
          /\ writer = "wait" /\ writer' = "gone"
        BY <1>16 DEF WriterStops, WriterStep, connectionVars, channelVars, wireVars
    <2> QED
        BY <2>1, DeliveryKept DEF SnapAhead, Sending, Holds
<1>17. CASE NoticeProtocolError
    <2>1. UNCHANGED <<writer, hand, channels, ctxDone, nextSeq, wireSeq, queued, unsubscribed, pending>>
        BY <1>17 DEF NoticeProtocolError, channelVars, wireVars, writerVars
    <2>2. "close" \in Kinds /\ 0 \in Ids \cup {0}
        BY DEF Kinds
    <2>3. UNCHANGED queue \/ queue' = Append(queue, Frame("close", 0))
        BY <1>17 DEF NoticeProtocolError, Queue
    <2> QED
        BY <2>1, <2>2, <2>3, DeliveryQueued
<1>18. CASE Cancel
    <2>1. UNCHANGED <<queue, hand, writer, channels, nextSeq, wireSeq, queued, unsubscribed, pending>>
          /\ ctxDone'
        BY <1>18 DEF Cancel, channelVars, wireVars, writerVars
    <2>2. writer' = "write" /\ Holds({"subend"}, i)' => wireSeq[i] > 0
        BY <2>1 DEF DeliveryOf, Holds
    <2> QED
        BY <2>1, <2>2, DeliveryKept DEF SnapAhead, Sending, Holds
<1>19. CASE Drain
    <2>1. /\ UNCHANGED <<hand, writer, ctxDone, nextSeq, wireSeq, queued>> /\ ctxDone
          /\ unsubscribed'[i] = (unsubscribed[i] \/ i \in channels)
        BY <1>19 DEF Drain, DrainAll, ServerStep, wireVars, writerVars, CancelledFirst
    <2>2. /\ Sending(i) => Sending(i)'
          /\ Holds({"subend"}, i)' => Holds({"subend"}, i)
        BY <2>1 DEF Sending, Holds
    <2> HIDE DEF SnapAhead, Sending, Holds
    <2> QED
        BY <2>1, <2>2 DEF DeliveryOf
<1> QED
    BY <1>1, <1>2, <1>3, <1>4, <1>5, <1>6, <1>7, <1>8, <1>9, <1>10, <1>11, <1>12, <1>13,
       <1>14, <1>15, <1>16, <1>17, <1>18, <1>19
    DEF Next, ReaderNext, HandlerNext, WriterNext, ServerNext, ReadSub, ReadResnap,
       ResnapToken, ReadInvalid, ReadError, Open, Fail, Read, Update, Tick, Resnap,
       StopWaiting, Finish, NoticeEnd, CloseWaited, CloseSocket, Join, Change, HandlerStep,
       WriterStep, ServerStep, Receives


(* What AnswersOf adds up. *)
LEMMA AnswerFacts ==
    ASSUME TypeOK, NEW i \in Ids
    PROVE  /\ wireRefused[i] \in Nat /\ misused[i] \in Nat
           /\ IsFiniteSet(Waiting(i)) /\ Cardinality(Waiting(i)) \in Nat
<1>1. wireRefused[i] \in Nat /\ misused[i] \in Nat /\ Len(queue) \in Nat
    BY DEF TypeOK, WireType, ReaderType, ConnectionType
<1>2. IsFiniteSet(1 .. Len(queue)) /\ Waiting(i) \in SUBSET (1 .. Len(queue))
    BY <1>1, FS_Interval DEF Waiting
<1>3. IsFiniteSet(Waiting(i))
    BY <1>2, FS_Subset
<1> QED
    BY <1>1, <1>3, FS_CardinalityType

(* A step that adds no refusal.                                              *)
LEMMA AnswersKept ==
    ASSUME TypeOK, NEW i \in Ids, AnswersOf(i), UNCHANGED <<queue, misused, wireRefused>>,
           Holds({"reused"}, i)' => Holds({"reused"}, i),
           (reader = "reused" /\ subject = i)' => reader = "reused" /\ subject = i
    PROVE  AnswersOf(i)'
<1>1. Waiting(i)' = Waiting(i)
    BY DEF Waiting
<1>2. /\ One(Holds({"reused"}, i))' \in Nat /\ One(Holds({"reused"}, i)) \in Nat
      /\ One(Holds({"reused"}, i))' <= One(Holds({"reused"}, i))
    BY DEF One
<1>3. /\ One(reader = "reused" /\ subject = i)' \in Nat /\ One(reader = "reused" /\ subject = i) \in Nat
      /\ One(reader = "reused" /\ subject = i)' <= One(reader = "reused" /\ subject = i)
    BY DEF One
<1> QED
    BY <1>1, <1>2, <1>3, AnswerFacts DEF AnswersOf

(* A frame more in the queue. *)
LEMMA WaitingQueued ==
    ASSUME TypeOK, NEW i \in Ids, NEW k \in Kinds, NEW j \in Ids \cup {0},
           queue' = Append(queue, Frame(k, j))
    PROVE  Cardinality(Waiting(i)') = Cardinality(Waiting(i)) + One(k = "reused" /\ j = i)
<1>1. /\ queue \in Seq([kind : Kinds, id : Ids \cup {0}]) /\ Len(queue) \in Nat
      /\ Frame(k, j) \in [kind : Kinds, id : Ids \cup {0}] /\ Frame(k, j).kind = k /\ Frame(k, j).id = j
    BY DEF TypeOK, ConnectionType, Frame
<1>2. /\ Len(queue') = Len(queue) + 1
      /\ \A n \in 1 .. Len(queue) : queue'[n] = queue[n]
      /\ queue'[Len(queue) + 1].kind = k /\ queue'[Len(queue) + 1].id = j
    BY <1>1
<1>3. IsFiniteSet(Waiting(i)) /\ Cardinality(Waiting(i)) \in Nat
    BY AnswerFacts
<1>4. CASE k = "reused" /\ j = i
    <2>1. Waiting(i)' = Waiting(i) \cup {Len(queue) + 1} /\ Len(queue) + 1 \notin Waiting(i)
        BY <1>1, <1>2, <1>4 DEF Waiting
    <2> QED
        BY <1>3, <1>4, <2>1, FS_AddElement DEF One
<1>5. CASE ~ (k = "reused" /\ j = i)
    <2>1. Waiting(i)' = Waiting(i)
        BY <1>1, <1>2, <1>5 DEF Waiting
    <2> QED
        BY <1>3, <1>5, <2>1 DEF One
<1> QED
    BY <1>4, <1>5

(* A frame less, which is in the writer's hand. *)
LEMMA WaitingTaken ==
    ASSUME TypeOK, NEW i \in Ids, NextOutbound, queue # <<>>
    PROVE  Cardinality(Waiting(i)') + One(Holds({"reused"}, i))' <= Cardinality(Waiting(i))
<1>1. queue \in Seq([kind : Kinds, id : Ids \cup {0}]) /\ Len(queue) \in Nat \ {0}
    BY DEF TypeOK, ConnectionType
<1>2. queue' = Tail(queue) /\ hand'.kind = Head(queue).kind /\ hand'.id = Head(queue).id
    BY TakesHead
<1>3. /\ Len(queue') = Len(queue) - 1
      /\ \A n \in 1 .. Len(queue') : queue'[n] = queue[n + 1]
      /\ Head(queue) = queue[1]
    BY <1>1, <1>2
<1> DEFINE next == [n \in Waiting(i)' |-> n + 1]
<1>4. Waiting(i)' \subseteq Nat
    BY <1>1, <1>3 DEF Waiting
<1>5. \A n \in Waiting(i)' : n + 1 \in Waiting(i) \ {1}
    BY <1>1, <1>3 DEF Waiting
<1>6. next \in Injection(Waiting(i)', Waiting(i) \ {1})
    <2>1. next \in [Waiting(i)' -> Waiting(i) \ {1}]
        BY <1>5
    <2>2. \A a, b \in Waiting(i)' : next[a] = next[b] => a = b
        BY <1>4
    <2> QED
        BY <2>1, <2>2 DEF Injection, IsInjective
<1>7. IsFiniteSet(Waiting(i)) /\ Cardinality(Waiting(i)) \in Nat
    BY AnswerFacts
<1>8. /\ IsFiniteSet(Waiting(i) \ {1})
      /\ Cardinality(Waiting(i) \ {1}) = IF 1 \in Waiting(i) THEN Cardinality(Waiting(i)) - 1 ELSE Cardinality(Waiting(i))
    BY <1>7, FS_RemoveElement
<1>9. Cardinality(Waiting(i)') <= Cardinality(Waiting(i) \ {1}) /\ Cardinality(Waiting(i)') \in Nat
    BY <1>6, <1>8, FS_Injection, FS_CardinalityType
<1>10. Holds({"reused"}, i)' => 1 \in Waiting(i)
    BY <1>1, <1>2, <1>3 DEF Holds, Waiting
<1> QED
    BY <1>7, <1>8, <1>9, <1>10 DEF One

(* A frame that refuses no id which was not new. *)
LEMMA AnswersQueued ==
    ASSUME TypeOK, NEW i \in Ids, AnswersOf(i), NEW k \in Kinds, NEW j \in Ids \cup {0},
           UNCHANGED queue \/ queue' = Append(queue, Frame(k, j)), k # "reused",
           UNCHANGED <<misused, wireRefused, hand>>,
           (reader = "reused" /\ subject = i)' => reader = "reused" /\ subject = i
    PROVE  AnswersOf(i)'
<1>1. CASE UNCHANGED queue
    BY <1>1, AnswersKept DEF Holds
<1>2. CASE queue' = Append(queue, Frame(k, j))
    <2>1. Cardinality(Waiting(i)') = Cardinality(Waiting(i)) + 0
        BY <1>2, WaitingQueued DEF One
    <2>4. UNCHANGED <<misused, wireRefused>>
        OBVIOUS
    <2>2. One(Holds({"reused"}, i))' = One(Holds({"reused"}, i)) /\ One(Holds({"reused"}, i)) \in Nat
        BY DEF One, Holds
    <2>3. /\ One(reader = "reused" /\ subject = i)' \in Nat /\ One(reader = "reused" /\ subject = i) \in Nat
          /\ One(reader = "reused" /\ subject = i)' <= One(reader = "reused" /\ subject = i)
        BY DEF One
    <2> QED
        BY <2>1, <2>2, <2>3, <2>4, AnswerFacts, SMTT(30) DEF AnswersOf
<1> QED
    BY <1>1, <1>2

(* subscribe answers each use of an id that is not new at most once.         *)
LEMMA AnswersNext ==
    ASSUME TypeOK, Writing, NEW i \in Ids, AnswersOf(i), [Next]_vars
    PROVE  AnswersOf(i)'
<1>1. CASE UNCHANGED <<queue, misused, wireRefused, hand, reader, subject>>
    BY <1>1, AnswersKept DEF Holds
<1>2. ASSUME NEW j \in Ids, NEW decodes \in BOOLEAN, ReadSub(j, decodes)  PROVE AnswersOf(i)'
    <2>1. UNCHANGED <<queue, wireRefused, hand>> /\ reader = "read" /\ subject' = j
        BY <1>2 DEF ReadSub, Receives
    <2>2. CASE j <= lastID
        <3>1. reader' = "reused" /\ misused' = [misused EXCEPT ![j] = @ + 1]
            BY <1>2, <2>2 DEF ReadSub
        <3>2. misused'[i] = misused[i] + One(j = i)
            BY <3>1 DEF TypeOK, ReaderType, One
        <3>3. /\ Waiting(i)' = Waiting(i) /\ One(Holds({"reused"}, i))' = One(Holds({"reused"}, i))
              /\ One(Holds({"reused"}, i)) \in Nat
            BY <2>1 DEF Waiting, One, Holds
        <3>4. One(reader = "reused" /\ subject = i) = 0 /\ One(reader = "reused" /\ subject = i)' = One(j = i)
              /\ One(j = i) \in Nat
            BY <2>1, <3>1 DEF One
        <3> QED
            BY <2>1, <3>2, <3>3, <3>4, AnswerFacts DEF AnswersOf
    <2>3. CASE ~ (j <= lastID)
        <3>1. reader' # "reused" /\ UNCHANGED misused
            BY <1>2, <2>3 DEF ReadSub
        <3> QED
            BY <2>1, <3>1, AnswersKept DEF Holds
    <2> QED
        BY <2>2, <2>3
<1>3. CASE Refuse
    <2>1. UNCHANGED <<misused, wireRefused, hand, subject>> /\ reader \in {"reused", "refused"} /\ reader' # "reused"
        BY <1>3 DEF Refuse
    <2>2. UNCHANGED queue \/ queue' = Append(queue, Frame(reader, subject))
        BY <1>3 DEF Refuse, Queue
    <2>3. CASE UNCHANGED queue
        BY <2>1, <2>3, AnswersKept DEF Holds
    <2>4. CASE queue' = Append(queue, Frame(reader, subject))
        <3>1. reader \in Kinds /\ subject \in Ids \cup {0}
            BY <2>1 DEF Kinds, TypeOK, ReaderType
        <3>2. Cardinality(Waiting(i)') = Cardinality(Waiting(i)) + One(reader = "reused" /\ subject = i)
            BY <2>4, <3>1, WaitingQueued
        <3>3. One(Holds({"reused"}, i))' = One(Holds({"reused"}, i)) /\ One(Holds({"reused"}, i)) \in Nat
            BY <2>1 DEF One, Holds
        <3>4. One(reader = "reused" /\ subject = i)' = 0 /\ One(reader = "reused" /\ subject = i) \in Nat
            BY <2>1 DEF One
        <3> QED
            BY <2>1, <3>2, <3>3, <3>4, AnswerFacts DEF AnswersOf
    <2> QED
        BY <2>2, <2>3, <2>4
<1>4. CASE Register \/ ResnapToken \/ ReadInvalid \/ ReadError
    <2>1. UNCHANGED <<queue, misused, wireRefused, hand, subject>> /\ reader' # "reused"
        BY <1>4 DEF Register, ResnapToken, ReadInvalid, ReadError
    <2> QED
        BY <2>1, AnswersKept DEF Holds
<1>5. ASSUME NEW j \in Ids, ReadUnsub(j) \/ ReadResnap(j)  PROVE AnswersOf(i)'
    <2>1. UNCHANGED <<queue, misused, wireRefused, hand>> /\ reader' # "reused"
        BY <1>5 DEF ReadUnsub, ReadResnap, Receives
    <2> QED
        BY <2>1, AnswersKept DEF Holds
<1>6. CASE ReadPing
    <2>1. UNCHANGED <<misused, wireRefused, hand, subject>> /\ reader' # "reused"
        BY <1>6 DEF ReadPing, Receives
    <2>2. UNCHANGED queue \/ queue' = Append(queue, Frame("pong", 0))
        BY <1>6 DEF ReadPing, Queue
    <2>3. "pong" \in Kinds /\ 0 \in Ids \cup {0} /\ "pong" # "reused"
        BY KindFacts
    <2> QED
        BY <2>1, <2>2, <2>3, AnswersQueued
<1>7. ASSUME NEW j \in Ids, Push(j)  PROVE AnswersOf(i)'
    <2>1. UNCHANGED <<misused, wireRefused, hand, reader, subject>>
        BY <1>7 DEF Push
    <2>2. UNCHANGED queue \/ queue' = Append(queue, Frame("snap", j))
        BY <1>7, Pushes
    <2>3. "snap" \in Kinds /\ j \in Ids \cup {0} /\ "snap" # "reused"
        BY KindFacts
    <2> QED
        BY <2>1, <2>2, <2>3, AnswersQueued
<1>8. ASSUME NEW j \in Ids, Report(j)  PROVE AnswersOf(i)'
    <2>1. UNCHANGED <<misused, wireRefused, hand, reader, subject>>
        BY <1>8 DEF Report
    <2>2. UNCHANGED queue \/ queue' = Append(queue, Frame(EndKind(j), j))
        BY <1>8 DEF Report, Queue
    <2>3. EndKind(j) \in Kinds /\ j \in Ids \cup {0} /\ EndKind(j) # "reused"
        BY KindFacts DEF EndKind
    <2> QED
        BY <2>1, <2>2, <2>3, AnswersQueued
<1>9. CASE NextOutbound
    <2>1. UNCHANGED <<misused, wireRefused, reader, subject>> /\ hand.kind = "none"
        BY <1>9 DEF NextOutbound, Writing
    <2>2. CASE queue = <<>>
        BY <1>9, <2>1, <2>2, TakesHead, AnswersKept DEF Holds
    <2>3. CASE queue # <<>>
        <3>1. Cardinality(Waiting(i)') + One(Holds({"reused"}, i))' <= Cardinality(Waiting(i))
            BY <1>9, <2>3, WaitingTaken
        <3>2. One(Holds({"reused"}, i)) = 0 /\ One(Holds({"reused"}, i))' \in Nat
            BY <2>1 DEF One, Holds
        <3>3. /\ One(reader = "reused" /\ subject = i)' = One(reader = "reused" /\ subject = i)
              /\ One(reader = "reused" /\ subject = i) \in Nat
            BY <2>1 DEF One
        <3>4. Cardinality(Waiting(i)') \in Nat
            <4>1. queue' \in Seq([kind : Kinds, id : Ids \cup {0}])
                <5>1. queue \in Seq([kind : Kinds, id : Ids \cup {0}]) /\ queue' = Tail(queue)
                    BY <1>9, <2>3, TakesHead DEF TypeOK, ConnectionType
                <5> QED
                    BY <2>3, <5>1
            <4>2. Len(queue') \in Nat
                BY <4>1
            <4>3. IsFiniteSet(1 .. Len(queue'))
                BY <4>2, FS_Interval
            <4>4. Waiting(i)' \subseteq 1 .. Len(queue')
                BY DEF Waiting
            <4> QED
                BY <4>3, <4>4, FS_Subset, FS_CardinalityType
        <3> QED
            BY <2>1, <3>1, <3>2, <3>3, <3>4, AnswerFacts DEF AnswersOf
    <2> QED
        BY <2>2, <2>3
<1>10. CASE TakeSnapshot
    <2>1. UNCHANGED <<queue, misused, wireRefused, reader, subject>> /\ hand.kind = "snap"
        BY <1>10 DEF TakeSnapshot, Writing
    <2>2. hand'.kind # "reused"
        <3>1. \/ hand'.kind = hand.kind
              \/ hand' = NoFrame
            BY <1>10, TakesSnapshot
        <3> QED
            BY <2>1, <3>1 DEF NoFrame
    <2> QED
        BY <2>1, <2>2, AnswersKept DEF Holds
<1>11. CASE Check \/ Forget \/ WriteFails
    <2>1. UNCHANGED <<queue, misused, wireRefused, reader, subject>> /\ (UNCHANGED hand \/ hand' = NoFrame)
        BY <1>11 DEF Check, CheckUnsubscribed, WriterStep, Forget, WriteFails
    <2> QED
        BY <2>1, AnswersKept DEF Holds, NoFrame
<1>12. CASE Write
    <2>1. /\ UNCHANGED <<queue, misused, reader, subject>>
          /\ wireRefused'[i] = IF hand.kind = "reused" /\ i = hand.id THEN wireRefused[i] + 1 ELSE wireRefused[i]
          /\ hand' = IF hand.kind \in ChannelEnds THEN hand ELSE NoFrame
        BY <1>12 DEF Write
    <2>2. wireRefused'[i] = wireRefused[i] + One(Holds({"reused"}, i)) /\ One(Holds({"reused"}, i))' = 0
        BY <2>1, AnswerFacts, AboutKinds DEF One, Holds, NoFrame
    <2>3. /\ Waiting(i)' = Waiting(i)
          /\ One(reader = "reused" /\ subject = i)' = One(reader = "reused" /\ subject = i)
          /\ One(reader = "reused" /\ subject = i) \in Nat /\ One(Holds({"reused"}, i)) \in Nat
        BY <2>1 DEF Waiting, One
    <2> QED
        BY <2>1, <2>2, <2>3, AnswerFacts DEF AnswersOf
<1>13. CASE WriterWakes \/ WriterStops
    BY <1>13, AnswersKept DEF WriterWakes, WriterStops, WriterStep, Holds
<1>14. CASE NoticeProtocolError
    <2>1. UNCHANGED <<misused, wireRefused, hand, reader, subject>>
        BY <1>14 DEF NoticeProtocolError
    <2>2. UNCHANGED queue \/ queue' = Append(queue, Frame("close", 0))
        BY <1>14 DEF NoticeProtocolError, Queue
    <2>3. "close" \in Kinds /\ 0 \in Ids \cup {0} /\ "close" # "reused"
        BY KindFacts
    <2> QED
        BY <2>1, <2>2, <2>3, AnswersQueued
<1>15. CASE Drain
    <2>1. UNCHANGED <<misused, wireRefused, hand, reader, subject>> /\ queue' = <<>>
        BY <1>15 DEF Drain, DrainAll
    <2>2. Waiting(i)' = {}
        BY <2>1 DEF Waiting
    <2>3. Cardinality(Waiting(i)') = 0
        BY <2>2, FS_EmptySet
    <2>4. /\ One(Holds({"reused"}, i))' = One(Holds({"reused"}, i)) /\ One(Holds({"reused"}, i)) \in Nat
          /\ One(reader = "reused" /\ subject = i)' = One(reader = "reused" /\ subject = i)
          /\ One(reader = "reused" /\ subject = i) \in Nat
        BY <2>1 DEF One, Holds
    <2> QED
        BY <2>1, <2>3, <2>4, AnswerFacts, SMTT(30) DEF AnswersOf
<1> QED
    BY <1>1, <1>2, <1>3, <1>4, <1>5, <1>6, <1>7, <1>8, <1>9, <1>10, <1>11, <1>12, <1>13,
       <1>14, <1>15
    DEF Next, ReaderNext, HandlerNext, WriterNext, ServerNext, Open, Fail, Read, Update, Tick,
       Resnap, StopWaiting, Finish, Drop, NoticeEnd, CloseWaited, Cancel, CloseSocket, Join, Change

(* The story of every subscription is kept.                                  *)
LEMMA StoryInit == Init => Story
<1> SUFFICES ASSUME Init PROVE Writing /\ \A i \in Ids : StoryOf(i)
    BY DEF Story
<1>0. Writing
    BY DEF Init, NoFrame, Writing
<1> SUFFICES ASSUME NEW i \in Ids PROVE StoryOf(i)
    BY <1>0
<1>1. i \in Nat \ {0} /\ 0 \in Versions
    BY StateSocketAssumption DEF Versions
<1>2. /\ wireSeq[i] = 0 /\ wireVersion[i] = 0 /\ wireOver[i] = "no" /\ nextSeq[i] = 0
      /\ pending[i] = None /\ value[i] = None /\ ~ queued[i] /\ handler[i] = "none"
      /\ writer = "next" /\ hand = NoFrame /\ reader = "read" /\ version = 0 /\ queue = <<>> /\ lastID = 0
    BY DEF Init
<1>3. hand.kind = "none"
    BY <1>2 DEF NoFrame
<1>4. \A K : ~ Has(queue, K, i)
    BY <1>2, EmptyHasNone
<1>5. ~ OnWay(Verdicts, i) /\ ~ OnWay({"suberr", "refused"}, i) /\ ~ OnWay({"subend"}, i) /\ ~ Holds(Verdicts, i) /\ ~ Sending(i)
    BY <1>2, <1>3, <1>4, AboutKinds DEF OnWay, Holds, Sending
<1>7. NumbersOf(i) /\ VersionsOf(i)
    BY <1>2, <1>5 DEF NumbersOf, VersionsOf
<1>8. OrderOf(i)
    BY <1>2, <1>5, EmptyHasNone DEF OrderOf
<1>9. SourcesOf(i)
    BY <1>2, <1>5 DEF SourcesOf, Told
<1>10. DeliveryOf(i)
    BY <1>2 DEF DeliveryOf
<1>11. AnswersOf(i)
    <2>1. wireRefused[i] = 0 /\ misused[i] = 0 /\ ~ Holds({"reused"}, i)
        BY <1>2, <1>3 DEF Init, Holds
    <2>2. Waiting(i) = {}
        BY <1>2 DEF Waiting
    <2>3. Cardinality(Waiting(i)) = 0
        BY <2>2, FS_EmptySet
    <2> QED
        BY <1>2, <2>1, <2>3 DEF AnswersOf, One
<1> QED
    BY <1>7, <1>8, <1>9, <1>10, <1>11 DEF StoryOf

(* Every step keeps the story.                                               *)
LEMMA StoryNext == Safe /\ Story /\ [Next]_vars => Story'
<1> SUFFICES ASSUME Safe, Story, [Next]_vars PROVE Writing' /\ \A i \in Ids : StoryOf(i)'
    BY DEF Story
<1>1. TypeOK /\ Reading /\ CancelledFirst
    BY DEF Safe
<1>0. Writing /\ Writing'
    BY <1>1, WritingNext DEF Story
<1> SUFFICES ASSUME NEW i \in Ids PROVE StoryOf(i)'
    BY <1>0
<1>2. NumbersOf(i) /\ VersionsOf(i) /\ OrderOf(i) /\ SourcesOf(i) /\ DeliveryOf(i) /\ AnswersOf(i)
    BY DEF Story, StoryOf
<1>3. NumbersOf(i)' /\ VersionsOf(i)' /\ OrderOf(i)' /\ SourcesOf(i)' /\ DeliveryOf(i)' /\ AnswersOf(i)'
    BY <1>0, <1>1, <1>2, NumbersNext, VersionsNext, OrderNext, SourcesNext, DeliveryNext, AnswersNext
<1> QED
    BY <1>3 DEF StoryOf

(* The client's own steps in the protocol are the messages subscribe reads.  *)
LEMMA SubscribesNext ==
    ASSUME TypeOK, NEW i \in Ids, NEW decodes \in BOOLEAN, ReadSub(i, decodes)
    PROVE  Protocol!Next
<1>1. UNCHANGED wireVars /\ i \in Nat /\ lastID \in Nat
    BY NumberFacts DEF ReadSub, TypeOK, ConnectionType
<1>2. CASE i <= lastID
    BY <1>1, <1>2 DEF ReadSub, Protocol!Misuse, Protocol!Next
<1>3. CASE ~ (i <= lastID)
    BY <1>1, <1>3 DEF ReadSub, Protocol!Subscribe, Protocol!Next
<1> QED
    BY <1>2, <1>3

(* websocketWriter.Write is the only step of the server that the client      *)
(* sees, and what it sends is the next thing the client may be told.         *)
LEMMA SendsNextWord ==
    ASSUME Safe, Story, Write
    PROVE  Protocol!Next \/ UNCHANGED <<lastID, misused, wireVars>>
<1> USE DEF wireVars
<1>0. UNCHANGED <<lastID, misused>>
    BY DEF Write
<1>1. /\ writer = "write"
      /\ wireSeq' = [i \in Ids |-> IF hand.kind = "snap" /\ i = hand.id THEN hand.seq ELSE wireSeq[i]]
      /\ wireVersion' = [i \in Ids |-> IF hand.kind = "snap" /\ i = hand.id THEN hand.version ELSE wireVersion[i]]
      /\ wireOver' = [i \in Ids |-> IF i # hand.id THEN wireOver[i]
                                    ELSE IF hand.kind \in ChannelEnds THEN hand.kind
                                    ELSE IF hand.kind = "refused" THEN "suberr" ELSE wireOver[i]]
      /\ wireRefused' = [i \in Ids |-> IF hand.kind = "reused" /\ i = hand.id
                                       THEN wireRefused[i] + 1 ELSE wireRefused[i]]
    BY DEF Write
<1>2. TypeOK /\ Ends
    BY DEF Safe
<1>3. /\ wireSeq \in [Ids -> Nat] /\ wireVersion \in [Ids -> Versions \cup {None}]
      /\ wireOver \in [Ids -> {"no"} \cup ChannelEnds] /\ wireRefused \in [Ids -> Nat]
    BY <1>2 DEF TypeOK, WireType
<1>4. CASE hand.id \notin Ids \/ hand.kind \notin Abouts \cup {"reused"}
    <2>1. wireSeq' = wireSeq /\ wireVersion' = wireVersion /\ wireOver' = wireOver /\ wireRefused' = wireRefused
        BY <1>1, <1>3, <1>4, AboutKinds
    <2> QED
        BY <1>0, <2>1
<1>6. CASE hand.id \in Ids /\ hand.kind = "reused"
    <2> DEFINE j == hand.id
    <2>1. wireSeq' = wireSeq /\ wireVersion' = wireVersion /\ wireOver' = wireOver
        BY <1>1, <1>3, <1>6, AboutKinds
    <2>2. wireRefused' = [wireRefused EXCEPT ![j] = @ + 1]
        BY <1>1, <1>3, <1>6
    <2>3. wireRefused[j] < misused[j]
        <3>1. AnswersOf(j)
            BY <1>6 DEF Story, StoryOf
        <3>2. One(Holds({"reused"}, j)) = 1 /\ One(reader = "reused" /\ subject = j) \in Nat
            BY <1>6 DEF One, Holds
        <3> QED
            BY <1>2, <1>6, <3>1, <3>2, AnswerFacts DEF AnswersOf
    <2>4. Protocol!Refuse(j)
        BY <1>0, <2>1, <2>2, <2>3 DEF Protocol!Refuse
    <2> QED
        BY <1>6, <2>4 DEF Protocol!Next
<1>5. CASE hand.id \in Ids /\ hand.kind \in Abouts
    <2> DEFINE j == hand.id
    <2>1. NumbersOf(j) /\ VersionsOf(j) /\ OrderOf(j) /\ SourcesOf(j) /\ DeliveryOf(j)
        BY <1>5 DEF Story, StoryOf
    <2>2. wireOver[j] = "no"
        BY <1>1, <1>5, <2>1 DEF OrderOf, Holds
    <2>3. /\ wireSeq[j] \in Nat /\ nextSeq[j] \in Nat /\ hand.seq \in Nat /\ version \in Nat /\ hand.version \in Int
        BY <1>2, <1>5, Numeric
    <2>7. UNCHANGED wireRefused
        BY <1>1, <1>3, <1>5, AboutKinds
    <2>8. j <= lastID
        <3>1. CASE hand.kind = "snap"
            <4>1. Sending(j)
                BY <1>1, <3>1 DEF Sending, Holds
            <4>2. nextSeq[j] # 0
                BY <2>1, <2>3, <4>1 DEF NumbersOf
            <4> QED
                BY <2>1, <4>2 DEF SourcesOf
        <3>2. CASE hand.kind \in Verdicts
            BY <2>1, <3>2 DEF SourcesOf, Told, OnWay, Holds
        <3> QED
            BY <1>5, <3>1, <3>2, AboutKinds
    <2>6. MaxVersion \in Nat /\ version \in 0 .. MaxVersion
        BY <1>2, StateSocketAssumption DEF TypeOK, ServerType, Versions
    <2>4. CASE hand.kind = "snap"
        <3>1. Sending(j)
            BY <1>1, <2>4 DEF Sending, Holds
        <3>2. wireSeq[j] < hand.seq /\ hand.version \in wireVersion[j] .. version /\ wireVersion[j] \in 0 .. version
            BY <2>1, <3>1 DEF NumbersOf, VersionsOf
        <3>3. hand.version \in wireVersion[j] .. MaxVersion
            BY <2>3, <2>6, <3>2
        <3>4. wireSeq'[j] = hand.seq /\ wireVersion'[j] = hand.version
            BY <1>1, <1>5, <2>4
        <3>5. wireOver' = wireOver
            BY <1>1, <1>3, <2>4, AboutKinds
        <3>6. wireSeq' = [wireSeq EXCEPT ![j] = hand.seq] /\ wireVersion' = [wireVersion EXCEPT ![j] = hand.version]
            BY <1>1, <1>3, <2>4
        <3>7. Protocol!Snap(j)
            BY <1>0, <2>2, <2>3, <2>7, <2>8, <3>2, <3>3, <3>4, <3>5, <3>6 DEF Protocol!Snap
        <3> QED
            BY <1>5, <3>7 DEF Protocol!Next
    <2>5. CASE hand.kind \in Verdicts
        <3>1. wireSeq' = wireSeq /\ wireVersion' = wireVersion
            BY <1>1, <1>3, <2>5, AboutKinds
        <3>2. CASE hand.kind = "subend"
            <4>1. wireSeq[j] > 0
                BY <1>1, <2>1, <3>2 DEF DeliveryOf, Holds
            <4>2. wireOver' = [wireOver EXCEPT ![j] = "subend"]
                BY <1>1, <1>3, <3>2, AboutKinds
            <4>3. Protocol!SubEnd(j)
                BY <1>0, <2>2, <2>7, <2>8, <3>1, <4>1, <4>2 DEF Protocol!SubEnd
            <4> QED
                BY <1>5, <4>3 DEF Protocol!Next
        <3>3. CASE hand.kind \in {"suberr", "refused"}
            <4>1. nextSeq[j] = 0
                BY <2>1, <3>3 DEF SourcesOf, OnWay, Holds
            <4>2. wireSeq[j] = 0
                BY <2>1, <2>3, <4>1 DEF NumbersOf
            <4>3. wireOver' = [wireOver EXCEPT ![j] = "suberr"]
                BY <1>1, <1>3, <3>3, AboutKinds
            <4>4. Protocol!SubErr(j)
                BY <1>0, <2>2, <2>7, <2>8, <3>1, <4>2, <4>3 DEF Protocol!SubErr
            <4> QED
                BY <1>5, <4>4 DEF Protocol!Next
        <3> QED
            BY <2>5, <3>2, <3>3, AboutKinds
    <2> QED
        BY <1>5, <2>4, <2>5, AboutKinds
<1> QED
    BY <1>4, <1>5, <1>6

(* Every other step is a stutter of the protocol.                            *)
LEMMA OnlyWritesAreSeen ==
    ASSUME [Next]_vars, ~ Write, \A i \in Ids, decodes \in BOOLEAN : ~ ReadSub(i, decodes)
    PROVE  UNCHANGED <<lastID, misused, wireVars>>
<1>1. CASE UNCHANGED vars
    BY <1>1
<1>3. CASE Refuse
    BY <1>3 DEF Refuse
<1>4. CASE Register
    BY <1>4 DEF Register
<1>5. ASSUME NEW i \in Ids, ReadUnsub(i)  PROVE UNCHANGED <<lastID, misused, wireVars>>
    BY <1>5 DEF ReadUnsub
<1>6. ASSUME NEW i \in Ids, ReadResnap(i)  PROVE UNCHANGED <<lastID, misused, wireVars>>
    BY <1>6 DEF ReadResnap
<1>7. CASE ResnapToken
    BY <1>7 DEF ResnapToken
<1>8. CASE ReadPing
    BY <1>8 DEF ReadPing
<1>9. CASE ReadInvalid
    BY <1>9 DEF ReadInvalid
<1>10. CASE ReadError
    BY <1>10 DEF ReadError
<1>11. ASSUME NEW i \in Ids, Open(i)  PROVE UNCHANGED <<lastID, misused, wireVars>>
    BY <1>11 DEF Open
<1>12. ASSUME NEW i \in Ids, Fail(i)  PROVE UNCHANGED <<lastID, misused, wireVars>>
    BY <1>12 DEF Fail
<1>13. ASSUME NEW i \in Ids, Read(i)  PROVE UNCHANGED <<lastID, misused, wireVars>>
    BY <1>13 DEF Read
<1>14. ASSUME NEW i \in Ids, Push(i)  PROVE UNCHANGED <<lastID, misused, wireVars>>
    BY <1>14 DEF Push
<1>15. ASSUME NEW i \in Ids, Update(i)  PROVE UNCHANGED <<lastID, misused, wireVars>>
    BY <1>15 DEF Update
<1>16. ASSUME NEW i \in Ids, Tick(i)  PROVE UNCHANGED <<lastID, misused, wireVars>>
    BY <1>16 DEF Tick
<1>17. ASSUME NEW i \in Ids, Resnap(i)  PROVE UNCHANGED <<lastID, misused, wireVars>>
    BY <1>17 DEF Resnap
<1>18. ASSUME NEW i \in Ids, StopWaiting(i)  PROVE UNCHANGED <<lastID, misused, wireVars>>
    BY <1>18 DEF StopWaiting
<1>19. ASSUME NEW i \in Ids, Finish(i)  PROVE UNCHANGED <<lastID, misused, wireVars>>
    BY <1>19 DEF Finish
<1>20. ASSUME NEW i \in Ids, Report(i)  PROVE UNCHANGED <<lastID, misused, wireVars>>
    BY <1>20 DEF Report
<1>21. ASSUME NEW i \in Ids, Drop(i)  PROVE UNCHANGED <<lastID, misused, wireVars>>
    BY <1>21 DEF Drop
<1>22. CASE NextOutbound
    BY <1>22 DEF NextOutbound
<1>23. CASE TakeSnapshot
    BY <1>23 DEF TakeSnapshot
<1>24. CASE Check
    BY <1>24 DEF Check
<1>25. CASE Forget
    BY <1>25 DEF Forget
<1>26. CASE WriteFails
    BY <1>26 DEF WriteFails
<1>27. CASE WriterWakes
    BY <1>27 DEF WriterWakes
<1>28. CASE WriterStops
    BY <1>28 DEF WriterStops
<1>29. CASE NoticeProtocolError
    BY <1>29 DEF NoticeProtocolError
<1>30. CASE NoticeEnd
    BY <1>30 DEF NoticeEnd
<1>31. CASE CloseWaited
    BY <1>31 DEF CloseWaited
<1>32. CASE Cancel
    BY <1>32 DEF Cancel
<1>33. CASE Drain
    BY <1>33 DEF Drain
<1>34. CASE CloseSocket
    BY <1>34 DEF CloseSocket
<1>35. CASE Join
    BY <1>35 DEF Join
<1>36. CASE Change
    BY <1>36 DEF Change
<1> QED
    BY <1>1, <1>3, <1>4, <1>5, <1>6, <1>7, <1>8, <1>9, <1>10, <1>11, <1>12, <1>13,
       <1>14, <1>15, <1>16, <1>17, <1>18, <1>19, <1>20, <1>21, <1>22, <1>23, <1>24, <1>25,
       <1>26, <1>27, <1>28, <1>29, <1>30, <1>31, <1>32, <1>33, <1>34, <1>35, <1>36 DEF Next, ReaderNext, HandlerNext, WriterNext, ServerNext

(* What a client is told about each subscription, whatever the interleaving  *)
(* of its handler, the reader and the writer: numbers that grow, a state     *)
(* never older than the one shown before, subend only after a snapshot and   *)
(* suberr only instead of one, nothing after either but one answer to each   *)
(* further use of the id.                                                    *)
THEOREM ImplementsProtocol == Spec => ProtocolSpec
<1>1. Init => Protocol!Init
    BY DEF Init, Protocol!Init
<1>2. Safe /\ Story /\ [Next]_vars => [Protocol!Next]_(Protocol!protocolVars)
    BY SendsNextWord, SubscribesNext, OnlyWritesAreSeen DEF Safe, Protocol!protocolVars
<1>3. Spec => []Story
    BY StoryInit, StoryNext, AlwaysSafe, PTL DEF Spec
<1> QED
    BY <1>1, <1>2, <1>3, AlwaysSafe, PTL DEF Spec, ProtocolSpec, Protocol!Spec
------------------------------------------------------------------------------
(* What a sleeping writer leaves unsaid.                                     *)

(* A handler knows the state or has a token that says it changed.            *)
ReadsOf(i) ==
    /\ handler[i] = "push" /\ ~dirty[i] => value[i] = version
    /\ handler[i] = "wait" /\ ~dirty[i] => lastPayload[i] # None /\ Payload[lastPayload[i]] = Payload[version]
(* What a handler queued last is pending with a frame ahead of the writer,   *)
(* in the writer's hand, or what the client was sent last.                   *)
LatestOf(i) ==
    /\ handler[i] = "none" => lastPayload[i] = None
    /\ lastPayload[i] # None /\ i \in channels /\ writer # "failed" =>
          /\ pending[i] # None => pending[i] = lastPayload[i] /\ SnapAhead(i)
          /\ pending[i] = None /\ Sending(i) => hand.version = lastPayload[i]
          /\ pending[i] = None /\ ~ Sending(i) => wireVersion[i] = lastPayload[i] /\ wireSeq[i] > 0
(* A resnap leaves its token once the flag is up.                            *)
ForcedOf(i) == forceNext[i] /\ handler[i] = "wait" => resnap[i] \/ (reader = "token" /\ subject = i)
(* The verdict on a handler that has reported its end is on its way or on    *)
(* the wire, unless the client gave the channel up.                          *)
Reported(i) ==
    \/ unsubscribed[i]
    \/ OnWay(ChannelEnds, i) \/ wireOver[i] # "no"
    \/ ctxDone \/ writer = "failed"
EndOf(i) ==
    /\ handler[i] = "done" => Reported(i)
    /\ writer = "forget" /\ hand.id = i => wireOver[i] # "no"
NewsOf(i) == ReadsOf(i) /\ LatestOf(i) /\ ForcedOf(i) /\ EndOf(i)
News == \A i \in Ids : NewsOf(i)

(* queueSnapshot remembers what it queued and that it was forced to.         *)
LEMMA PushRemembers ==
    ASSUME TypeOK, NEW j \in Ids, Push(j), NEW i \in Ids
    PROVE  /\ handler[j] = "push" /\ handler'[j] \in {"wait", "finish"}
           /\ i # j => /\ handler'[i] = handler[i] /\ value'[i] = value[i]
                       /\ lastPayload'[i] = lastPayload[i] /\ forceNext'[i] = forceNext[i]
           /\ \/ /\ UNCHANGED <<queue, channelVars>>
                 /\ handler'[j] = "wait" => ~forceNext[j] /\ SamePayload(j, value[j])
              \/ lastPayload'[j] = value[j] /\ ~forceNext'[j]
<1>1. handler[j] = "push" /\ value' = [value EXCEPT ![j] = None]
    BY DEF Push
<1>2. \/ /\ UNCHANGED <<queue, channelVars>>
         /\ \/ handler' = [handler EXCEPT ![j] = "finish"]
            \/ handler' = [handler EXCEPT ![j] = "wait"] /\ Skips(j)
      \/ handler' = [handler EXCEPT ![j] = "wait"] /\ SnapshotQueued(j)
    BY DEF Push
<1>3. CASE UNCHANGED <<queue, channelVars>> /\ handler' = [handler EXCEPT ![j] = "finish"]
    BY <1>1, <1>3 DEF TypeOK, HandlerType
<1>4. CASE UNCHANGED <<queue, channelVars>> /\ handler' = [handler EXCEPT ![j] = "wait"] /\ Skips(j)
    BY <1>1, <1>4 DEF TypeOK, HandlerType, Skips
<1>5. CASE handler' = [handler EXCEPT ![j] = "wait"] /\ SnapshotQueued(j)
    <2>1. /\ forceNext' = [forceNext EXCEPT ![j] = FALSE]
          /\ lastPayload' = [lastPayload EXCEPT ![j] = value[j]]
        BY <1>5 DEF SnapshotQueued
    <2>2. lastPayload'[j] = value[j] /\ (i # j => lastPayload'[i] = lastPayload[i])
        BY <2>1 DEF TypeOK, ChannelType
    <2>3. ~forceNext'[j] /\ (i # j => forceNext'[i] = forceNext[i])
        BY <2>1, Zenon DEF TypeOK, ChannelType
    <2> QED
        BY <1>1, <1>5, <2>2, <2>3 DEF TypeOK, HandlerType
<1> QED
    BY <1>2, <1>3, <1>4, <1>5

(* A handler misses no change. *)
LEMMA ReadsNext ==
    ASSUME TypeOK, Reading, NEW i \in Ids, SourcesOf(i), ReadsOf(i), [Next]_vars
    PROVE  ReadsOf(i)'
<1>1. CASE UNCHANGED <<handler, dirty, value, version, lastPayload>>
    BY <1>1 DEF ReadsOf
<1>2. CASE Register
    <2>1. UNCHANGED <<dirty, value, version, lastPayload>>
          /\ (handler' = handler \/ handler' = [handler EXCEPT ![subject] = "open"])
        BY <1>2 DEF Register
    <2> QED
        BY <2>1 DEF ReadsOf, TypeOK, HandlerType
<1>3. ASSUME NEW j \in Ids,
             Open(j) \/ Fail(j) \/ Tick(j) \/ Resnap(j) \/ StopWaiting(j) \/ Finish(j) \/ Report(j) \/ Drop(j)
      PROVE  ReadsOf(i)'
    <2>1. UNCHANGED <<dirty, value, version, lastPayload>>
        BY <1>3 DEF Open, Fail, Tick, Resnap, StopWaiting, Finish, Report, Drop
    <2>2. \E to \in {"read", "finish", "report", "done", "drop", "dropped"} : handler' = [handler EXCEPT ![j] = to]
        BY <1>3 DEF Open, Fail, Tick, Resnap, StopWaiting, Finish, Report, Drop, HandlerStep
    <2> QED
        BY <2>1, <2>2 DEF ReadsOf, TypeOK, HandlerType
<1>4. ASSUME NEW j \in Ids, Read(j)  PROVE ReadsOf(i)'
    BY <1>4 DEF Read, HandlerStep, ReadsOf, TypeOK, HandlerType
<1>5. ASSUME NEW j \in Ids, Push(j)  PROVE ReadsOf(i)'
    <2>1. UNCHANGED <<dirty, version>>
        BY <1>5 DEF Push
    <2>2. CASE i # j
        BY <1>5, <2>1, <2>2, PushRemembers DEF ReadsOf
    <2>3. CASE i = j
        <3>1. /\ handler[i] = "push" /\ handler'[i] \in {"wait", "finish"} /\ value[i] # None
              /\ \/ lastPayload' = lastPayload /\ (handler'[i] = "wait" => SamePayload(i, value[i]))
                 \/ lastPayload'[i] = value[i]
            BY <1>5, <2>3, PushRemembers DEF SourcesOf
        <3> QED
            BY <2>1, <3>1 DEF ReadsOf, SamePayload
    <2> QED
        BY <2>2, <2>3
<1>6. ASSUME NEW j \in Ids, Update(j)  PROVE ReadsOf(i)'
    <2>1. UNCHANGED <<value, version, lastPayload>> /\ handler' = [handler EXCEPT ![j] = "read"]
          /\ dirty' = [dirty EXCEPT ![j] = FALSE]
        BY <1>6 DEF Update, HandlerStep
    <2>2. i # j => dirty'[i] = dirty[i] /\ handler'[i] = handler[i]
        BY <2>1, Zenon DEF TypeOK, HandlerType
    <2>3. i = j => handler'[i] = "read"
        BY <2>1, Zenon DEF TypeOK, HandlerType
    <2> QED
        BY <2>1, <2>2, <2>3 DEF ReadsOf
<1>7. CASE Change
    <2>1. UNCHANGED <<handler, value, lastPayload>>
        BY <1>7 DEF Change
    <2>2. dirty'[i] = (dirty[i] \/ handler[i] \in {"read", "push", "wait"})
        BY <1>7, Zenon DEF Change
    <2>3. handler[i] \in {"push", "wait"} => dirty'[i]
        BY <2>2
    <2> QED
        BY <2>1, <2>3 DEF ReadsOf
<1> QED
    BY <1>1, <1>2, <1>3, <1>4, <1>5, <1>6, <1>7
    DEF Next, ReaderNext, HandlerNext, WriterNext, ServerNext, ReadSub, Refuse, ReadUnsub,
       ReadResnap, ResnapToken, ReadPing, ReadInvalid, ReadError, NextOutbound, TakeSnapshot, Check,
       Write, Forget, WriteFails, WriterWakes, WriterStops, NoticeProtocolError, NoticeEnd, CloseWaited,
       Cancel, Drain, CloseSocket, Join, WriterStep, ServerStep, Receives

(* A flag that is up has its token underway while the handler sleeps. *)
LEMMA ForcedNext ==
    ASSUME TypeOK, NEW i \in Ids, ForcedOf(i), [Next]_vars
    PROVE  ForcedOf(i)'
<1>1. CASE UNCHANGED <<forceNext, handler, resnap, reader, subject>>
    BY <1>1 DEF ForcedOf
<1>2. ASSUME NEW j \in Ids, NEW decodes \in BOOLEAN, ReadSub(j, decodes)  PROVE ForcedOf(i)'
    BY <1>2 DEF ReadSub, Receives, ForcedOf
<1>3. CASE Refuse \/ ReadPing \/ ReadInvalid \/ ReadError
    BY <1>3 DEF Refuse, ReadPing, ReadInvalid, ReadError, Receives, ForcedOf
<1>4. CASE Register
    <2>1. UNCHANGED <<forceNext, resnap>> /\ reader = "register"
          /\ (handler' = handler \/ handler' = [handler EXCEPT ![subject] = "open"])
        BY <1>4 DEF Register
    <2> QED
        BY <2>1 DEF ForcedOf, TypeOK, HandlerType
<1>5. ASSUME NEW j \in Ids, ReadResnap(j)  PROVE ForcedOf(i)'
    <2>1. UNCHANGED <<handler, resnap>> /\ reader = "read" /\ reader' = "token" /\ subject' = j
          /\ forceNext' = [forceNext EXCEPT ![j] = TRUE]
        BY <1>5 DEF ReadResnap, Receives
    <2>2. i # j => forceNext'[i] = forceNext[i]
        BY <2>1, Zenon DEF TypeOK, ChannelType
    <2> QED
        BY <2>1, <2>2 DEF ForcedOf
<1>6. CASE ResnapToken
    <2>1. UNCHANGED <<handler, forceNext>> /\ resnap' = [resnap EXCEPT ![subject] = TRUE]
        BY <1>6 DEF ResnapToken
    <2>2. resnap'[i] = IF i = subject THEN TRUE ELSE resnap[i]
        BY <2>1, Zenon DEF TypeOK, ChannelType
    <2> QED
        BY <2>1, <2>2 DEF ForcedOf
<1>7. ASSUME NEW j \in Ids,
             \/ Open(j) \/ Fail(j) \/ Read(j) \/ Tick(j) \/ Update(j)
             \/ StopWaiting(j) \/ Finish(j) \/ Report(j) \/ Drop(j)
      PROVE  ForcedOf(i)'
    <2>1. UNCHANGED <<forceNext, resnap, reader, subject>>
        BY <1>7 DEF Open, Fail, Read, Tick, Update, StopWaiting, Finish, Report, Drop
    <2>2. \E to \in {"read", "push", "finish", "report", "done", "drop", "dropped"} : handler' = [handler EXCEPT ![j] = to]
        BY <1>7 DEF Open, Fail, Read, Tick, Update, StopWaiting, Finish, Report, Drop, HandlerStep
    <2> QED
        BY <2>1, <2>2 DEF ForcedOf, TypeOK, HandlerType
<1>8. ASSUME NEW j \in Ids, Push(j)  PROVE ForcedOf(i)'
    <2>1. UNCHANGED <<resnap, reader, subject>>
        BY <1>8 DEF Push
    <2>2. CASE i # j
        BY <1>8, <2>1, <2>2, PushRemembers DEF ForcedOf
    <2>3. CASE i = j
        <3>1. handler'[i] = "wait" => ~forceNext'[i]
            BY <1>8, <2>3, PushRemembers
        <3> QED
            BY <3>1 DEF ForcedOf
    <2> QED
        BY <2>2, <2>3
<1>9. ASSUME NEW j \in Ids, Resnap(j)  PROVE ForcedOf(i)'
    <2>1. UNCHANGED <<forceNext, reader, subject>> /\ handler' = [handler EXCEPT ![j] = "read"]
          /\ resnap' = [resnap EXCEPT ![j] = FALSE]
        BY <1>9 DEF Resnap, HandlerStep
    <2>2. i # j => resnap'[i] = resnap[i] /\ handler'[i] = handler[i]
        BY <2>1, Zenon DEF TypeOK, HandlerType, ChannelType
    <2>3. i = j => handler'[i] = "read"
        BY <2>1, Zenon DEF TypeOK, HandlerType
    <2> QED
        BY <2>1, <2>2, <2>3 DEF ForcedOf
<1> QED
    BY <1>1, <1>2, <1>3, <1>4, <1>5, <1>6, <1>7, <1>8, <1>9
    DEF Next, ReaderNext, HandlerNext, WriterNext, ServerNext, ReadUnsub,
       NextOutbound, TakeSnapshot, Check, Write, Forget, WriteFails, WriterWakes, WriterStops,
       NoticeProtocolError, NoticeEnd, CloseWaited, Cancel, Drain, CloseSocket, Join, Change,
       WriterStep, ServerStep, Receives

(* Where a step takes nothing that was queued off its way.                   *)
LEMMA LatestKept ==
    ASSUME NEW i \in Ids, LatestOf(i), handler'[i] = "none" => handler[i] = "none",
           lastPayload'[i] = lastPayload[i], wireSeq'[i] = wireSeq[i], wireVersion'[i] = wireVersion[i],
           i \in channels' => i \in channels /\ pending'[i] = pending[i],
           writer = "failed" => writer' = "failed", SnapAhead(i) => SnapAhead(i)',
           (Sending(i)' <=> Sending(i)) /\ (Sending(i) => hand'.version = hand.version)
    PROVE  LatestOf(i)'
<1> HIDE DEF SnapAhead, Sending
<1> QED
    BY DEF LatestOf

(* A frame more in the queue takes nothing away.                             *)
LEMMA LatestQueued ==
    ASSUME TypeOK, NEW i \in Ids, LatestOf(i), NEW k \in Kinds, NEW j \in Ids \cup {0},
           UNCHANGED queue \/ queue' = Append(queue, Frame(k, j)),
           handler'[i] = "none" => handler[i] = "none",
           UNCHANGED <<writer, hand, channels, wireSeq, wireVersion>>,
           lastPayload'[i] = lastPayload[i], pending'[i] = pending[i]
    PROVE  LatestOf(i)'
<1>1. Has(queue, {"snap"}, i) => Has(queue', {"snap"}, i)
    BY Queued
<1>2. SnapAhead(i) => SnapAhead(i)'
    BY <1>1 DEF SnapAhead, Holds
<1>3. Sending(i)' <=> Sending(i)
    BY DEF Sending, Holds
<1> QED
    BY <1>2, <1>3, LatestKept

(* What was queued last stays on its way until it is what the client saw last. *)
LEMMA LatestNext ==
    ASSUME TypeOK, Writing, CancelledFirst, NEW i \in Ids, NumbersOf(i), OrderOf(i), SourcesOf(i), DeliveryOf(i),
           LatestOf(i), [Next]_vars
    PROVE  LatestOf(i)'
<1>1. CASE UNCHANGED <<queue, hand, writer, handler, lastPayload, wireSeq, wireVersion, channels, pending>>
    BY <1>1 DEF LatestOf, SnapAhead, Sending, Holds
<1>2. CASE Refuse
    <2>1. UNCHANGED <<writer, hand, channels, wireSeq, wireVersion, handler, lastPayload, pending>>
        BY <1>2 DEF Refuse
    <2>2. reader \in Kinds /\ subject \in Ids \cup {0}
        BY <1>2 DEF Refuse, Kinds, TypeOK, ReaderType
    <2>3. UNCHANGED queue \/ queue' = Append(queue, Frame(reader, subject))
        BY <1>2 DEF Refuse, Queue
    <2> QED
        BY <2>1, <2>2, <2>3, LatestQueued
<1>3. CASE Register
    <2>1. /\ UNCHANGED <<queue, hand, writer, lastPayload, wireSeq, wireVersion, pending>> /\ reader = "register"
          /\ \/ UNCHANGED <<handler, channels>>
             \/ channels' = channels \cup {subject} /\ handler' = [handler EXCEPT ![subject] = "open"]
        BY <1>3 DEF Register
    <2>2. handler'[i] = "none" => handler[i] = "none"
        BY <2>1 DEF TypeOK, HandlerType
    <2>3. CASE i = subject
        <3>1. lastPayload[i] = None
            BY <2>1, <2>3 DEF SourcesOf, LatestOf
        <3> QED
            BY <2>1, <3>1 DEF LatestOf
    <2>4. CASE i # subject
        <3>1. i \in channels' => i \in channels
            BY <2>1, <2>4
        <3> QED
            BY <2>1, <2>2, <3>1, LatestKept DEF SnapAhead, Sending, Holds
    <2> QED
        BY <2>3, <2>4
<1>4. ASSUME NEW j \in Ids, ReadUnsub(j)  PROVE LatestOf(i)'
    <2>1. /\ UNCHANGED <<queue, hand, writer, handler, lastPayload, wireSeq, wireVersion>>
          /\ i \in channels' => i \in channels /\ pending'[i] = pending[i]
        BY <1>4 DEF ReadUnsub, Forgotten, TypeOK, ChannelType
    <2> QED
        BY <2>1, LatestKept DEF SnapAhead, Sending, Holds
<1>5. CASE ReadPing
    <2>1. UNCHANGED <<writer, hand, channels, wireSeq, wireVersion, handler, lastPayload, pending>>
        BY <1>5 DEF ReadPing, Receives
    <2>2. "pong" \in Kinds /\ 0 \in Ids \cup {0}
        BY KindFacts
    <2>3. UNCHANGED queue \/ queue' = Append(queue, Frame("pong", 0))
        BY <1>5 DEF ReadPing, Queue
    <2> QED
        BY <2>1, <2>2, <2>3, LatestQueued
<1>6. ASSUME NEW j \in Ids,
             \/ Open(j) \/ Fail(j) \/ Read(j) \/ Tick(j) \/ Update(j)
             \/ Resnap(j) \/ StopWaiting(j) \/ Finish(j)
      PROVE  LatestOf(i)'
    <2>1. UNCHANGED <<queue, hand, writer, channels, pending, lastPayload, wireSeq, wireVersion>>
        BY <1>6 DEF Open, Fail, Read, Tick, Update, Resnap, StopWaiting, Finish
    <2>2. \E to \in {"read", "push", "finish", "report", "done"} : handler' = [handler EXCEPT ![j] = to]
        BY <1>6 DEF Open, Fail, Read, Tick, Update, Resnap, StopWaiting, Finish, HandlerStep
    <2>3. handler'[i] = "none" => handler[i] = "none"
        BY <2>2 DEF TypeOK, HandlerType
    <2> QED
        BY <2>1, <2>3, LatestKept DEF SnapAhead, Sending, Holds
<1>7. ASSUME NEW j \in Ids, Push(j)  PROVE LatestOf(i)'
    <2>1. UNCHANGED <<writer, hand, channels, ctxDone, wireSeq, wireVersion>>
        BY <1>7 DEF Push
    <2>2. "snap" \in Kinds /\ j \in Ids \cup {0}
        BY KindFacts
    <2>3. UNCHANGED queue \/ queue' = Append(queue, Frame("snap", j))
        BY <1>7, Pushes
    <2>4. handler'[i] = "none" => handler[i] = "none"
        BY <1>7, PushRemembers
    <2>5. CASE i # j
        <3>1. lastPayload'[i] = lastPayload[i] /\ pending'[i] = pending[i]
            BY <1>7, <2>5, PushRemembers, Pushes
        <3> QED
            BY <2>1, <2>2, <2>3, <2>4, <3>1, LatestQueued
    <2>6. CASE i = j /\ UNCHANGED <<queue, channelVars>>
        BY <2>1, <2>2, <2>3, <2>4, <2>6, LatestQueued
    <2>7. CASE i = j /\ ~ UNCHANGED <<queue, channelVars>>
        <3>1. lastPayload'[i] = value[i] /\ handler[i] = "push" /\ handler'[i] # "none"
            BY <1>7, <2>7, PushRemembers
        <3>2. /\ ~ ctxDone /\ pending'[i] = value[i]
              /\ (queued[i] /\ UNCHANGED queue) \/ queue' = Append(queue, Frame("snap", i))
            BY <1>7, <2>7, Pushes DEF Rejects, Stopped
        <3>3. SnapAhead(i)'
            <4>1. CASE queued[i] /\ UNCHANGED queue
                BY <2>1, <3>2, <4>1 DEF DeliveryOf, SnapAhead, Holds
            <4>2. CASE queue' = Append(queue, Frame("snap", i))
                BY <2>2, <2>7, <4>2, Queued DEF SnapAhead
            <4> QED
                BY <3>2, <4>1, <4>2
        <3> QED
            BY <3>1, <3>2, <3>3 DEF LatestOf
    <2> QED
        BY <2>5, <2>6, <2>7
<1>8. ASSUME NEW j \in Ids, Report(j)  PROVE LatestOf(i)'
    <2>1. UNCHANGED <<writer, hand, channels, wireSeq, wireVersion, lastPayload, pending>>
        BY <1>8 DEF Report
    <2>2. EndKind(j) \in Kinds /\ j \in Ids \cup {0}
        BY KindFacts DEF EndKind
    <2>3. UNCHANGED queue \/ queue' = Append(queue, Frame(EndKind(j), j))
        BY <1>8 DEF Report, Queue
    <2>4. handler'[i] = "none" => handler[i] = "none"
        BY <1>8 DEF Report, HandlerStep, TypeOK, HandlerType
    <2> QED
        BY <2>1, <2>2, <2>3, <2>4, LatestQueued
<1>9. ASSUME NEW j \in Ids, Drop(j)  PROVE LatestOf(i)'
    <2>1. /\ UNCHANGED <<queue, hand, writer, lastPayload, wireSeq, wireVersion>>
          /\ i \in channels' => i \in channels /\ pending'[i] = pending[i]
          /\ handler'[i] = "none" => handler[i] = "none"
        BY <1>9 DEF Drop, Forgotten, HandlerStep, TypeOK, ChannelType, HandlerType
    <2> QED
        BY <2>1, LatestKept DEF SnapAhead, Sending, Holds
<1>10. CASE NextOutbound
    <2>1. UNCHANGED <<channels, handler, lastPayload, pending, wireSeq, wireVersion>> /\ writer = "next"
        BY <1>10 DEF NextOutbound
    <2>2. CASE queue = <<>>
        <3>1. UNCHANGED <<queue, hand>> /\ writer' = "wait"
            BY <1>10, <2>2 DEF NextOutbound
        <3>2. ~ Sending(i) /\ ~ Sending(i)' /\ (SnapAhead(i) => SnapAhead(i)')
            BY <2>1, <3>1 DEF SnapAhead, Sending, Holds
        <3> QED
            BY <2>1, <3>2, LatestKept
    <2>3. CASE queue # <<>>
        <3>1. /\ Has(queue, {"snap"}, i) <=> Holds({"snap"}, i)' \/ Has(queue', {"snap"}, i)
              /\ hand'.kind = "snap" => writer' = "snap"
            BY <1>10, <2>3, Taken DEF Holds
        <3>2. SnapAhead(i) => SnapAhead(i)'
            BY <2>1, <3>1 DEF SnapAhead, Holds
        <3>3. ~ Sending(i) /\ ~ Sending(i)'
            BY <2>1, <3>1 DEF Sending, Holds
        <3> QED
            BY <2>1, <3>2, <3>3, LatestKept
    <2> QED
        BY <2>2, <2>3
<1>11. CASE TakeSnapshot
    <2>1. UNCHANGED <<queue, channels, handler, lastPayload, wireSeq, wireVersion, unsubscribed>>
          /\ writer = "snap" /\ hand.kind = "snap"
        BY <1>11 DEF TakeSnapshot, Writing
    <2>2. \/ /\ pending[hand.id] # None
             /\ writer' = "write" /\ hand'.kind = hand.kind /\ hand'.id = hand.id
             /\ hand'.version = pending[hand.id]
             /\ pending'[i] = IF i = hand.id THEN None ELSE pending[i]
          \/ /\ ~ (Live(hand.id) /\ pending[hand.id] # None)
             /\ writer' = "next" /\ hand' = NoFrame /\ pending' = pending
        BY <1>11, TakesSnapshot
    <2>3. ~ Sending(i)
        BY <2>1 DEF Sending
    <2>4. CASE i # hand.id
        <3>1. SnapAhead(i) => SnapAhead(i)'
            BY <2>1, <2>4 DEF SnapAhead, Holds
        <3>2. ~ Sending(i)'
            BY <2>2, <2>4 DEF Sending, Holds
        <3>3. pending'[i] = pending[i]
            BY <2>2, <2>4
        <3> QED
            BY <2>1, <2>3, <3>1, <3>2, <3>3, LatestKept
    <2>5. CASE i = hand.id /\ pending[i] # None /\ writer' = "write"
        <3>1. Sending(i)' /\ hand'.version = pending[i] /\ pending'[i] = None
            BY <2>1, <2>2, <2>5 DEF Sending, Holds
        <3> HIDE DEF SnapAhead, Sending
        <3> QED
            BY <2>1, <2>5, <3>1 DEF LatestOf
    <2>6. CASE i = hand.id /\ writer' = "next" /\ ~ (Live(i) /\ pending[i] # None) /\ pending' = pending
        <3>1. i \in channels => ~ unsubscribed[i]
            BY DEF TypeOK, ListedType
        <3>2. i \in channels => pending[i] = None
            BY <2>6, <3>1 DEF Live
        <3>3. ~ Sending(i)'
            BY <2>6 DEF Sending
        <3> HIDE DEF SnapAhead, Sending
        <3> QED
            BY <2>1, <2>3, <2>6, <3>2, <3>3 DEF LatestOf
    <2> QED
        BY <2>2, <2>4, <2>5, <2>6
<1>12. CASE Check
    <2>1. /\ UNCHANGED <<queue, channels, handler, lastPayload, pending, wireSeq, wireVersion>> /\ writer = "check"
          /\ writer' \in {"next", "write"} /\ hand'.kind # "snap"
        BY <1>12, AboutKinds DEF Check, CheckUnsubscribed, WriterStep, Writing, NoFrame
    <2>2. SnapAhead(i) => SnapAhead(i)'
        BY <2>1 DEF SnapAhead
    <2> QED
        BY <2>1, <2>2, LatestKept DEF Sending, Holds
<1>13. CASE Write
    <2>1. /\ UNCHANGED <<queue, channels, handler, lastPayload, pending>> /\ writer = "write"
          /\ writer' # "write"
          /\ wireSeq'[i] = IF hand.kind = "snap" /\ i = hand.id THEN hand.seq ELSE wireSeq[i]
          /\ wireVersion'[i] = IF hand.kind = "snap" /\ i = hand.id THEN hand.version ELSE wireVersion[i]
        BY <1>13 DEF Write
    <2>2. SnapAhead(i) => SnapAhead(i)'
        BY <2>1 DEF SnapAhead
    <2>3. Sending(i) <=> hand.kind = "snap" /\ i = hand.id
        BY <2>1 DEF Sending, Holds
    <2>4. Sending(i) => wireSeq'[i] > 0 /\ wireVersion'[i] = hand.version
        BY <2>1, <2>3, Numeric DEF NumbersOf
    <2>5. CASE Sending(i)
        <3>1. ~ Sending(i)'
            BY <2>1 DEF Sending
        <3> HIDE DEF SnapAhead, Sending
        <3> QED
            BY <2>1, <2>2, <2>4, <2>5, <3>1 DEF LatestOf
    <2>6. CASE ~ Sending(i)
        <3>1. ~ Sending(i)'
            BY <2>1 DEF Sending
        <3> QED
            BY <2>1, <2>2, <2>3, <2>6, <3>1, LatestKept
    <2> QED
        BY <2>5, <2>6
<1>14. CASE Forget
    <2>1. /\ UNCHANGED <<queue, handler, lastPayload, pending, wireSeq, wireVersion>> /\ writer = "forget"
          /\ channels' = channels \ {hand.id} /\ writer' = "next"
        BY <1>14 DEF Forget
    <2>2. SnapAhead(i) => SnapAhead(i)'
        BY <2>1 DEF SnapAhead
    <2> QED
        BY <2>1, <2>2, LatestKept DEF Sending
<1>15. CASE WriteFails
    BY <1>15 DEF WriteFails, LatestOf
<1>16. CASE WriterWakes \/ WriterStops
    <2>1. UNCHANGED <<queue, hand, channels, handler, lastPayload, pending, wireSeq, wireVersion>> /\ writer = "wait"
          /\ writer' \in {"next", "gone"}
        BY <1>16 DEF WriterWakes, WriterStops, WriterStep
    <2> QED
        BY <2>1, LatestKept DEF SnapAhead, Sending, Holds
<1>17. CASE NoticeProtocolError
    <2>1. UNCHANGED <<writer, hand, channels, wireSeq, wireVersion, handler, lastPayload, pending>>
        BY <1>17 DEF NoticeProtocolError
    <2>2. "close" \in Kinds /\ 0 \in Ids \cup {0}
        BY KindFacts
    <2>3. UNCHANGED queue \/ queue' = Append(queue, Frame("close", 0))
        BY <1>17 DEF NoticeProtocolError, Queue
    <2> QED
        BY <2>1, <2>2, <2>3, LatestQueued
<1>18. CASE Drain
    BY <1>18 DEF Drain, DrainAll, LatestOf
<1> QED
    BY <1>1, <1>2, <1>3, <1>4, <1>5, <1>6, <1>7, <1>8, <1>9, <1>10, <1>11, <1>12, <1>13,
       <1>14, <1>15, <1>16, <1>17, <1>18
    DEF Next, ReaderNext, HandlerNext, WriterNext, ServerNext, ReadSub, ReadResnap,
       ResnapToken, ReadInvalid, ReadError, NoticeEnd, CloseWaited, Cancel, CloseSocket, Join, Change,
       ServerStep, Receives

(* Where a step takes no verdict off its way.                                *)
LEMMA EndKept ==
    ASSUME NEW i \in Ids, EndOf(i),
           handler'[i] = "done" => handler[i] = "done" \/ Reported(i),
           unsubscribed[i] => unsubscribed'[i], wireOver[i] # "no" => wireOver'[i] # "no",
           ctxDone => ctxDone', writer = "failed" => writer' = "failed",
           OnWay(ChannelEnds, i) => Reported(i)',
           (writer = "forget" /\ hand.id = i)' => wireOver'[i] # "no"
    PROVE  EndOf(i)'
<1>1. Reported(i) => Reported(i)'
    <2> HIDE DEF OnWay
    <2> QED
        BY DEF Reported
<1> HIDE DEF Reported
<1> QED
    BY <1>1 DEF EndOf

(* A frame more in the queue takes no verdict away.                          *)
LEMMA EndQueued ==
    ASSUME TypeOK, NEW i \in Ids, EndOf(i), NEW k \in Kinds, NEW j \in Ids \cup {0},
           UNCHANGED queue \/ queue' = Append(queue, Frame(k, j)),
           handler'[i] = "done" => handler[i] = "done" \/ Reported(i),
           UNCHANGED <<writer, hand, unsubscribed, wireOver, ctxDone>>
    PROVE  EndOf(i)'
<1>1. Has(queue, ChannelEnds, i) => Has(queue', ChannelEnds, i)
    BY Queued
<1>2. OnWay(ChannelEnds, i) => OnWay(ChannelEnds, i)'
    BY <1>1 DEF OnWay, Holds
<1>3. OnWay(ChannelEnds, i) => Reported(i)'
    BY <1>2 DEF Reported
<1>4. (writer = "forget" /\ hand.id = i)' => wireOver'[i] # "no"
    BY DEF EndOf
<1> QED
    BY <1>3, <1>4, EndKept

(* A step that touches neither the queue nor the writer. *)
LEMMA EndAside ==
    ASSUME TypeOK, NEW i \in Ids, EndOf(i), UNCHANGED <<queue, writer, hand, wireOver>>,
           handler'[i] = "done" => handler[i] = "done" \/ Reported(i),
           unsubscribed[i] => unsubscribed'[i], ctxDone => ctxDone'
    PROVE  EndOf(i)'
<1>1. OnWay(ChannelEnds, i) => Reported(i)'
    BY DEF Reported, OnWay, Holds
<1>2. (writer = "forget" /\ hand.id = i)' => wireOver'[i] # "no"
    BY DEF EndOf
<1> QED
    BY <1>1, <1>2, EndKept

(* Whoever listens to a channel whose handler ended will be told so. *)
LEMMA EndNext ==
    ASSUME TypeOK, Listed, Writing, CancelledFirst, NEW i \in Ids, EndOf(i), [Next]_vars
    PROVE  EndOf(i)'
<1>1. CASE UNCHANGED <<queue, hand, writer, ctxDone, handler, unsubscribed, wireOver>>
    BY <1>1, EndAside
<1>2. CASE Refuse
    <2>1. UNCHANGED <<writer, hand, unsubscribed, wireOver, ctxDone, handler>>
        BY <1>2 DEF Refuse
    <2>2. reader \in Kinds /\ subject \in Ids \cup {0}
        BY <1>2 DEF Refuse, Kinds, TypeOK, ReaderType
    <2>3. UNCHANGED queue \/ queue' = Append(queue, Frame(reader, subject))
        BY <1>2 DEF Refuse, Queue
    <2> QED
        BY <2>1, <2>2, <2>3, EndQueued
<1>3. CASE Register
    <2>1. /\ UNCHANGED <<queue, hand, writer, ctxDone, unsubscribed, wireOver>>
          /\ UNCHANGED handler \/ handler' = [handler EXCEPT ![subject] = "open"]
        BY <1>3 DEF Register
    <2>2. handler'[i] = "done" => handler[i] = "done"
        BY <2>1 DEF TypeOK, HandlerType
    <2> QED
        BY <2>1, <2>2, EndAside
<1>4. ASSUME NEW j \in Ids, ReadUnsub(j)  PROVE EndOf(i)'
    <2>1. UNCHANGED <<queue, hand, writer, ctxDone, handler, wireOver>> /\ unsubscribed' = [unsubscribed EXCEPT ![j] = TRUE]
        BY <1>4 DEF ReadUnsub, Forgotten
    <2>2. unsubscribed[i] => unsubscribed'[i]
        BY <2>1 DEF TypeOK, ChannelType
    <2> QED
        BY <2>1, <2>2, EndAside
<1>5. CASE ReadPing
    <2>1. UNCHANGED <<writer, hand, unsubscribed, wireOver, ctxDone, handler>>
        BY <1>5 DEF ReadPing, Receives
    <2>2. "pong" \in Kinds /\ 0 \in Ids \cup {0}
        BY KindFacts
    <2>3. UNCHANGED queue \/ queue' = Append(queue, Frame("pong", 0))
        BY <1>5 DEF ReadPing, Queue
    <2> QED
        BY <2>1, <2>2, <2>3, EndQueued
<1>6. ASSUME NEW j \in Ids,
             Open(j) \/ Fail(j) \/ Read(j) \/ Tick(j) \/ Update(j) \/ Resnap(j) \/ StopWaiting(j)
      PROVE  EndOf(i)'
    <2>1. UNCHANGED <<queue, hand, writer, unsubscribed, wireOver, ctxDone>>
        BY <1>6 DEF Open, Fail, Read, Tick, Update, Resnap, StopWaiting
    <2>2. \E to \in {"read", "push", "finish"} : handler' = [handler EXCEPT ![j] = to]
        BY <1>6 DEF Open, Fail, Read, Tick, Update, Resnap, StopWaiting, HandlerStep
    <2>3. handler'[i] = "done" => handler[i] = "done"
        BY <2>2 DEF TypeOK, HandlerType
    <2> QED
        BY <2>1, <2>3, EndAside
<1>7. ASSUME NEW j \in Ids, Push(j)  PROVE EndOf(i)'
    <2>1. UNCHANGED <<writer, hand, wireOver, ctxDone>>
        BY <1>7 DEF Push
    <2>5. UNCHANGED unsubscribed
        BY <1>7, Pushes
    <2>2. "snap" \in Kinds /\ j \in Ids \cup {0}
        BY KindFacts
    <2>3. UNCHANGED queue \/ queue' = Append(queue, Frame("snap", j))
        BY <1>7, Pushes
    <2>4. handler'[i] = "done" => handler[i] = "done"
        BY <1>7, PushRemembers
    <2> QED
        BY <2>1, <2>2, <2>3, <2>4, <2>5, EndQueued
<1>8. ASSUME NEW j \in Ids, Finish(j)  PROVE EndOf(i)'
    <2>1. UNCHANGED <<queue, hand, writer, unsubscribed, wireOver, ctxDone>> /\ handler[j] = "finish"
        BY <1>8 DEF Finish, HandlerStep
    <2>2. \/ handler' = [handler EXCEPT ![j] = "done"] /\ (ctxDone \/ ~ Live(j))
          \/ handler' = [handler EXCEPT ![j] = "report"]
        BY <1>8 DEF Finish, HandlerStep
    <2>3. ~ Live(j) => unsubscribed[j]
        BY <2>1 DEF Live, Listed
    <2>4. handler'[i] = "done" => handler[i] = "done" \/ ctxDone \/ unsubscribed[i]
        BY <2>2, <2>3 DEF TypeOK, HandlerType
    <2> QED
        BY <2>1, <2>4, EndAside DEF Reported
<1>9. ASSUME NEW j \in Ids, Report(j)  PROVE EndOf(i)'
    <2>1. UNCHANGED <<writer, hand, unsubscribed, wireOver, ctxDone>>
        BY <1>9 DEF Report
    <2>2. EndKind(j) \in Kinds /\ EndKind(j) \in ChannelEnds /\ j \in Ids \cup {0}
        BY KindFacts DEF EndKind
    <2>3. \/ queue' = Append(queue, Frame(EndKind(j), j)) /\ handler' = [handler EXCEPT ![j] = "done"]
          \/ UNCHANGED queue /\ handler' = [handler EXCEPT ![j] = "drop"]
        BY <1>9 DEF Report, Queue, HandlerStep
    <2>4. CASE i = j /\ queue' = Append(queue, Frame(EndKind(j), j))
        <3>1. Has(queue', ChannelEnds, i)
            BY <2>2, <2>4, Queued
        <3>2. Reported(i)'
            BY <3>1 DEF Reported, OnWay
        <3>3. (writer = "forget" /\ hand.id = i)' => wireOver'[i] # "no"
            BY <2>1 DEF EndOf
        <3> QED
            BY <3>2, <3>3 DEF EndOf
    <2>5. CASE i # j \/ UNCHANGED queue
        <3>1. handler'[i] = "done" => handler[i] = "done"
            BY <2>3, <2>5 DEF TypeOK, HandlerType
        <3> QED
            BY <2>1, <2>2, <2>3, <3>1, EndQueued
    <2> QED
        BY <2>3, <2>4, <2>5
<1>10. ASSUME NEW j \in Ids, Drop(j)  PROVE EndOf(i)'
    <2>1. UNCHANGED <<queue, hand, writer, ctxDone, wireOver>> /\ handler[j] = "drop"
        BY <1>10 DEF Drop, HandlerStep
    <2>2. \/ j \notin channels /\ handler' = [handler EXCEPT ![j] = "done"] /\ UNCHANGED unsubscribed
          \/ handler' = [handler EXCEPT ![j] = "dropped"] /\ unsubscribed' = [unsubscribed EXCEPT ![j] = TRUE]
        BY <1>10 DEF Drop, HandlerStep, Forgotten
    <2>3. j \notin channels => unsubscribed[j]
        BY <2>1 DEF Listed
    <2>4. handler'[i] = "done" => handler[i] = "done" \/ unsubscribed[i]
        BY <2>2, <2>3 DEF TypeOK, HandlerType
    <2>5. unsubscribed[i] => unsubscribed'[i]
        BY <2>2 DEF TypeOK, ChannelType
    <2> QED
        BY <2>1, <2>4, <2>5, EndAside DEF Reported
<1>11. CASE NextOutbound
    <2>1. UNCHANGED <<unsubscribed, wireOver, handler, ctxDone>> /\ writer = "next" /\ writer' # "forget"
        BY <1>11, TakesHead DEF NextOutbound
    <2>2. CASE queue = <<>>
        <3>1. UNCHANGED <<queue, hand>>
            BY <1>11, <2>2 DEF NextOutbound
        <3>2. OnWay(ChannelEnds, i) => Reported(i)'
            BY <3>1 DEF Reported, OnWay, Holds
        <3> QED
            BY <2>1, <3>2, EndKept
    <2>3. CASE queue # <<>>
        <3>1. /\ Has(queue, ChannelEnds, i) <=> Holds(ChannelEnds, i)' \/ Has(queue', ChannelEnds, i)
            BY <1>11, <2>3, Taken
        <3>2. ~ Holds(ChannelEnds, i)
            BY <2>1, AboutKinds DEF Writing, Holds
        <3>3. OnWay(ChannelEnds, i) => Reported(i)'
            BY <3>1, <3>2 DEF OnWay, Reported
        <3> QED
            BY <2>1, <3>3, EndKept
    <2> QED
        BY <2>2, <2>3
<1>12. CASE TakeSnapshot
    <2>1. /\ UNCHANGED <<queue, unsubscribed, wireOver, handler, ctxDone>> /\ writer = "snap" /\ hand.kind = "snap"
          /\ writer' \in {"write", "next"}
        BY <1>12 DEF TakeSnapshot, Writing
    <2>2. ~ Holds(ChannelEnds, i)
        BY <2>1, AboutKinds DEF Holds
    <2>3. OnWay(ChannelEnds, i) => Reported(i)'
        BY <2>1, <2>2 DEF OnWay, Reported
    <2> QED
        BY <2>1, <2>3, EndKept
<1>13. CASE Check
    <2>1. /\ UNCHANGED <<queue, unsubscribed, wireOver, handler, ctxDone>> /\ writer = "check"
          /\ UNCHANGED hand \/ unsubscribed[hand.id]
          /\ writer' \in {"write", "next"}
        BY <1>13 DEF Check, CheckUnsubscribed, WriterStep
    <2>2. OnWay(ChannelEnds, i) => Reported(i)'
        BY <2>1 DEF OnWay, Reported, Holds
    <2> QED
        BY <2>1, <2>2, EndKept
<1>14. CASE Write
    <2>1. /\ UNCHANGED <<queue, unsubscribed, handler, ctxDone>> /\ writer = "write"
          /\ hand.kind \in ChannelEnds => UNCHANGED hand
          /\ writer' = IF hand.kind \in ChannelEnds THEN "forget" ELSE "next"
        BY <1>14 DEF Write
    <2>2. wireOver'[i] = IF i # hand.id THEN wireOver[i]
                         ELSE IF hand.kind \in ChannelEnds THEN hand.kind
                         ELSE IF hand.kind = "refused" THEN "suberr" ELSE wireOver[i]
        BY <1>14 DEF Write
    <2>3. OnWay(ChannelEnds, i) => Reported(i)'
        BY <2>1 DEF OnWay, Reported, Holds
    <2>4. /\ wireOver[i] # "no" => wireOver'[i] # "no"
          /\ (writer = "forget" /\ hand.id = i)' => wireOver'[i] # "no"
        BY <2>1, <2>2, AboutKinds
    <2> QED
        BY <2>1, <2>3, <2>4, EndKept
<1>15. CASE Forget
    <2>1. UNCHANGED <<queue, handler, ctxDone, unsubscribed, wireOver>> /\ writer = "forget" /\ writer' = "next"
        BY <1>15 DEF Forget
    <2>2. OnWay(ChannelEnds, i) => Reported(i)'
        BY <2>1 DEF OnWay, Reported, Holds, EndOf
    <2> QED
        BY <2>1, <2>2, EndKept
<1>16. CASE WriteFails
    BY <1>16 DEF WriteFails, EndOf, Reported
<1>17. CASE WriterWakes \/ WriterStops
    <2>1. /\ UNCHANGED <<queue, hand, unsubscribed, wireOver, handler, ctxDone>> /\ writer = "wait"
          /\ writer' \in {"next", "gone"}
        BY <1>17 DEF WriterWakes, WriterStops, WriterStep
    <2>2. OnWay(ChannelEnds, i) => Reported(i)'
        BY <2>1 DEF OnWay, Reported, Holds
    <2> QED
        BY <2>1, <2>2, EndKept
<1>18. CASE NoticeProtocolError
    <2>1. UNCHANGED <<writer, hand, unsubscribed, wireOver, ctxDone, handler>>
        BY <1>18 DEF NoticeProtocolError
    <2>2. "close" \in Kinds /\ 0 \in Ids \cup {0}
        BY KindFacts
    <2>3. UNCHANGED queue \/ queue' = Append(queue, Frame("close", 0))
        BY <1>18 DEF NoticeProtocolError, Queue
    <2> QED
        BY <2>1, <2>2, <2>3, EndQueued
<1>19. CASE Cancel
    BY <1>19, EndAside DEF Cancel
<1>20. CASE Drain
    <2>1. UNCHANGED <<writer, hand, wireOver, handler>> /\ ctxDone'
        BY <1>20 DEF Drain, ServerStep, CancelledFirst
    <2> QED
        BY <2>1 DEF EndOf, Reported
<1> QED
    BY <1>1, <1>2, <1>3, <1>4, <1>5, <1>6, <1>7, <1>8, <1>9, <1>10, <1>11, <1>12, <1>13,
       <1>14, <1>15, <1>16, <1>17, <1>18, <1>19, <1>20
    DEF Next, ReaderNext, HandlerNext, WriterNext, ServerNext, ReadSub, ReadResnap,
       ResnapToken, ReadInvalid, ReadError, NoticeEnd, CloseWaited, CloseSocket, Join, Change,
       ServerStep, Receives

LEMMA NewsInit == Init => News
<1> SUFFICES ASSUME Init, NEW i \in Ids PROVE NewsOf(i)
    BY DEF News
<1>1. handler[i] = "none" /\ lastPayload[i] = None /\ ~ forceNext[i]
    BY DEF Init
<1> QED
    BY <1>1 DEF NewsOf, ReadsOf, LatestOf, ForcedOf, EndOf, Init

LEMMA NewsNext == Safe /\ Story /\ News /\ [Next]_vars => News'
<1> SUFFICES ASSUME Safe, Story, News, [Next]_vars, NEW i \in Ids PROVE NewsOf(i)'
    BY DEF News
<1>1. TypeOK /\ Reading /\ CancelledFirst /\ Listed
    BY DEF Safe
<1>2. Writing /\ NumbersOf(i) /\ OrderOf(i) /\ SourcesOf(i) /\ DeliveryOf(i)
    BY DEF Story, StoryOf
<1>3. ReadsOf(i) /\ LatestOf(i) /\ ForcedOf(i) /\ EndOf(i)
    BY DEF News, NewsOf
<1>4. ReadsOf(i)' /\ LatestOf(i)' /\ ForcedOf(i)' /\ EndOf(i)'
    BY <1>1, <1>2, <1>3, ReadsNext, LatestNext, ForcedNext, EndNext
<1> QED
    BY <1>4 DEF NewsOf

(* When the writer sleeps nothing is on its way.                             *)
LEMMA NothingUnsaid == Safe /\ Story /\ News => SleepsOnlyWhenCurrent
<1> SUFFICES ASSUME Safe, Story, News, writer = "wait", ~ wake, ~ ctxDone, NEW i \in Ids
             PROVE  /\ handler[i] = "done" => unsubscribed[i] \/ wireOver[i] # "no"
                    /\ i \in channels /\ handler[i] = "wait" /\ ~ dirty[i] /\ ~ resnap[i] /\ ~ (reader = "token" /\ subject = i) =>
                          ~ forceNext[i] /\ wireSeq[i] > 0 /\ Payload[wireVersion[i]] = Payload[version]
    BY DEF Safe, SleepsOnlyWhenCurrent
<1>1. queue = <<>>
    BY DEF Safe, WriterNeverStranded
<1>2. NewsOf(i) /\ hand.kind = "none"
    BY DEF News, Story, Writing
<1>3. ~ OnWay(ChannelEnds, i) /\ ~ SnapAhead(i) /\ ~ Sending(i)
    BY <1>1, <1>2, EmptyHasNone, AboutKinds DEF OnWay, SnapAhead, Sending, Holds
<1>4. handler[i] = "done" => unsubscribed[i] \/ wireOver[i] # "no"
    BY <1>2, <1>3 DEF NewsOf, EndOf, Reported
<1>5. ASSUME i \in channels, handler[i] = "wait", ~ dirty[i], ~ resnap[i], ~ (reader = "token" /\ subject = i)
      PROVE  ~ forceNext[i] /\ wireSeq[i] > 0 /\ Payload[wireVersion[i]] = Payload[version]
    <2>1. ~ forceNext[i]
        BY <1>2, <1>5 DEF NewsOf, ForcedOf
    <2>2. lastPayload[i] # None /\ Payload[lastPayload[i]] = Payload[version]
        BY <1>2, <1>5 DEF NewsOf, ReadsOf
    <2>3. wireVersion[i] = lastPayload[i] /\ wireSeq[i] > 0
        BY <1>2, <1>3, <1>5, <2>2 DEF NewsOf, LatestOf
    <2> QED
        BY <2>1, <2>2, <2>3
<1> QED
    BY <1>4, <1>5

(* writeLoop, queueSnapshot, requestResnap and finishChannel together: the   *)
(* writer sleeps on no queued frame without a token, and otherwise only when *)
(* every channel that listens shows the current state and owes no resnap,    *)
(* and of all ids ever subscribed each whose end was reported has its        *)
(* verdict on the wire, unless the client had unsubscribed.  Deduplication,  *)
(* replacement of a pending snapshot and tokens of depth one lose nothing;   *)
(* the end of a handler that finishChannel drops for want of room ("dropped")*)
(* is not covered, because nothing tells it.                                 *)
THEOREM SilenceIsCurrent == Spec => []SleepsOnlyWhenCurrent
<1>1. Spec => []Story
    BY StoryInit, StoryNext, AlwaysSafe, PTL DEF Spec
<1>2. Spec => []News
    BY <1>1, NewsInit, NewsNext, AlwaysSafe, PTL DEF Spec
<1> QED
    BY <1>1, <1>2, AlwaysSafe, NothingUnsaid, PTL

==============================================================================
