--------------------------- MODULE BroadcastProofs ---------------------------
(***************************************************************************)
(* Theorems about Broadcast for any number of subscribers, any keys, any   *)
(* backlog limit and any number of published values.  The inductive        *)
(* invariant is Inv below; the order theorem rests on Chained, which says  *)
(* that everything a subscription still owes could be delivered from where *)
(* its consumer is.                                                        *)
(***************************************************************************)
EXTENDS Broadcast, SequenceTheorems, TLAPS

USE DEF Modes, RunnerStates

\* Nothing is queued for a subscription that does not exist yet.
Unborn == \A s \in Subscribers : runner[s] = "none" => queue[s] = <<>> /\ ~closed[s]

\* What the consumer will have seen once the value in run()'s hand is delivered.
Reached(s) == IF hand[s] # 0 THEN hand[s] ELSE seen[s]

\* Until run() has returned, every step of the pipeline seen -> hand -> queue is
\* one the feed allows.
Chained ==
    \A s \in Subscribers : runner[s] # "done" =>
        /\ hand[s] # 0 => Feed!MayFollow(mode[s], seen[s], hand[s])
        /\ queue[s] # <<>> => Feed!MayFollow(mode[s], Reached(s), queue[s][1])
        /\ \A i \in 1 .. Len(queue[s]) - 1 :
              Feed!MayFollow(mode[s], queue[s][i], queue[s][i + 1])

------------------------------------------------------------------------------
\* Publishing extends the log and changes nothing of what was there.
LEMMA LogGrows ==
    ASSUME TypeOK, NEW k \in Keys \cup {NoKey}, log' = Append(log, k)
    PROVE  /\ log' \in Seq(Keys \cup {NoKey})
           /\ Len(log') = Len(log) + 1
           /\ log'[Len(log) + 1] = k
           /\ \A i \in 1 .. Len(log) : log'[i] = log[i]
           /\ Len(log) \in Nat
BY DEF TypeOK

\* A backlog holds positions, and has a length.
LEMMA QueueType ==
    ASSUME TypeOK, NEW s \in Subscribers
    PROVE  /\ queue[s] \in Seq(1 .. Len(log)) /\ Len(log) \in Nat
           /\ queue[s] \in Seq(1 .. Len(log) + 1)
           /\ Len(queue[s]) \in Nat
           /\ queue[s] # <<>> => Len(queue[s]) # 0
           /\ \A i \in 1 .. Len(queue[s]) : queue[s][i] \in 1 .. Len(log)
<1>1. queue[s] \in Seq(1 .. Len(log)) /\ Len(log) \in Nat
  BY DEF TypeOK
<1>2. 1 .. Len(log) \subseteq 1 .. Len(log) + 1
  BY <1>1
<1>3. queue[s] \in Seq(1 .. Len(log) + 1)
  BY <1>1, <1>2, SeqMonotonic
<1> QED BY <1>1, <1>3, EmptySeq, LenProperties, ElementOfSeq

\* What taking the oldest value leaves.
LEMMA TailShape ==
    ASSUME NEW S, NEW q \in Seq(S), q # <<>>, NEW r, r = Tail(q)
    PROVE  /\ Head(q) = q[1] /\ q[1] \in S
           /\ r \in Seq(S) /\ Len(q) \in Nat \ {0} /\ Len(r) = Len(q) - 1
           /\ \A i \in 1 .. Len(q) - 1 : r[i] = q[i + 1]
           /\ r = <<>> => q[Len(q)] = q[1] /\ Len(q) = 1
           /\ r # <<>> => r[Len(r)] = q[Len(q)] /\ Len(r) \in Nat \ {0}
<1>1. Len(q) \in Nat \ {0} /\ q[1] \in S
  BY EmptySeq, ElementOfSeq
<1>2. r \in Seq(S) /\ Len(r) = Len(q) - 1
  BY HeadTailProperties
<1>3. \A i \in 1 .. Len(q) - 1 : r[i] = q[i + 1]
  BY <1>2, HeadTailProperties
<1>4. r = <<>> => Len(r) = 0
  BY EmptySeq
<1>5. r # <<>> => Len(r) \in Nat \ {0}
  BY <1>2, EmptySeq
<1>6. r = <<>> => Len(q) = 1
  BY <1>1, <1>2, <1>4
<1>7. r # <<>> => r[Len(r)] = q[Len(q)]
  <2> SUFFICES ASSUME r # <<>> PROVE r[Len(r)] = q[Len(q)]
    OBVIOUS
  <2>1. Len(r) \in 1 .. Len(q) - 1 /\ Len(r) + 1 = Len(q)
    BY <1>1, <1>2, <1>5
  <2> QED BY <1>3, <2>1
<1>8. Head(q) = q[1]
  OBVIOUS
<1> QED BY <1>1, <1>2, <1>3, <1>5, <1>6, <1>7, <1>8

\* What enqueue leaves in the backlog, whichever branch it takes.
LEMMA EnqueuedShape ==
    ASSUME TypeOK, NEW s \in Subscribers, NEW k \in Keys \cup {NoKey},
           NEW q, q = queue[s], NEW n, n = Len(log) + 1, NEW e, e = Enqueued(s, k, n)
    PROVE  /\ e \in Seq(1 .. n)
           /\ closed[s] => e = q
           /\ ~closed[s] /\ Replaces(s, k) =>
                 /\ q # <<>> /\ Len(e) = Len(q) /\ e[Len(q)] = n /\ Len(q) \in Nat \ {0}
                 /\ \A i \in 1 .. Len(q) - 1 : e[i] = q[i]
           /\ ~closed[s] /\ Overflows(s, k) => e = <<>>
           /\ ~closed[s] /\ ~Replaces(s, k) /\ ~Overflows(s, k) =>
                 /\ e # <<>> /\ Len(e) = Len(q) + 1 /\ e[Len(q) + 1] = n /\ Len(q) \in Nat
                 /\ \A i \in 1 .. Len(q) : e[i] = q[i]
<1>1. q \in Seq(1 .. n) /\ Len(q) \in Nat /\ n \in Nat /\ n \in 1 .. n /\ (q # <<>> => Len(q) # 0)
  BY QueueType
<1>2. CASE closed[s]
  BY <1>1, <1>2 DEF Enqueued
<1>3. CASE ~closed[s] /\ Replaces(s, k)
  <2>1. q # <<>>
    BY <1>3 DEF Replaces
  <2>2. Len(q) \in 1 .. Len(q)
    BY <1>1, <2>1
  <2>3. e = [q EXCEPT ![Len(q)] = n]
    BY <1>3 DEF Enqueued
  <2>4. /\ e \in Seq(1 .. n)
        /\ Len(e) = Len(q)
        /\ \A j \in 1 .. Len(q) : e[j] = IF j = Len(q) THEN n ELSE q[j]
    BY <1>1, <2>2, <2>3, ExceptSeq
  <2>5. ~Overflows(s, k)
    BY <1>3 DEF Overflows
  <2>6. e[Len(q)] = n /\ Len(q) \in Nat \ {0}
    BY <1>1, <2>2, <2>4
  <2>7. ASSUME NEW i \in 1 .. Len(q) - 1 PROVE e[i] = q[i]
    <3>1. i \in 1 .. Len(q) /\ i # Len(q)
      BY <1>1
    <3> QED BY <2>4, <3>1
  <2> QED BY <1>3, <2>1, <2>4, <2>5, <2>6, <2>7
<1>4. CASE ~closed[s] /\ Overflows(s, k)
  <2>1. e = <<>> /\ ~Replaces(s, k)
    BY <1>4 DEF Enqueued, Overflows
  <2> QED BY <1>4, <2>1, EmptySeq
<1>5. CASE ~closed[s] /\ ~Replaces(s, k) /\ ~Overflows(s, k)
  <2>1. e = Append(q, n)
    BY <1>5 DEF Enqueued
  <2>2. e \in Seq(1 .. n) /\ e # <<>>
    <3>1. PICK S : S = 1 .. n
      OBVIOUS
    <3>2. q \in Seq(S) /\ n \in S
      BY <1>1, <3>1
    <3>3. Append(q, n) \in Seq(S) /\ Append(q, n) # <<>>
      BY <3>2, AppendProperties
    <3> QED BY <2>1, <3>1, <3>3
  <2>3. Len(e) = Len(q) + 1 /\ e[Len(q) + 1] = n
    BY <1>1, <2>1
  <2>4. \A i \in 1 .. Len(q) : e[i] = q[i]
    BY <1>1, <2>1
  <2> QED BY <1>1, <1>5, <2>2, <2>3, <2>4
<1> QED BY <1>2, <1>3, <1>4, <1>5

------------------------------------------------------------------------------
\* Type correctness is inductive, with what holds of a subscription before it is made.
LEMMA TypeInit == Init => TypeOK /\ Unborn
BY EmptySeq DEF Init, TypeOK, Unborn

LEMMA TypeNext == TypeOK /\ Unborn /\ [Next]_vars => (TypeOK /\ Unborn)'
<1> SUFFICES ASSUME TypeOK, Unborn, [Next]_vars PROVE (TypeOK /\ Unborn)'
  OBVIOUS
<1>1. ASSUME NEW k \in Keys \cup {NoKey}, Publish(k) PROVE (TypeOK /\ Unborn)'
  <2>1. /\ log' \in Seq(Keys \cup {NoKey}) /\ Len(log') = Len(log) + 1 /\ Len(log) \in Nat
    BY <1>1, LogGrows DEF Publish
  <2>2. queue' \in [Subscribers -> Seq(1 .. Len(log'))]
    <3>1. \A s \in Subscribers : Enqueued(s, k, Len(log) + 1) \in Seq(1 .. Len(log) + 1)
      BY <1>1, EnqueuedShape
    <3> QED BY <1>1, <2>1, <3>1, QueueType DEF Publish
  <2>3. /\ closed' \in [Subscribers -> BOOLEAN]
        /\ wake' \in [Subscribers -> BOOLEAN]
    BY <1>1 DEF Publish, TypeOK
  <2>4. /\ mode' \in [Subscribers -> Modes]
        /\ runner' \in [Subscribers -> RunnerStates]
        /\ hand' \in [Subscribers -> 0 .. Len(log')]
        /\ seen' \in [Subscribers -> 0 .. Len(log')]
        /\ \A s \in Subscribers : hand'[s] # 0 <=> runner'[s] = "send"
    BY <1>1, <2>1 DEF Publish, TypeOK, subscriptionVars
  <2>5. members' = {s \in Subscribers : runner'[s] # "none" /\ ~closed'[s]}
    BY <1>1 DEF Publish, TypeOK, subscriptionVars
  <2>6. Unborn'
    BY <1>1 DEF Publish, TypeOK, Unborn, subscriptionVars
  <2> QED BY <2>1, <2>2, <2>3, <2>4, <2>5, <2>6 DEF TypeOK
<1>2. ASSUME NEW s \in Subscribers, NEW m \in Modes, Subscribe(s, m) PROVE (TypeOK /\ Unborn)'
  BY <1>2, QueueType DEF Subscribe, TypeOK, Unborn
<1>3. ASSUME NEW s \in Subscribers, Close(s) PROVE (TypeOK /\ Unborn)'
  BY <1>3 DEF Close, TypeOK, Unborn, subscriptionVars
<1>4. ASSUME NEW s \in Subscribers, Take(s) PROVE (TypeOK /\ Unborn)'
  <2>1. CASE queue[s] = <<>>
    BY <1>4, <2>1 DEF Take, TypeOK, Unborn
  <2>2. CASE queue[s] # <<>>
    <3>1. Head(queue[s]) \in 1 .. Len(log) /\ Tail(queue[s]) \in Seq(1 .. Len(log))
      BY <2>2, QueueType, HeadTailProperties
    <3>2. /\ queue' = [queue EXCEPT ![s] = Tail(queue[s])]
          /\ hand' = [hand EXCEPT ![s] = Head(queue[s])]
          /\ runner' = [runner EXCEPT ![s] = "send"]
          /\ runner[s] = "next"
          /\ UNCHANGED <<log, members, mode, closed, wake, seen>>
      BY <1>4, <2>2 DEF Take
    <3>3. queue' \in [Subscribers -> Seq(1 .. Len(log))]
      BY <3>1, <3>2 DEF TypeOK
    <3>4. /\ hand' \in [Subscribers -> 0 .. Len(log)]
          /\ \A t \in Subscribers : hand'[t] # 0 <=> runner'[t] = "send"
      BY <3>1, <3>2, QueueType DEF TypeOK
    <3> QED BY <3>2, <3>3, <3>4 DEF TypeOK, Unborn
  <2> QED BY <2>1, <2>2
<1>5. ASSUME NEW s \in Subscribers, Deliver(s) PROVE (TypeOK /\ Unborn)'
  BY <1>5, QueueType DEF Deliver, TypeOK, Unborn
<1>6. ASSUME NEW s \in Subscribers, Wake(s) PROVE (TypeOK /\ Unborn)'
  BY <1>6 DEF Wake, TypeOK, Unborn
<1>7. ASSUME NEW s \in Subscribers, Stop(s) PROVE (TypeOK /\ Unborn)'
  BY <1>7, QueueType DEF Stop, TypeOK, Unborn
<1>8. CASE UNCHANGED vars
  BY <1>8 DEF vars, TypeOK, Unborn
<1> QED BY <1>1, <1>2, <1>3, <1>4, <1>5, <1>6, <1>7, <1>8 DEF Next

\* Type correctness: the broker lists exactly the open subscriptions, and only
\* published positions are queued, held or delivered.
THEOREM TypeCorrect == Spec => []TypeOK
<1>1. Init => TypeOK /\ Unborn
  BY TypeInit
<1>2. TypeOK /\ Unborn /\ [Next]_vars => (TypeOK /\ Unborn)'
  BY TypeNext
<1> QED BY <1>1, <1>2, PTL DEF Spec

------------------------------------------------------------------------------
\* The three facts the delivery goroutine lives by, with the type invariant.
Inv == TypeOK /\ Unborn /\ NoLostWakeup /\ NewestRetained /\ BacklogBounded

LEMMA InvInit == Init => Inv
<1> SUFFICES ASSUME Init PROVE Inv
  OBVIOUS
<1>1. \A s \in Subscribers : queue[s] = <<>> /\ Len(queue[s]) = 0
  BY DEF Init
<1> QED BY <1>1, TypeInit, BroadcastAssumption
        DEF Inv, Init, NoLostWakeup, NewestRetained, BacklogBounded

LEMMA PublishInv ==
    ASSUME Inv, NEW k \in Keys \cup {NoKey}, Publish(k)
    PROVE  (NoLostWakeup /\ NewestRetained /\ BacklogBounded)'
<1> DEFINE n == Len(log) + 1
<1>1. TypeOK /\ Unborn /\ NoLostWakeup /\ NewestRetained /\ BacklogBounded
  BY DEF Inv
<1>2. /\ Len(log') = n /\ Len(log) \in Nat
      /\ mode' = mode /\ runner' = runner /\ hand' = hand /\ seen' = seen
  BY <1>1, LogGrows DEF Publish, subscriptionVars
<1>3. \A s \in Subscribers : s \notin members =>
         queue'[s] = queue[s] /\ closed'[s] = closed[s] /\ wake'[s] = wake[s] /\ s \notin members'
  BY <1>1 DEF Publish, TypeOK
<1>4. \A s \in members :
         /\ s \in Subscribers /\ runner[s] # "none" /\ ~closed[s]
         /\ queue'[s] = Enqueued(s, k, n)
         /\ closed'[s] <=> Overflows(s, k)
         /\ wake'[s] <=> wake[s] \/ Signals(s, k)
         /\ s \in members' <=> ~Overflows(s, k)
  BY <1>1 DEF Publish, TypeOK
<1>5. NoLostWakeup'
  <2> SUFFICES ASSUME NEW s \in Subscribers,
                      runner'[s] = "wait", queue'[s] # <<>>, ~closed'[s]
               PROVE  wake'[s]
    BY DEF NoLostWakeup
  <2>1. CASE s \notin members
    BY <1>1, <1>2, <1>3, <2>1 DEF NoLostWakeup
  <2>2. CASE s \in members /\ Replaces(s, k)
    BY <1>1, <1>2, <1>4, <2>2 DEF NoLostWakeup, Replaces
  <2>3. CASE s \in members /\ ~Replaces(s, k)
    BY <1>4, <2>3 DEF Signals
  <2> QED BY <2>1, <2>2, <2>3
<1>6. NewestRetained'
  <2> SUFFICES ASSUME NEW s \in members'
               PROVE  queue'[s] # <<>> /\ queue'[s][Len(queue'[s])] = n
    BY <1>2 DEF NewestRetained, Newest
  <2>1. s \in members /\ s \in Subscribers /\ ~Overflows(s, k)
    BY <1>3, <1>4 DEF Publish
  <2>2. CASE Replaces(s, k)
    BY <1>1, <1>4, <2>1, <2>2, EnqueuedShape
  <2>3. CASE ~Replaces(s, k)
    BY <1>1, <1>4, <2>1, <2>3, EnqueuedShape
  <2> QED BY <2>2, <2>3
<1>7. BacklogBounded'
  <2> SUFFICES ASSUME NEW s \in Subscribers
               PROVE  Len(queue'[s]) <= (IF mode[s] = "latest" THEN 1 ELSE MaxPending)
    BY <1>2 DEF BacklogBounded
  <2>1. CASE s \notin members
    BY <1>1, <1>3, <2>1 DEF BacklogBounded
  <2>2. CASE s \in members /\ Replaces(s, k)
    <3>1. Len(queue'[s]) = Len(queue[s])
      BY <1>1, <1>4, <2>2, EnqueuedShape
    <3> QED BY <1>1, <3>1 DEF BacklogBounded
  <2>3. CASE s \in members /\ Overflows(s, k)
    <3>1. queue'[s] = <<>> /\ Len(<<>>) = 0
      BY <1>1, <1>4, <2>3, EnqueuedShape
    <3> QED BY <3>1, BroadcastAssumption
  <2>4. CASE s \in members /\ ~Replaces(s, k) /\ ~Overflows(s, k)
    <3>0. PICK e : e = Enqueued(s, k, n)
      OBVIOUS
    <3>1. queue'[s] = e /\ Len(e) = Len(queue[s]) + 1 /\ Len(queue[s]) \in Nat
      BY <1>1, <1>4, <2>4, <3>0, EnqueuedShape
    <3>2. Len(queue[s]) < MaxPending
      BY <2>4, <3>1, BroadcastAssumption DEF Overflows
    <3>3. mode[s] = "latest" => Len(queue[s]) = 0
      BY <2>4, <3>1 DEF Replaces
    <3> QED BY <3>1, <3>2, <3>3, BroadcastAssumption
  <2> QED BY <2>1, <2>2, <2>3, <2>4
<1> QED BY <1>5, <1>6, <1>7

LEMMA TakeInv ==
    ASSUME Inv, NEW s \in Subscribers, Take(s)
    PROVE  (NoLostWakeup /\ NewestRetained /\ BacklogBounded)'
<1>1. TypeOK /\ NoLostWakeup /\ NewestRetained /\ BacklogBounded
  BY DEF Inv
<1>2. CASE queue[s] = <<>>
  BY <1>1, <1>2 DEF Take, TypeOK, NoLostWakeup, NewestRetained, BacklogBounded, Newest
<1>3. CASE queue[s] # <<>>
  <2>1. /\ queue' = [queue EXCEPT ![s] = Tail(queue[s])]
        /\ hand' = [hand EXCEPT ![s] = queue[s][1]]
        /\ runner' = [runner EXCEPT ![s] = "send"]
        /\ hand[s] = 0
        /\ UNCHANGED <<log, members, mode, closed, wake, seen>>
    BY <1>1, <1>3, QueueType DEF Take, TypeOK
  <2>2. PICK rest : rest = Tail(queue[s])
    OBVIOUS
  <2>3. queue[s] \in Seq(1 .. Len(log))
    BY <1>1, QueueType
  <2>4. PICK S, q : S = 1 .. Len(log) /\ q = queue[s]
    OBVIOUS
  <2>5. q \in Seq(S) /\ q # <<>> /\ rest = Tail(q)
    BY <1>3, <2>2, <2>3, <2>4
  <2>6. /\ Len(queue[s]) \in Nat \ {0} /\ Len(rest) = Len(queue[s]) - 1
        /\ queue[s][1] \in 1 .. Len(log)
        /\ rest = <<>> => queue[s][Len(queue[s])] = queue[s][1]
        /\ rest # <<>> => rest[Len(rest)] = queue[s][Len(queue[s])]
    <3>1. /\ q[1] \in S /\ Len(q) \in Nat \ {0} /\ Len(rest) = Len(q) - 1
          /\ rest = <<>> => q[Len(q)] = q[1] /\ Len(q) = 1
          /\ rest # <<>> => rest[Len(rest)] = q[Len(q)] /\ Len(rest) \in Nat \ {0}
      BY <2>5, TailShape
    <3> QED BY <2>4, <3>1
  <2>7. queue[s][Len(queue[s])] = Len(log) \/ s \notin members
    BY <1>1, <1>3 DEF NewestRetained, Newest
  <2>8. NoLostWakeup'
    BY <1>1, <2>1 DEF TypeOK, NoLostWakeup
  <2>9. NewestRetained'
    <3> SUFFICES ASSUME NEW t \in members
                 PROVE  Len(log) = (IF queue'[t] # <<>> THEN queue'[t][Len(queue'[t])]
                                    ELSE IF hand'[t] # 0 THEN hand'[t] ELSE seen[t])
      BY <2>1 DEF NewestRetained, Newest
    <3>1. CASE t # s
      BY <1>1, <2>1, <3>1 DEF TypeOK, NewestRetained, Newest
    <3>2. CASE t = s /\ rest = <<>>
      BY <1>1, <2>1, <2>2, <2>6, <2>7, <3>2 DEF TypeOK
    <3>3. CASE t = s /\ rest # <<>>
      BY <1>1, <2>1, <2>2, <2>6, <2>7, <3>3 DEF TypeOK
    <3> QED BY <3>1, <3>2, <3>3
  <2>10. BacklogBounded'
    <3>1. \A t \in Subscribers : t # s => queue'[t] = queue[t]
      BY <1>1, <2>1 DEF TypeOK
    <3>2. Len(queue'[s]) = Len(queue[s]) - 1
      BY <1>1, <2>1, <2>2, <2>6 DEF TypeOK
    <3> QED BY <1>1, <2>1, <2>6, <3>1, <3>2, BroadcastAssumption DEF BacklogBounded
  <2> QED BY <2>8, <2>9, <2>10
<1> QED BY <1>2, <1>3

LEMMA InvNext == Inv /\ [Next]_vars => Inv'
<1> SUFFICES ASSUME Inv, [Next]_vars PROVE (NoLostWakeup /\ NewestRetained /\ BacklogBounded)'
  BY TypeNext DEF Inv
<1>1. TypeOK /\ Unborn /\ NoLostWakeup /\ NewestRetained /\ BacklogBounded
  BY DEF Inv
<1> USE DEF NoLostWakeup, NewestRetained, BacklogBounded, Newest
<1>2. ASSUME NEW k \in Keys \cup {NoKey}, Publish(k)
      PROVE  (NoLostWakeup /\ NewestRetained /\ BacklogBounded)'
  BY <1>2, PublishInv
<1>3. ASSUME NEW s \in Subscribers, NEW m \in Modes, Subscribe(s, m)
      PROVE  (NoLostWakeup /\ NewestRetained /\ BacklogBounded)'
  <2>1. queue[s] = <<>> /\ Len(queue[s]) = 0 /\ hand[s] = 0
    BY <1>1, <1>3, EmptySeq DEF Subscribe, TypeOK, Unborn
  <2> QED BY <1>1, <1>3, <2>1, BroadcastAssumption DEF Subscribe, TypeOK
<1>4. ASSUME NEW s \in Subscribers, Close(s)
      PROVE  (NoLostWakeup /\ NewestRetained /\ BacklogBounded)'
  BY <1>1, <1>4 DEF Close, TypeOK, subscriptionVars
<1>5. ASSUME NEW s \in Subscribers, Take(s)
      PROVE  (NoLostWakeup /\ NewestRetained /\ BacklogBounded)'
  BY <1>5, TakeInv
<1>6. ASSUME NEW s \in Subscribers, Deliver(s)
      PROVE  (NoLostWakeup /\ NewestRetained /\ BacklogBounded)'
  BY <1>1, <1>6 DEF Deliver, TypeOK
<1>7. ASSUME NEW s \in Subscribers, Wake(s)
      PROVE  (NoLostWakeup /\ NewestRetained /\ BacklogBounded)'
  BY <1>1, <1>7 DEF Wake, TypeOK
<1>8. ASSUME NEW s \in Subscribers, Stop(s)
      PROVE  (NoLostWakeup /\ NewestRetained /\ BacklogBounded)'
  BY <1>1, <1>8 DEF Stop, TypeOK
<1>9. CASE UNCHANGED vars
  BY <1>1, <1>9 DEF vars
<1> QED BY <1>2, <1>3, <1>4, <1>5, <1>6, <1>7, <1>8, <1>9 DEF Next

\* run() never sleeps on a backlog without a token in wake: the one-slot channel
\* that enqueue signals only when it appends is enough.
THEOREM NeverSleepsOnBacklog == Spec => []NoLostWakeup
<1>1. Inv => NoLostWakeup
  BY DEF Inv
<1> QED BY <1>1, InvInit, InvNext, PTL DEF Spec

\* No mode of enqueue loses the newest value of an open subscription.
THEOREM NewestIsRetained == Spec => []NewestRetained
<1>1. Inv => NewestRetained
  BY DEF Inv
<1> QED BY <1>1, InvInit, InvNext, PTL DEF Spec

\* A stalled consumer costs at most maxPending values, or one if it is latest-only.
THEOREM BacklogIsBounded == Spec => []BacklogBounded
<1>1. Inv => BacklogBounded
  BY DEF Inv
<1> QED BY <1>1, InvInit, InvNext, PTL DEF Spec

------------------------------------------------------------------------------
\* A step the feed allowed stays allowed when more is published.
LEMMA MayFollowStable ==
    ASSUME TypeOK, NEW k \in Keys \cup {NoKey}, log' = Append(log, k),
           NEW m, NEW a \in Nat, NEW b \in 0 .. Len(log),
           Feed!MayFollow(m, a, b)
    PROVE  Feed!MayFollow(m, a, b)'
<1>1. Len(log) \in Nat /\ \A i \in 1 .. Len(log) : log'[i] = log[i]
  BY LogGrows
<1>2. \A i \in a + 1 .. b : log'[i] = log[i]
  BY <1>1
<1>3. b > a => log'[b] = log[b]
  BY <1>1
<1> QED BY <1>1, <1>2, <1>3 DEF Feed!MayFollow

\* Replacing the newest pending value by the one just published is allowed
\* wherever the newest was: enqueue's coalescing rule is the feed's.
LEMMA MayFollowReplaced ==
    ASSUME TypeOK, NEW k \in Keys \cup {NoKey}, log' = Append(log, k),
           NEW s \in Subscribers, Replaces(s, k), Newest(s) = Len(log), Len(log) > 0,
           NEW m, m = mode[s], NEW n, n = Len(log) + 1,
           NEW a \in Nat, Feed!MayFollow(m, a, Len(log))
    PROVE  Feed!MayFollow(m, a, n)'
<1>1. /\ Len(log) \in Nat /\ log'[n] = k
      /\ \A i \in 1 .. Len(log) : log'[i] = log[i]
  BY LogGrows
<1>2. n > a /\ Len(log) > a
  BY <1>1 DEF Feed!MayFollow
<1>3. CASE m = "latest"
  BY <1>2, <1>3 DEF Feed!MayFollow
<1>4. CASE m = "coalesced" /\ k # NoKey /\ k = log[Len(log)]
  <2>1. \A i \in a + 1 .. Len(log) : log[i] = k
    BY <1>1, <1>4 DEF Feed!MayFollow
  <2>2. \A i \in a + 1 .. n : log'[i] = log'[n] /\ log'[n] # NoKey
    BY <1>1, <1>4, <2>1
  <2> QED BY <1>2, <1>4, <2>2 DEF Feed!MayFollow
<1> QED BY <1>3, <1>4 DEF Replaces

\* What a publication does to one subscription's pipeline.
LEMMA PublishChained ==
    ASSUME Inv, Chained, NEW k \in Keys \cup {NoKey}, Publish(k)
    PROVE  Chained'
<1>1. TypeOK /\ NewestRetained
  BY DEF Inv
<1>2. /\ log' = Append(log, k) /\ Len(log) \in Nat
      /\ mode' = mode /\ hand' = hand /\ seen' = seen /\ runner' = runner
  BY <1>1, LogGrows DEF Publish, subscriptionVars
<1>3. SUFFICES ASSUME NEW s \in Subscribers, runner[s] # "done"
               PROVE  /\ hand[s] # 0 => Feed!MayFollow(mode[s], seen[s], hand[s])'
                      /\ queue'[s] # <<>> => Feed!MayFollow(mode[s], Reached(s), queue[s][1])'
                      /\ \A i \in 1 .. Len(queue'[s]) - 1 :
                            Feed!MayFollow(mode[s], queue[s][i], queue[s][i + 1])'
  BY <1>2 DEF Chained
<1>4. PICK m, h, v, r, q, l, n, e :
         /\ m = mode[s] /\ h = hand[s] /\ v = seen[s] /\ r = Reached(s) /\ q = queue[s]
         /\ l = Len(log) /\ n = Len(log) + 1 /\ e = Enqueued(s, k, n)
  OBVIOUS
<1>5. /\ h \in 0 .. Len(log) /\ v \in 0 .. Len(log) /\ r \in 0 .. Len(log)
      /\ q \in Seq(1 .. Len(log)) /\ Len(q) \in Nat /\ (q # <<>> => Len(q) # 0)
      /\ \A i \in 1 .. Len(q) : q[i] \in 1 .. Len(log)
  BY <1>1, <1>4, QueueType DEF TypeOK, Reached
<1>6. /\ h # 0 => Feed!MayFollow(m, v, h)
      /\ q # <<>> => Feed!MayFollow(m, r, q[1])
      /\ \A i \in 1 .. Len(q) - 1 : Feed!MayFollow(m, q[i], q[i + 1])
  BY <1>3, <1>4 DEF Chained
<1>7. /\ h # 0 => Feed!MayFollow(m, v, h)'
      /\ q # <<>> => Feed!MayFollow(m, r, q[1])'
      /\ \A i \in 1 .. Len(q) - 1 : Feed!MayFollow(m, q[i], q[i + 1])'
  <2>1. h # 0 => Feed!MayFollow(m, v, h)'
    BY <1>1, <1>2, <1>5, <1>6, MayFollowStable
  <2>2. q # <<>> => Feed!MayFollow(m, r, q[1])'
    <3>1. q # <<>> => q[1] \in 0 .. Len(log)
      BY <1>5
    <3> QED BY <1>1, <1>2, <1>5, <1>6, <3>1, MayFollowStable
  <2>3. ASSUME NEW i \in 1 .. Len(q) - 1 PROVE Feed!MayFollow(m, q[i], q[i + 1])'
    <3>1. q[i] \in Nat /\ q[i + 1] \in 0 .. Len(log)
      BY <1>5
    <3>2. Feed!MayFollow(m, q[i], q[i + 1])
      BY <1>6
    <3> QED BY <1>1, <1>2, <3>1, <3>2, MayFollowStable
  <2> QED BY <2>1, <2>2, <2>3
<1>8. mode'[s] = m /\ hand'[s] = h /\ seen'[s] = v /\ Reached(s)' = r
  BY <1>2, <1>4 DEF Reached
<1>9. queue'[s] = q \/ (s \in members /\ queue'[s] = e)
  BY <1>1, <1>4 DEF Publish, TypeOK
<1>10. SUFFICES ASSUME s \in members, queue'[s] = e
                PROVE  /\ e # <<>> => Feed!MayFollow(m, r, e[1])'
                       /\ \A i \in 1 .. Len(e) - 1 : Feed!MayFollow(m, e[i], e[i + 1])'
  <2>1. PICK x : x = queue'[s]
    OBVIOUS
  <2>2. /\ x # <<>> => Feed!MayFollow(m, r, x[1])'
        /\ \A i \in 1 .. Len(x) - 1 : Feed!MayFollow(m, x[i], x[i + 1])'
    <3>1. CASE x = q
      BY <1>7, <3>1
    <3>2. CASE s \in members /\ x = e
      BY <1>10, <2>1, <3>2
    <3> QED BY <1>9, <2>1, <3>1, <3>2
  <2>3. hand'[s] # 0 => Feed!MayFollow(mode[s], seen[s], hand[s])'
    BY <1>7, <1>8 DEF Feed!MayFollow
  <2>4. queue'[s] # <<>> => Feed!MayFollow(mode[s], Reached(s), queue[s][1])'
    BY <1>8, <2>1, <2>2 DEF Feed!MayFollow
  <2>5. \A i \in 1 .. Len(queue'[s]) - 1 : Feed!MayFollow(mode[s], queue[s][i], queue[s][i + 1])'
    BY <1>8, <2>1, <2>2 DEF Feed!MayFollow
  <2> QED BY <1>2, <2>3, <2>4, <2>5
<1>11. ~closed[s] /\ Len(log) = (IF q # <<>> THEN q[Len(q)] ELSE r)
  BY <1>1, <1>4, <1>10 DEF TypeOK, NewestRetained, Newest, Reached
<1>12. CASE Overflows(s, k)
  <2>1. e = <<>> /\ Len(e) = 0
    BY <1>1, <1>4, <1>11, <1>12, EnqueuedShape
  <2> QED BY <2>1
<1>13. CASE Replaces(s, k)
  <2>1. /\ q # <<>> /\ Len(e) = Len(q) /\ e[Len(q)] = n
        /\ \A i \in 1 .. Len(q) - 1 : e[i] = q[i]
    BY <1>1, <1>4, <1>11, <1>13, EnqueuedShape
  <2>2. Newest(s) = Len(log) /\ Len(log) > 0
    BY <1>4, <1>5, <1>11, <2>1 DEF Newest
  <2>3. \A a \in Nat : Feed!MayFollow(m, a, Len(log)) => Feed!MayFollow(m, a, n)'
    BY <1>1, <1>2, <1>4, <1>13, <2>2, MayFollowReplaced
  <2>4. Feed!MayFollow(m, r, e[1])'
    <3>1. CASE Len(q) = 1
      <4>1. Feed!MayFollow(m, r, Len(log)) /\ e[1] = n
        BY <1>6, <1>11, <2>1, <3>1
      <4>2. Feed!MayFollow(m, r, n)'
        BY <1>5, <2>3, <4>1
      <4> QED BY <4>1, <4>2
    <3>2. CASE Len(q) # 1
      <4>1. e[1] = q[1]
        BY <1>5, <2>1, <3>2
      <4> QED BY <1>7, <2>1, <4>1
    <3> QED BY <3>1, <3>2
  <2>5. ASSUME NEW i \in 1 .. Len(e) - 1 PROVE Feed!MayFollow(m, e[i], e[i + 1])'
    <3>1. e[i] = q[i] /\ q[i] \in Nat /\ Feed!MayFollow(m, q[i], q[i + 1])
      BY <1>5, <1>6, <2>1
    <3>2. CASE i + 1 = Len(q)
      <4>1. q[i + 1] = Len(log) /\ e[i + 1] = n
        BY <1>11, <2>1, <3>2
      <4>2. Feed!MayFollow(m, q[i], n)'
        BY <2>3, <3>1, <4>1
      <4> QED BY <3>1, <4>1, <4>2
    <3>3. CASE i + 1 # Len(q)
      <4>1. i + 1 \in 1 .. Len(q) - 1 /\ i \in 1 .. Len(q) - 1
        BY <1>5, <2>1, <3>3
      <4>2. e[i + 1] = q[i + 1]
        BY <2>1, <4>1
      <4> QED BY <1>7, <3>1, <4>1, <4>2
    <3> QED BY <3>2, <3>3
  <2> QED BY <2>4, <2>5
<1>14. CASE ~Replaces(s, k) /\ ~Overflows(s, k)
  <2>1. /\ e # <<>> /\ Len(e) = Len(q) + 1 /\ e[Len(q) + 1] = n
        /\ \A i \in 1 .. Len(q) : e[i] = q[i]
    BY <1>1, <1>4, <1>11, <1>14, EnqueuedShape
  <2>2. Feed!MayFollow(m, l, n)' /\ l = Len(log)
    BY <1>2, <1>4 DEF Feed!MayFollow
  <2>3. Feed!MayFollow(m, r, e[1])'
    <3>1. CASE q = <<>>
      <4>1. Len(q) = 0
        BY <3>1, EmptySeq
      <4>2. e[1] = n /\ r = Len(log)
        BY <1>11, <2>1, <3>1, <4>1
      <4> QED BY <2>2, <4>2
    <3>2. CASE q # <<>>
      <4>1. e[1] = q[1]
        BY <1>5, <2>1, <3>2
      <4> QED BY <1>7, <3>2, <4>1
    <3> QED BY <3>1, <3>2
  <2>4. ASSUME NEW i \in 1 .. Len(e) - 1 PROVE Feed!MayFollow(m, e[i], e[i + 1])'
    <3>1. e[i] = q[i] /\ i \in 1 .. Len(q)
      BY <1>5, <2>1
    <3>2. CASE i = Len(q)
      <4>1. e[i] = Len(log) /\ e[i + 1] = n
        <5>1. q # <<>>
          BY <3>1, <3>2, <1>5, EmptySeq
        <5> QED BY <1>11, <2>1, <3>1, <3>2, <5>1
      <4> QED BY <2>2, <4>1
    <3>3. CASE i # Len(q)
      <4>1. i \in 1 .. Len(q) - 1 /\ e[i + 1] = q[i + 1]
        BY <1>5, <2>1, <3>1, <3>3
      <4> QED BY <1>7, <3>1, <4>1
    <3> QED BY <3>2, <3>3
  <2> QED BY <2>3, <2>4
<1> QED BY <1>12, <1>13, <1>14

LEMMA ChainedInit == Init => Chained
<1> SUFFICES ASSUME Init, NEW s \in Subscribers
             PROVE  /\ hand[s] = 0 /\ queue[s] = <<>>
                    /\ \A i \in 1 .. Len(queue[s]) - 1 : FALSE
  BY DEF Chained
<1> QED BY DEF Init

\* Only the pipeline of the subscription that moves has to be looked at again
\* when the log stays as it is.
LEMMA ChainedLocal ==
    ASSUME Chained, log' = log, NEW s \in Subscribers,
           \A t \in Subscribers \ {s} :
              /\ mode'[t] = mode[t] /\ hand'[t] = hand[t] /\ runner'[t] = runner[t]
              /\ seen'[t] = seen[t] /\ queue'[t] = queue[t],
           hand'[s] # 0 => Feed!MayFollow(mode'[s], seen'[s], hand'[s]),
           queue'[s] # <<>> =>
              Feed!MayFollow(mode'[s], IF hand'[s] # 0 THEN hand'[s] ELSE seen'[s], queue'[s][1]),
           \A i \in 1 .. Len(queue'[s]) - 1 :
              Feed!MayFollow(mode'[s], queue'[s][i], queue'[s][i + 1])
    PROVE  Chained'
BY DEF Chained, Reached, Feed!MayFollow

LEMMA TakeChained ==
    ASSUME Inv, Chained, NEW s \in Subscribers, Take(s) PROVE Chained'
<1>1. TypeOK
  BY DEF Inv
<1>2. CASE queue[s] = <<>>
  <2>1. /\ log' = log /\ UNCHANGED <<mode, hand, seen, queue>> /\ runner[s] # "done"
        /\ \A t \in Subscribers \ {s} : runner'[t] = runner[t]
    BY <1>1, <1>2 DEF Take, TypeOK
  <2>2. /\ hand[s] # 0 => Feed!MayFollow(mode[s], seen[s], hand[s])
        /\ queue[s] # <<>> => Feed!MayFollow(mode[s], Reached(s), queue[s][1])
        /\ \A i \in 1 .. Len(queue[s]) - 1 : Feed!MayFollow(mode[s], queue[s][i], queue[s][i + 1])
    BY <2>1 DEF Chained
  <2> QED BY <2>1, <2>2, ChainedLocal DEF Reached
<1>3. CASE queue[s] # <<>>
  <2>1. PICK S, q, r : S = 1 .. Len(log) /\ q = queue[s] /\ r = Tail(q)
    OBVIOUS
  <2>2. q \in Seq(S) /\ q # <<>>
    BY <1>1, <1>3, <2>1, QueueType
  <2>3. /\ Head(q) = q[1] /\ q[1] \in S /\ Len(q) \in Nat \ {0} /\ Len(r) = Len(q) - 1
        /\ \A i \in 1 .. Len(q) - 1 : r[i] = q[i + 1]
        /\ r # <<>> => Len(r) \in Nat \ {0}
    BY <2>1, <2>2, TailShape
  <2>4. /\ log' = log /\ mode'[s] = mode[s] /\ seen'[s] = seen[s] /\ hand[s] = 0
        /\ hand'[s] = q[1] /\ queue'[s] = r /\ runner[s] # "done"
        /\ \A t \in Subscribers \ {s} :
              /\ mode'[t] = mode[t] /\ hand'[t] = hand[t] /\ runner'[t] = runner[t]
              /\ seen'[t] = seen[t] /\ queue'[t] = queue[t]
    BY <1>1, <1>3, <2>1, <2>3 DEF Take, TypeOK
  <2>5. Feed!MayFollow(mode'[s], seen'[s], hand'[s])
    BY <2>1, <2>2, <2>4 DEF Chained, Reached
  <2>6. queue'[s] # <<>> =>
          Feed!MayFollow(mode'[s], IF hand'[s] # 0 THEN hand'[s] ELSE seen'[s], queue'[s][1])
    <3>1. q[1] # 0
      BY <2>1, <2>3
    <3>2. r # <<>> => r[1] = q[2] /\ 1 \in 1 .. Len(q) - 1
      BY <2>3
    <3>3. r # <<>> => Feed!MayFollow(mode[s], q[1], q[1 + 1])
      BY <2>1, <2>4, <3>2 DEF Chained
    <3> QED BY <2>4, <3>1, <3>2, <3>3
  <2>7. ASSUME NEW i \in 1 .. Len(queue'[s]) - 1
        PROVE  Feed!MayFollow(mode'[s], queue'[s][i], queue'[s][i + 1])
    <3>1. i \in 1 .. Len(q) - 1 /\ i + 1 \in 1 .. Len(q) - 1
      BY <2>3, <2>4
    <3>2. r[i] = q[i + 1] /\ r[i + 1] = q[i + 1 + 1]
      BY <2>3, <3>1
    <3>3. Feed!MayFollow(mode[s], q[i + 1], q[i + 1 + 1])
      BY <2>1, <2>4, <3>1 DEF Chained
    <3> QED BY <2>4, <3>2, <3>3
  <2> QED BY <2>4, <2>5, <2>6, <2>7, ChainedLocal
<1> QED BY <1>2, <1>3

LEMMA ChainedNext == Inv /\ Chained /\ [Next]_vars => Chained'
<1> SUFFICES ASSUME Inv, Chained, [Next]_vars PROVE Chained'
  OBVIOUS
<1>1. TypeOK /\ Unborn
  BY DEF Inv
<1> USE DEF Chained, Reached, Feed!MayFollow
<1>2. ASSUME NEW s \in Subscribers, NEW m \in Modes, Subscribe(s, m) PROVE Chained'
  <2>1. queue[s] = <<>> /\ Len(queue[s]) = 0 /\ hand[s] = 0
    BY <1>1, <1>2, EmptySeq DEF Subscribe, TypeOK, Unborn
  <2>2. /\ log' = log /\ hand'[s] = 0 /\ queue'[s] = <<>>
        /\ \A i \in 1 .. Len(queue'[s]) - 1 : FALSE
        /\ \A t \in Subscribers \ {s} :
              /\ mode'[t] = mode[t] /\ hand'[t] = hand[t] /\ runner'[t] = runner[t]
              /\ seen'[t] = seen[t] /\ queue'[t] = queue[t]
    BY <1>1, <1>2, <2>1 DEF Subscribe, TypeOK
  <2> HIDE DEF Chained, Reached, Feed!MayFollow
  <2> QED BY <2>2, ChainedLocal
<1>3. ASSUME NEW s \in Subscribers, Close(s) PROVE Chained'
  BY <1>3 DEF Close, subscriptionVars
<1>4. ASSUME NEW s \in Subscribers, Deliver(s) PROVE Chained'
  <2>1. /\ log' = log /\ mode' = mode /\ queue' = queue
        /\ hand[s] # 0 /\ hand'[s] = 0 /\ seen'[s] = hand[s] /\ runner[s] # "done"
        /\ \A t \in Subscribers \ {s} :
              hand'[t] = hand[t] /\ runner'[t] = runner[t] /\ seen'[t] = seen[t]
    BY <1>1, <1>4 DEF Deliver, TypeOK
  <2>2. /\ queue[s] # <<>> => Feed!MayFollow(mode[s], hand[s], queue[s][1])
        /\ \A i \in 1 .. Len(queue[s]) - 1 : Feed!MayFollow(mode[s], queue[s][i], queue[s][i + 1])
    BY <2>1
  <2> HIDE DEF Chained, Reached, Feed!MayFollow
  <2> QED BY <2>1, <2>2, ChainedLocal
<1>5. ASSUME NEW s \in Subscribers, Wake(s) PROVE Chained'
  BY <1>5 DEF Wake
<1>6. ASSUME NEW s \in Subscribers, Stop(s) PROVE Chained'
  BY <1>1, <1>6 DEF Stop, TypeOK
<1>7. CASE UNCHANGED vars
  BY <1>7 DEF vars
<1> QED BY <1>2, <1>3, <1>4, <1>5, <1>6, <1>7, PublishChained, TakeChained DEF Next

LEMMA FeedInit == Init => Feed!Init
BY DEF Init, Feed!Init, FeedState

\* Every step of the broker or of a delivery goroutine is a step of the feed, or
\* one the consumer cannot see.
LEMMA FeedNext == Inv /\ Chained /\ [Next]_vars => [Feed!Next]_(Feed!feedVars)
<1> SUFFICES ASSUME Inv, Chained, [Next]_vars PROVE [Feed!Next]_(Feed!feedVars)
  OBVIOUS
<1>1. TypeOK
  BY DEF Inv
<1>2. \A s \in Subscribers : runner[s] # "none" /\ runner[s] # "done" => FeedState(runner[s]) = "open"
  BY DEF FeedState
<1>3. ASSUME NEW k \in Keys \cup {NoKey}, Publish(k) PROVE Feed!Next
  BY <1>3 DEF Publish, subscriptionVars, Feed!Next, Feed!Publish
<1>4. ASSUME NEW s \in Subscribers, NEW m \in Modes, Subscribe(s, m) PROVE Feed!Next
  <2>1. Feed!Begin(s, m)
    BY <1>1, <1>4 DEF Subscribe, TypeOK, FeedState, Feed!Begin
  <2> QED BY <2>1 DEF Feed!Next, Feed!Modes
<1>5. ASSUME NEW s \in Subscribers, Close(s) PROVE UNCHANGED Feed!feedVars
  BY <1>5 DEF Close, subscriptionVars, Feed!feedVars
<1>6. ASSUME NEW s \in Subscribers, Take(s) \/ Wake(s) PROVE UNCHANGED Feed!feedVars
  <2>1. \A t \in Subscribers : FeedState(runner'[t]) = FeedState(runner[t])
    BY <1>1, <1>6 DEF Take, Wake, TypeOK, FeedState
  <2>2. log' = log /\ mode' = mode /\ seen' = seen
    BY <1>6 DEF Take, Wake
  <2> QED BY <2>1, <2>2 DEF Feed!feedVars
<1>7. ASSUME NEW s \in Subscribers, Deliver(s) PROVE Feed!Next
  <2>1. runner[s] = "send" /\ hand[s] # 0 /\ hand[s] \in 1 .. Len(log) /\ seen[s] \in Nat
    BY <1>1, <1>7 DEF Deliver, TypeOK
  <2>2. Feed!MayFollow(mode[s], seen[s], hand[s])
    BY <2>1 DEF Chained
  <2>3. hand[s] \in seen[s] + 1 .. Len(log)
    BY <1>1, <2>1, <2>2 DEF TypeOK, Feed!MayFollow
  <2>4. \A t \in Subscribers : FeedState(runner'[t]) = FeedState(runner[t])
    BY <1>1, <1>7 DEF Deliver, TypeOK, FeedState
  <2>5. Feed!Receive(s)
    BY <1>2, <1>7, <2>1, <2>2, <2>3, <2>4 DEF Deliver, Feed!Receive
  <2> QED BY <2>5 DEF Feed!Next
<1>8. ASSUME NEW s \in Subscribers, Stop(s) PROVE Feed!Next
  <2>1. Feed!End(s)
    BY <1>1, <1>2, <1>8 DEF Stop, TypeOK, FeedState, Feed!End
  <2> QED BY <2>1 DEF Feed!Next
<1>9. CASE UNCHANGED vars
  BY <1>9 DEF vars, Feed!feedVars
<1> QED BY <1>3, <1>4, <1>5, <1>6, <1>7, <1>8, <1>9 DEF Next

\* Whatever the mode, a consumer receives values in publication order, misses only
\* values its mode lets a newer one supersede, and receives nothing after its
\* events channel is closed: Broadcast implements EventFeed.
THEOREM DeliversLikeAFeed == Spec => FeedSpec
<1>1. Init => Inv /\ Chained /\ Feed!Init
  BY InvInit, ChainedInit, FeedInit
<1>2. Inv /\ Chained /\ [Next]_vars => (Inv /\ Chained)'
  BY InvNext, ChainedNext
<1> QED BY <1>1, <1>2, FeedNext, PTL DEF Spec, FeedSpec, Feed!Spec
==============================================================================
