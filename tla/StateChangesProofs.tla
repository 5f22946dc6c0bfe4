------------------------- MODULE StateChangesProofs -------------------------
(***************************************************************************)
(* Theorems about StateChanges for any subscriptions, interests, changes   *)
(* and number of writes.                                                   *)
(***************************************************************************)
EXTENDS StateChanges, TLAPS

\* matches compares ids; what a subscription's snapshot shows is a matter of
\* places.  The two agree on every change the program can publish.
LEMMA MatchesIsConcerns ==
    ASSUME NEW s \in Subscriptions, NEW c \in Changes
    PROVE  Matches(s, c) <=> Concerns(s, c)
<1>1. /\ Interest[s].scope \in Scopes
      /\ c.scope \in Scopes
  BY StateChangesAssumption
<1> QED BY <1>1 DEF Matches, Concerns, Places, Scopes

LEMMA TypeInit == Init => TypeOK
BY DEF Init, TypeOK

LEMMA TypeNext == TypeOK /\ [Next]_vars => TypeOK'
<1> SUFFICES ASSUME TypeOK, [Next]_vars PROVE TypeOK'
  OBVIOUS
<1> USE StateChangesAssumption DEF TypeOK, stateVars, throttleVars, handlerVars
<1>1. ASSUME NEW c \in Changes, Write(c) PROVE TypeOK'
  BY <1>1 DEF Write
<1>2. ASSUME NEW c \in Changes, Notify(c) PROVE TypeOK'
  <2>1. untold' \in [Changes -> Nat]
    BY <1>2 DEF Notify
  <2> QED BY <1>2, <2>1 DEF Notify, Publish
<1>3. ASSUME NEW c \in Changes, Schedule(c) PROVE TypeOK'
  BY <1>3 DEF Schedule
<1>4. ASSUME NEW c \in Changes, Expire(c) PROVE TypeOK'
  BY <1>4 DEF Expire
<1>5. ASSUME NEW c \in Changes, FirePublish(c) PROVE TypeOK'
  <2>1. firing' \in [BrowserChanges -> Nat]
    BY <1>5 DEF FirePublish
  <2> QED BY <1>5, <2>1 DEF FirePublish, Publish
<1>6. ASSUME NEW s \in Subscriptions, Subscribe(s) \/ Reconcile(s) \/ Close(s) PROVE TypeOK'
  BY <1>6 DEF Subscribe, Reconcile, Close
<1>7. ASSUME NEW s \in Subscriptions, Read(s) PROVE TypeOK'
  BY <1>7 DEF Read
<1>8. ASSUME NEW s \in Subscriptions, Wake(s) PROVE TypeOK'
  BY <1>8 DEF Wake
<1>9. CASE UNCHANGED vars
  BY <1>9 DEF vars
<1> QED BY <1>1, <1>2, <1>3, <1>4, <1>5, <1>6, <1>7, <1>8, <1>9 DEF Next

\* A publication accounts for what is no longer on its way.
LEMMA PublishKeeps ==
    ASSUME TypeOK, NeverIdleAndStale, NEW d \in Changes, Publish(d), version' = version,
           \A c \in Changes \ {d} : OnItsWay(c) => OnItsWay(c)'
    PROVE  NeverIdleAndStale'
<1> SUFFICES ASSUME NEW s \in Subscriptions, NEW c \in Changes,
                    handler'[s] = "wait", ~wake'[s], Concerns(s, c), ~OnItsWay(c)'
             PROVE  seen'[s][c] = version'[c]
  BY DEF NeverIdleAndStale, Concerns, Places
<1>1. handler[s] = "wait" /\ ~wake[s] /\ ~Matches(s, d) /\ seen' = seen
  BY DEF Publish, TypeOK
<1>2. c # d
  BY <1>1, MatchesIsConcerns
<1> QED BY <1>1, <1>2 DEF NeverIdleAndStale

LEMMA StaleNext == TypeOK /\ NeverIdleAndStale /\ [Next]_vars => NeverIdleAndStale'
<1> SUFFICES ASSUME TypeOK, NeverIdleAndStale, [Next]_vars PROVE NeverIdleAndStale'
  OBVIOUS
<1> USE StateChangesAssumption DEF stateVars, throttleVars, handlerVars
<1>1. ASSUME NEW c \in Changes, Write(c) PROVE NeverIdleAndStale'
  <2>1. untold'[c] > 0
    BY <1>1 DEF Write, TypeOK
  <2> QED BY <1>1, <2>1 DEF Write, TypeOK, NeverIdleAndStale, OnItsWay, Concerns, Places
<1>2. ASSUME NEW c \in Changes, Notify(c) PROVE NeverIdleAndStale'
  <2>1. \A d \in Changes \ {c} : OnItsWay(d) => OnItsWay(d)'
    BY <1>2 DEF Notify, TypeOK, OnItsWay
  <2> QED BY <1>2, <2>1, PublishKeeps DEF Notify
<1>3. ASSUME NEW c \in Changes, Schedule(c) PROVE NeverIdleAndStale'
  <2>1. \A d \in Changes : OnItsWay(d) => OnItsWay(d)'
    BY <1>3 DEF Schedule, TypeOK, OnItsWay
  <2> QED BY <1>3, <2>1 DEF Schedule, NeverIdleAndStale, Concerns, Places
<1>4. ASSUME NEW c \in Changes, Expire(c) PROVE NeverIdleAndStale'
  <2>1. \A d \in Changes : OnItsWay(d) => OnItsWay(d)'
    BY <1>4 DEF Expire, TypeOK, OnItsWay
  <2> QED BY <1>4, <2>1 DEF Expire, NeverIdleAndStale, Concerns, Places
<1>5. ASSUME NEW c \in Changes, FirePublish(c) PROVE NeverIdleAndStale'
  <2>1. \A d \in Changes \ {c} : OnItsWay(d) => OnItsWay(d)'
    BY <1>5 DEF FirePublish, TypeOK, OnItsWay
  <2> QED BY <1>5, <2>1, PublishKeeps DEF FirePublish
<1> USE DEF NeverIdleAndStale, OnItsWay, Concerns, Places
<1>6. ASSUME NEW s \in Subscriptions, Subscribe(s) \/ Reconcile(s) \/ Close(s)
      PROVE  NeverIdleAndStale'
  BY <1>6 DEF Subscribe, Reconcile, Close, TypeOK
<1>7. ASSUME NEW s \in Subscriptions, Read(s) PROVE NeverIdleAndStale'
  BY <1>7 DEF Read, TypeOK
<1>8. ASSUME NEW s \in Subscriptions, Wake(s) PROVE NeverIdleAndStale'
  BY <1>8 DEF Wake, TypeOK
<1>9. CASE UNCHANGED vars
  BY <1>9 DEF vars
<1> QED BY <1>1, <1>2, <1>3, <1>4, <1>5, <1>6, <1>7, <1>8, <1>9 DEF Next

(* Every counter, token and timer of the change feed has its type, however  *)
(* writers, timers and handlers interleave.                                 *)
THEOREM TypeCorrect == Spec => []TypeOK
BY TypeInit, TypeNext, PTL DEF Spec

\* A sleeping handler without a wake token has shown every write that concerns it,
\* except those whose publication is still to come.
THEOREM NeverStale == Spec => []NeverIdleAndStale
<1>1. Init => NeverIdleAndStale
  BY DEF Init, NeverIdleAndStale
<1> QED BY <1>1, TypeInit, TypeNext, StaleNext, PTL DEF Spec

\* A token in a wake channel means that something of the subscription's own changed.
THEOREM NoForeignWakes == Spec => []NoForeignWake
<1> DEFINE Told == \A c \in Changes : OnItsWay(c) => version[c] > 0
           I == TypeOK /\ Told /\ NoForeignWake
<1>1. Init => I
  BY TypeInit, StateChangesAssumption DEF Init, OnItsWay, NoForeignWake
<1>2. I /\ [Next]_vars => I'
  <2> SUFFICES ASSUME TypeOK, Told, NoForeignWake, [Next]_vars PROVE (Told /\ NoForeignWake)'
    BY TypeNext
  <2>1. \A c \in Changes : version[c] > 0 => version'[c] > 0
    BY DEF Next, Write, Notify, Schedule, Expire, FirePublish, Subscribe, Read, Wake,
           Reconcile, Close, vars, stateVars, TypeOK
  <2>2. ASSUME NEW c \in Changes, OnItsWay(c)' PROVE OnItsWay(c) \/ version'[c] > 0
    BY <2>2, StateChangesAssumption
       DEF Next, Write, Notify, Schedule, Expire, FirePublish, Subscribe, Read, Wake, OnItsWay,
           Reconcile, Close, vars, stateVars, throttleVars, TypeOK
  <2>3. Told'
    BY <2>1, <2>2
  <2>4. ASSUME NEW s \in Subscriptions, wake'[s]
        PROVE  wake[s] \/ \E c \in Changes : OnItsWay(c) /\ Concerns(s, c)
    BY <2>4, MatchesIsConcerns, StateChangesAssumption
       DEF Next, Write, Notify, Schedule, Expire, FirePublish, Publish, Subscribe, Read, Wake,
           OnItsWay, Reconcile, Close, vars, handlerVars, TypeOK
  <2>5. ASSUME NEW s \in Subscriptions, wake'[s]
        PROVE  \E c \in Changes : Concerns(s, c) /\ version'[c] > 0
    <3>1. \E c \in Changes : Concerns(s, c) /\ version[c] > 0
      BY <2>4, <2>5 DEF NoForeignWake
    <3> QED BY <2>1, <3>1
  <2> QED BY <2>3, <2>5 DEF NoForeignWake, Concerns, Places
<1> QED BY <1>1, <1>2, PTL DEF Spec
==============================================================================
