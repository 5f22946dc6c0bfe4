------------------------- MODULE AgentActivityProofs -------------------------
(***************************************************************************)
(* For any number of prompts, troubles and retired tokens: the state of    *)
(* AgentActivity stays well formed, no report brings a prompt back, and    *)
(* the browser shows what the server last sent.                            *)
(***************************************************************************)
EXTENDS AgentActivity, SequenceTheorems, TLAPS

(* What the hooks of a session keep true: its file is at the last prompt,   *)
(* and only a prompt with a heartbeat is at work.  The heartbeat of a       *)
(* process that is gone may have put an earlier start in the file.          *)
HooksAgree ==
    /\ file.token = prompt /\ file.startedAt <= prompt
    /\ turn # "idle" => prompt # NoPrompt
    /\ file.state = "working" => /\ prompt # NoPrompt /\ file.startedAt = prompt
                                 /\ beats[prompt] \in {"starts", "on"}
    /\ \A p \in Prompts : beats[p] # "off" => p <= prompt

(* A report never claims a later start than its token's.                    *)
Honest(r) == /\ r.startedAt <= r.token /\ r.token <= prompt
             /\ r.state = "working" => r.startedAt = r.token
ReportsHonest == \A r \in reports : Honest(r)

(* The order is that of the newest start, unless that is forgotten.         *)
OrderFollows ==
    /\ newest.startedAt <= prompt /\ order.latest <= newest.startedAt
    /\ order.active \in {NoPrompt, newest.startedAt}
    /\ order.active # NoPrompt => ~newest.over
    /\ activity # Nothing => activity.prompt >= newest.startedAt
    /\ activity.state = "working" => order.active = activity.prompt

(* Once it is forgotten nothing is at work, and all that can still be       *)
(* reported to work started later.                                          *)
ForgottenLate ==
    order.latest < newest.startedAt =>
        /\ order.active = NoPrompt
        /\ \A r \in reports : /\ r.token >= newest.startedAt
                              /\ r.state = "working" => r.startedAt > newest.startedAt
        /\ file.state = "working" => file.startedAt > newest.startedAt
        /\ \A p \in Prompts : beats[p] # "off" => p > newest.startedAt

IInv == TypeOK /\ HooksAgree /\ ReportsHonest /\ OrderFollows /\ ForgottenLate

------------------------------------------------------------------------------
LEMMA HooksNext ==
    ASSUME HookTypes, HooksAgree, ReportsHonest, [Next]_vars
    PROVE  HookTypes' /\ HooksAgree' /\ ReportsHonest'
<1> DEFINE Goal == HookTypes' /\ HooksAgree' /\ ReportsHonest'
<1> USE AgentActivityAssumption DEF HookTypes, HooksAgree, ReportsHonest, Honest, Prompts,
                                    NoPrompt, Reports, NoReport, States
<1>1. CASE Start
  BY <1>1 DEF Start, Report
<1>2. CASE Finish
  <2>1. CASE turn' = "delegated" /\ UNCHANGED <<file, reports>>
    BY <1>2, <2>1 DEF Finish
  <2>2. CASE turn' = "idle" /\ Transition(Report("finished", file.token, file.startedAt))
    BY <1>2, <2>2 DEF Finish, Report, Transition, WritesState, Send
  <2> QED BY <1>2, <2>1, <2>2 DEF Finish
<1>3. CASE EndSession
  <2>1. CASE file.state = "working"
    <3>1. /\ file \in Reports /\ file.startedAt = file.token
          /\ alive' = FALSE /\ turn' = "idle" /\ gone' = prompt /\ UNCHANGED <<prompt, beats>>
          /\ file' = Report("idle", file.token, file.startedAt)
          /\ reports' = reports \cup {file'}
      BY <1>3, <2>1 DEF EndSession, Transition, WritesState, Send
    <3>2. file' \in Reports /\ file'.token = prompt /\ file'.startedAt = prompt /\ file'.state = "idle"
      BY <3>1 DEF Report
    <3> QED BY <3>1, <3>2
  <2>2. CASE file.state # "working"
    BY <1>3, <2>2 DEF EndSession
  <2> QED BY <2>1, <2>2
<1>4. CASE Die
  BY <1>4 DEF Die
<1>6. CASE Resume
  BY <1>6 DEF Resume
<1>7. ASSUME NEW p \in Prompts, BeatStarts(p) PROVE Goal
  BY <1>7 DEF BeatStarts, Current
<1>8. ASSUME NEW p \in Prompts, Beat(p) PROVE Goal
  BY <1>8 DEF Beat, Current, Report, Send
<1>9. ASSUME NEW p \in Prompts, BeatEnds(p) PROVE Goal
  BY <1>9 DEF BeatEnds, Report, Transition, WritesState, Send
<1>11. ASSUME NEW r \in reports, Lose(r) \/ Update(r) PROVE Goal
  BY <1>11 DEF Lose, Update, agentVars
<1>12. CASE Restart
  BY <1>12 DEF Restart, Repeated, agentVars
<1>13. CASE UNCHANGED <<agentVars, reports>>
  BY <1>13 DEF agentVars
<1>14. \/ Expire \/ Forget \/ Push \/ Receive \/ UNCHANGED vars
       \/ \E i \in Acks : \/ \E retryFailed \in BOOLEAN : Acknowledge(i, retryFailed)
                         \/ ServeAck(i) \/ Confirmed(i) \/ Failed(i)
       => UNCHANGED <<agentVars, reports>>
  BY DEF Expire, Forget, Push, Receive, Acknowledge, ServeAck, Confirmed, Failed, vars
<1> QED
  BY <1>1, <1>2, <1>3, <1>4, <1>6, <1>7, <1>8, <1>9, <1>11, <1>12, <1>13, <1>14 DEF Next

------------------------------------------------------------------------------
LEMMA RetireType ==
    ASSUME NEW retired \in Seq(Prompts), Len(retired) <= RetiredLimit, NEW token \in 0 .. MaxPrompts
    PROVE  Retire(retired, token) \in Seq(Prompts) /\ Len(Retire(retired, token)) <= RetiredLimit
<1> DEFINE more == IF token = NoPrompt \/ Contains(retired, token) THEN retired
                   ELSE Append(retired, token)
           first == IF Len(more) > RetiredLimit THEN 2 ELSE 1
<1>1. more \in Seq(Prompts) /\ Len(more) <= RetiredLimit + 1
  <2>1. Len(retired) \in Nat /\ RetiredLimit \in Nat \ {0}
    BY LenProperties, AgentActivityAssumption
  <2>2. CASE token = NoPrompt \/ Contains(retired, token)
    BY <2>1, <2>2
  <2>3. CASE token # NoPrompt /\ ~Contains(retired, token)
    <3>1. token \in Prompts
      BY <2>3, AgentActivityAssumption DEF Prompts, NoPrompt
    <3>2. Append(retired, token) \in Seq(Prompts) /\ Len(Append(retired, token)) = Len(retired) + 1
      BY <3>1, AppendProperties
    <3> QED BY <2>1, <2>3, <3>2
  <2> QED BY <2>2, <2>3
<1>2. first \in {1, 2} /\ Len(more) \in Nat /\ RetiredLimit \in Nat \ {0}
  BY <1>1, AgentActivityAssumption, LenProperties
<1> HIDE DEF more
<1>3. /\ SubSeq(more, first, Len(more)) \in Seq(Prompts)
      /\ Len(SubSeq(more, first, Len(more))) = IF first <= Len(more) THEN Len(more) - first + 1 ELSE 0
  BY <1>1, <1>2, SubSeqProperties
<1>4. Retire(retired, token) = SubSeq(more, first, Len(more))
  BY DEF Retire, more
<1>5. Len(SubSeq(more, first, Len(more))) <= RetiredLimit
  BY <1>1, <1>2, <1>3
<1> QED BY <1>3, <1>4, <1>5

LEMMA OrderedType ==
    ASSUME TrackerTypes, NEW r \in Reports
    PROVE  /\ Ordered(r).active \in {NoPrompt, r.token}
           /\ Ordered(r).active = r.token <=> r.state = "working"
           /\ Ordered(r).latest = IF order.active # r.token /\ r.startedAt > order.latest
                                  THEN r.startedAt ELSE order.latest
           /\ Ordered(r).retired \in Seq(Prompts) /\ Len(Ordered(r).retired) <= RetiredLimit
<1> DEFINE begins == order.active # r.token
           retired == IF begins THEN Retire(order.retired, order.active) ELSE order.retired
<1>1. r.token \in Prompts /\ r.token \in 0 .. MaxPrompts /\ r.token # NoPrompt
  BY AgentActivityAssumption DEF Reports, Prompts, NoPrompt
<1>2. retired \in Seq(Prompts) /\ Len(retired) <= RetiredLimit
  BY RetireType DEF TrackerTypes
<1>3. Retire(retired, r.token) \in Seq(Prompts) /\ Len(Retire(retired, r.token)) <= RetiredLimit
  BY <1>1, <1>2, RetireType
<1> QED BY <1>1, <1>2, <1>3 DEF Ordered

\* A mark is a new one, or goes on working.
LEMMA MarkType ==
    ASSUME TrackerTypes, NEW r \in Reports, r.state # "idle"
    PROVE  /\ Mark(r) \in Activities
           /\ Mark(r).state = r.state /\ Mark(r).prompt = r.token
           /\ Mark(r) = last \/ Mark(r).at = last.at + 1
<1>1. last \in Activities \cup {Nothing} /\ last.at \in Nat
  BY DEF TrackerTypes, Activities, Nothing
<1>2. CASE r.state = "working" /\ last.state = "working" /\ last.prompt = r.token
  BY <1>1, <1>2 DEF Mark, Nothing
<1>3. CASE ~(r.state = "working" /\ last.state = "working" /\ last.prompt = r.token)
  <2>1. Mark(r) = [state |-> r.state, prompt |-> r.token, at |-> last.at + 1]
    BY <1>3 DEF Mark
  <2>2. r.state \in {"working", "finished"} /\ r.token \in Prompts /\ last.at + 1 \in Nat \ {0}
    BY <1>1 DEF Reports, States
  <2> QED BY <2>1, <2>2 DEF Activities
<1> QED BY <1>2, <1>3

\* A report that is applied is that of a newer start, of the prompt at work, or the end of a
\* turn whose order is forgotten.
LEMMA AppliedNext ==
    ASSUME IInv, NEW r \in reports, Accepts(r), Update(r)
    PROVE  TrackerTypes' /\ OrderFollows' /\ ForgottenLate'
<1>1. /\ r \in Reports /\ r.token \in 1 .. MaxPrompts /\ r.startedAt \in 1 .. MaxPrompts
      /\ r.startedAt <= r.token /\ r.token <= prompt
      /\ r.state = "working" => r.startedAt = r.token
      /\ r.state \in States
  BY DEF IInv, TypeOK, HookTypes, ReportsHonest, Honest, Reports, Prompts
<1>2. /\ order' = Ordered(r) /\ newest' = Later(newest, r) /\ reports' \subseteq reports
      /\ activity' = IF r.state = "idle" THEN Nothing ELSE Mark(r)
      /\ last' = IF r.state = "idle" THEN last ELSE Mark(r)
      /\ UNCHANGED <<prompt, file, beats>>
  BY DEF Update, agentVars
<1>3. /\ newest.startedAt \in 0 .. MaxPrompts /\ newest.over \in BOOLEAN /\ newest.startedAt <= prompt
      /\ newest = [startedAt |-> newest.startedAt, over |-> newest.over]
      /\ order.active \in 0 .. MaxPrompts /\ order.latest \in 0 .. MaxPrompts
      /\ order.latest <= newest.startedAt /\ order.active \in {NoPrompt, newest.startedAt}
      /\ order.active # NoPrompt => ~newest.over /\ order.latest = newest.startedAt
      /\ prompt \in 0 .. MaxPrompts /\ MaxPrompts \in Nat
  BY AgentActivityAssumption
     DEF IInv, TypeOK, HookTypes, TrackerTypes, OrderFollows, ForgottenLate, NoPrompt
<1>4. /\ order'.active = IF r.state = "working" THEN r.token ELSE NoPrompt
      /\ order'.latest = IF order.active # r.token /\ r.startedAt > order.latest
                         THEN r.startedAt ELSE order.latest
      /\ order'.retired \in Seq(Prompts) /\ Len(order'.retired) <= RetiredLimit
  BY <1>1, <1>2, OrderedType DEF IInv, TypeOK, NoPrompt
<1>5. /\ r.state # "idle" => /\ activity' \in Activities /\ activity' = last'
                             /\ activity'.state = r.state /\ activity'.prompt = r.token
      /\ r.state = "idle" => activity' = Nothing /\ UNCHANGED last
      /\ last \in Activities \cup {Nothing}
  BY <1>1, <1>2, MarkType DEF IInv, TypeOK, TrackerTypes
<1> DEFINE over == r.state # "working" \/ (r.startedAt = newest.startedAt /\ newest.over)
<1>6. newest' = IF r.startedAt < newest.startedAt THEN newest
                ELSE [startedAt |-> r.startedAt, over |-> over]
  BY <1>2 DEF Later
<1>7. over \in BOOLEAN
  OBVIOUS
<1>8. newest' \in [startedAt : 0 .. MaxPrompts, over : BOOLEAN]
  <2>1. CASE r.startedAt < newest.startedAt
    BY <1>3, <1>6, <2>1
  <2>2. CASE ~(r.startedAt < newest.startedAt)
    <3> HIDE DEF over
    <3> QED BY <1>1, <1>6, <1>7, <2>2
  <2> QED BY <2>1, <2>2
<1>9. TrackerTypes'
  <2>1. order'.active \in 0 .. MaxPrompts /\ order'.latest \in 0 .. MaxPrompts
    BY <1>1, <1>3, <1>4 DEF NoPrompt
  <2>2. {activity', last'} \subseteq Activities \cup {Nothing}
    BY <1>1, <1>5 DEF States
  <2> QED BY <1>4, <1>8, <2>1, <2>2 DEF TrackerTypes
<1>10. CASE r.startedAt > newest.startedAt
  <2>1. newest'.startedAt = r.startedAt /\ order'.latest = r.startedAt
    <3>1. ~(r.startedAt < newest.startedAt) /\ r.startedAt > order.latest
      BY <1>1, <1>3, <1>10
    <3>2. newest'.startedAt = r.startedAt
      <4> HIDE DEF over
      <4> QED BY <1>6, <3>1
    <3>3. order.active # r.token
      BY <1>1, <1>3, <1>10 DEF NoPrompt
    <3>4. order'.latest = r.startedAt
      BY <1>4, <3>1, <3>3
    <3> QED BY <3>2, <3>4
  <2>2. r.state = "working" => ~newest'.over
    <3> SUFFICES ASSUME r.state = "working" PROVE ~newest'.over
      OBVIOUS
    <3>1. over = FALSE
      BY <1>1, <1>3, <1>10
    <3> HIDE DEF over
    <3> QED BY <1>1, <1>3, <1>6, <1>10, <3>1
  <2>3. OrderFollows'
    BY <1>1, <1>2, <1>3, <1>4, <1>5, <2>1, <2>2 DEF OrderFollows, NoPrompt, Nothing
  <2>4. ForgottenLate'
    BY <1>1, <2>1 DEF ForgottenLate
  <2> QED BY <1>9, <2>3, <2>4
<1>11. CASE order.active = r.token
  <2>1. newest.startedAt = r.token /\ newest.over = FALSE /\ order.latest = r.token
    BY <1>1, <1>3, <1>11 DEF NoPrompt
  <2>2. newest'.startedAt = r.token /\ order'.latest = r.token
    BY <1>1, <1>3, <1>4, <1>6, <1>11, <2>1
  <2>3. r.state = "working" => ~newest'.over
    <3> SUFFICES ASSUME r.state = "working" PROVE ~newest'.over
      OBVIOUS
    <3>1. over = FALSE
      BY <2>1
    <3> HIDE DEF over
    <3> QED BY <1>1, <1>6, <2>1, <3>1
  <2>4. OrderFollows'
    BY <1>1, <1>2, <1>3, <1>4, <1>5, <2>2, <2>3 DEF OrderFollows, NoPrompt, Nothing
  <2>5. ForgottenLate'
    BY <1>1, <2>2 DEF ForgottenLate
  <2> QED BY <1>9, <2>4, <2>5
<1>12. CASE r.startedAt <= newest.startedAt /\ order.active # r.token
  <2>1. order.latest < newest.startedAt
    BY <1>1, <1>3, <1>12 DEF Accepts, CanSupersede, NoPrompt
  <2>2. /\ order.active = NoPrompt /\ r.state # "working" /\ r.token >= newest.startedAt
    BY <1>1, <1>3, <1>12, <2>1 DEF IInv, ForgottenLate
  <2>3. newest'.startedAt = newest.startedAt /\ order'.latest <= newest.startedAt
    BY <1>1, <1>3, <1>4, <1>6, <1>12, <2>1
  <2>4. OrderFollows'
    BY <1>1, <1>2, <1>3, <1>4, <1>5, <2>2, <2>3 DEF OrderFollows, NoPrompt, Nothing
  <2>5. ForgottenLate'
    BY <1>2, <1>4, <2>1, <2>2, <2>3 DEF IInv, ForgottenLate
  <2> QED BY <1>9, <2>4, <2>5
<1> QED BY <1>1, <1>3, <1>10, <1>11, <1>12

\* A hook or a heartbeat acts: what works by it is newer than a forgotten order.
LEMMA TrackerUntouched ==
    ASSUME IInv, HookTypes', prompt' >= prompt, UNCHANGED trackerVars,
           order.latest < newest.startedAt =>
               /\ \A r \in reports' : /\ r.token >= newest.startedAt
                                      /\ r.state = "working" => r.startedAt > newest.startedAt
               /\ file'.state = "working" => file'.startedAt > newest.startedAt
               /\ \A p \in Prompts : beats'[p] # "off" => p > newest.startedAt
    PROVE  TrackerTypes' /\ OrderFollows' /\ ForgottenLate'
<1>1. TrackerTypes'
  BY DEF IInv, TypeOK, TrackerTypes, trackerVars
<1>2. OrderFollows'
  BY AgentActivityAssumption
     DEF IInv, TypeOK, HookTypes, TrackerTypes, OrderFollows, trackerVars, Nothing
<1>3. ForgottenLate'
  BY DEF IInv, ForgottenLate, trackerVars
<1> QED BY <1>1, <1>2, <1>3

LEMMA HooksKeepOrder ==
    ASSUME IInv, HookTypes',
           \/ Start \/ Finish \/ EndSession \/ Die \/ Resume
           \/ \E p \in Prompts : BeatStarts(p) \/ Beat(p) \/ BeatEnds(p)
    PROVE  TrackerTypes' /\ OrderFollows' /\ ForgottenLate'
<1> DEFINE Late == order.latest < newest.startedAt
           News == Late =>
               /\ \A r \in reports' : /\ r.token >= newest.startedAt
                                      /\ r.state = "working" => r.startedAt > newest.startedAt
               /\ file'.state = "working" => file'.startedAt > newest.startedAt
               /\ \A p \in Prompts : beats'[p] # "off" => p > newest.startedAt
<1>1. /\ newest.startedAt \in 0 .. MaxPrompts /\ newest.startedAt <= prompt
      /\ prompt \in 0 .. MaxPrompts /\ MaxPrompts \in Nat /\ file.token = prompt
      /\ beats \in [Prompts -> {"off", "starts", "on"}]
  BY AgentActivityAssumption DEF IInv, TypeOK, HookTypes, TrackerTypes, OrderFollows, HooksAgree
<1>2. Late =>
        /\ \A r \in reports : /\ r.token >= newest.startedAt
                              /\ r.state = "working" => r.startedAt > newest.startedAt
        /\ file.state = "working" => file.startedAt > newest.startedAt
        /\ \A p \in Prompts : beats[p] # "off" => p > newest.startedAt
  BY DEF IInv, ForgottenLate
<1> HIDE DEF Late
<1>3. CASE Start
  <2>1. file'.startedAt = prompt + 1 /\ prompt' = prompt + 1 /\ UNCHANGED <<reports, trackerVars>>
    BY <1>3 DEF Start, Report
  <2>2. \A p \in Prompts : beats'[p] # "off" => beats[p] # "off" \/ p = prompt + 1
    BY <1>1, <1>3 DEF Start
  <2>3. News /\ prompt' >= prompt
    BY <1>1, <1>2, <2>1, <2>2
  <2> QED BY <2>1, <2>3, TrackerUntouched DEF Late
<1>4. CASE Finish \/ EndSession
  <2>1. UNCHANGED <<beats, prompt, trackerVars>>
    BY <1>4 DEF Finish, EndSession
  <2>2. \/ UNCHANGED <<file, reports>>
        \/ /\ file' \in {Report("finished", file.token, file.startedAt),
                         Report("idle", file.token, file.startedAt)}
           /\ reports' = reports \cup {file'}
    BY <1>4 DEF Finish, EndSession, Transition, WritesState, Send
  <2>3. \/ UNCHANGED <<file, reports>>
        \/ /\ file'.state # "working" /\ file'.token = prompt /\ reports' = reports \cup {file'}
    BY <1>1, <2>2 DEF Report
  <2>4. News /\ prompt' >= prompt
    BY <1>1, <1>2, <2>1, <2>3
  <2> QED BY <2>1, <2>4, TrackerUntouched DEF Late
<1>6. CASE Die \/ Resume
  <2>1. UNCHANGED <<file, reports, beats, prompt, trackerVars>>
    BY <1>6 DEF Die, Resume
  <2>2. News /\ prompt' >= prompt
    BY <1>1, <1>2, <2>1
  <2> QED BY <2>1, <2>2, TrackerUntouched DEF Late
<1>8. ASSUME NEW p \in Prompts, BeatStarts(p) \/ Beat(p) \/ BeatEnds(p)
      PROVE  TrackerTypes' /\ OrderFollows' /\ ForgottenLate'
  <2>1. UNCHANGED <<prompt, trackerVars>> /\ beats[p] # "off" /\ p \in Nat
    BY <1>8 DEF BeatStarts, Beat, BeatEnds, Prompts
  <2>2. \A q \in Prompts : beats'[q] # "off" => beats[q] # "off"
    BY <1>1, <1>8 DEF BeatStarts, Beat, BeatEnds
  <2>3. UNCHANGED file \/ file'.state = "idle"
    BY <1>8 DEF BeatStarts, Beat, BeatEnds, Transition, WritesState, Report
  <2>4. \A r \in reports' : \/ r \in reports
                            \/ r.token = p /\ r.startedAt = p
                            \/ r.token = prompt /\ r.state = "idle"
    BY <1>1, <1>8 DEF BeatStarts, Beat, BeatEnds, Transition, Send, Report
  <2>5. News /\ prompt' >= prompt
    BY <1>1, <1>2, <2>1, <2>2, <2>3, <2>4
  <2> QED BY <2>1, <2>5, TrackerUntouched DEF Late
<1> QED BY <1>3, <1>4, <1>6, <1>8

\* The tracker's own steps and the network's, but for a report that is applied.
LEMMA TrackerNext ==
    ASSUME IInv, HookTypes', [Next]_vars
    PROVE  TrackerTypes' /\ OrderFollows' /\ ForgottenLate'
<1> DEFINE Goal == TrackerTypes' /\ OrderFollows' /\ ForgottenLate'
<1>1. /\ TrackerTypes /\ OrderFollows /\ ForgottenLate
      /\ prompt \in 0 .. MaxPrompts /\ MaxPrompts \in Nat
      /\ newest.startedAt \in 0 .. MaxPrompts
  BY AgentActivityAssumption DEF IInv, TypeOK, HookTypes, TrackerTypes
<1>2. ASSUME UNCHANGED <<agentVars, reports, order, last, newest>>,
             activity' \in {activity, Nothing}
      PROVE  Goal
  <2>1. TrackerTypes'
    BY <1>1, <1>2 DEF TrackerTypes
  <2>2. OrderFollows'
    BY <1>1, <1>2 DEF OrderFollows, agentVars, Nothing
  <2>3. ForgottenLate'
    BY <1>1, <1>2 DEF ForgottenLate, agentVars
  <2> QED BY <2>1, <2>2, <2>3
<1>3. ASSUME UNCHANGED <<agentVars, trackerVars>>, reports' \subseteq reports PROVE Goal
  <2>1. TrackerTypes'
    BY <1>1, <1>3 DEF TrackerTypes, trackerVars
  <2>2. OrderFollows'
    BY <1>1, <1>3 DEF OrderFollows, agentVars, trackerVars, Nothing
  <2>3. ForgottenLate'
    BY <1>1, <1>3 DEF ForgottenLate, agentVars, trackerVars
  <2> QED BY <2>1, <2>2, <2>3
<1>4. ASSUME NEW r \in reports, Lose(r) PROVE Goal
  BY <1>3, <1>4 DEF Lose
<1>5. ASSUME NEW r \in reports, Update(r) PROVE Goal
  <2>1. CASE Accepts(r)
    BY <1>5, <2>1, AppliedNext
  <2>2. CASE ~Accepts(r)
    BY <1>3, <1>5, <2>2 DEF Update, trackerVars
  <2> QED BY <2>1, <2>2
<1>6. ASSUME Expire PROVE Goal
  BY <1>2, <1>6 DEF Expire
<1>7. ASSUME Forget PROVE Goal
  <2>1. /\ UNCHANGED <<agentVars, reports, activity, last, newest>> /\ order' = NoOrder
        /\ reports = {} /\ \A p \in Prompts : beats[p] = "off"
        /\ activity.state # "working"
    BY <1>7 DEF Forget, HooksDone
  <2>2. file.state # "working"
    BY <1>1, <2>1 DEF IInv, HooksAgree, NoPrompt, Prompts
  <2>3. TrackerTypes'
    BY <1>1, <2>1, AgentActivityAssumption, EmptySeq, LenProperties
       DEF TrackerTypes, NoOrder, NoPrompt
  <2>4. OrderFollows'
    BY <1>1, <2>1 DEF OrderFollows, NoOrder, NoPrompt, agentVars, Nothing
  <2>5. ForgottenLate'
    BY <2>1, <2>2 DEF ForgottenLate, NoOrder, agentVars
  <2> QED BY <2>3, <2>4, <2>5
<1>8. ASSUME Restart PROVE Goal
  <2>1. /\ UNCHANGED <<agentVars, last>> /\ order' = NoOrder /\ newest' = NoneApplied
        /\ activity' = Nothing
    BY <1>8 DEF Restart
  <2>2. TrackerTypes'
    BY <1>1, <2>1, AgentActivityAssumption, EmptySeq, LenProperties
       DEF TrackerTypes, NoOrder, NoneApplied, NoPrompt
  <2>3. OrderFollows'
    BY <1>1, <2>1 DEF OrderFollows, NoOrder, NoneApplied, NoPrompt, agentVars, Nothing
  <2>4. ForgottenLate'
    BY <2>1 DEF ForgottenLate, NoneApplied, NoOrder, NoPrompt
  <2> QED BY <2>2, <2>3, <2>4
<1>9. ASSUME NEW i \in Acks, ServeAck(i) PROVE Goal
  BY <1>2, <1>9 DEF ServeAck
<1>10. \/ Push \/ Receive \/ UNCHANGED vars
       \/ \E i \in Acks : \/ \E retryFailed \in BOOLEAN : Acknowledge(i, retryFailed)
                         \/ Confirmed(i) \/ Failed(i)
       => UNCHANGED <<agentVars, trackerVars, reports>>
  BY DEF Push, Receive, Acknowledge, Confirmed, Failed, vars
<1> QED
  BY <1>3, <1>4, <1>5, <1>6, <1>7, <1>8, <1>9, <1>10, HooksKeepOrder DEF Next

------------------------------------------------------------------------------
LEMMA BrowserNext ==
    ASSUME TypeOK, [Next]_vars
    PROVE  BrowserTypes'
<1> DEFINE AckTypes == [of : Activities \cup {Nothing},
                        at : {"unasked", "asked", "served", "refused", "over"}]
           Shown == Activities \cup {Nothing}
<1>1. /\ {sent, frame} \subseteq Shown \cup {NotSent} /\ {visible, pending, failed} \subseteq Shown
      /\ acks \in [Acks -> AckTypes] /\ activity \in Shown
      /\ troubles \in 0 .. MaxTroubles /\ MaxTroubles \in Nat
  BY AgentActivityAssumption DEF TypeOK, BrowserTypes, TrackerTypes
<1>2. Nothing \in Shown
  OBVIOUS
<1> HIDE DEF Shown
<1> DEFINE Goal == /\ {sent', frame'} \subseteq Shown \cup {NotSent}
                   /\ {visible', pending', failed'} \subseteq Shown
                   /\ acks' \in [Acks -> AckTypes]
                   /\ troubles' \in 0 .. MaxTroubles
<1>3. SUFFICES Goal
  BY DEF BrowserTypes, Shown
<1>4. troubles' \in 0 .. MaxTroubles
  <2>1. troubles' = troubles \/ (troubles < MaxTroubles /\ troubles' = troubles + 1)
    BY DEF Next, vars, Trouble, Start, Finish, EndSession, Die, Resume,
           BeatStarts, Beat, BeatEnds, Lose, Update, Expire, Forget, Restart, Push,
           Receive, Acknowledge, ServeAck, Confirmed, Failed
  <2> QED BY <1>1, <2>1
<1>5. ASSUME NEW i \in Acks, NEW a \in AckTypes, acks' = [acks EXCEPT ![i] = a]
      PROVE  acks' \in [Acks -> AckTypes]
  BY <1>1, <1>5
<1>6. ASSUME NEW i \in Acks,
             NEW at \in {"unasked", "asked", "served", "refused", "over"},
             acks' = [acks EXCEPT ![i].at = at]
      PROVE  acks' \in [Acks -> AckTypes]
  BY <1>1, <1>6
<1>7. CASE Restart
  <2>1. sent' = NotSent /\ frame' = NotSent /\ UNCHANGED <<visible, pending, failed>>
    BY <1>7 DEF Restart
  <2>2. \A i \in Acks : (IF acks[i].at \in {"asked", "served"}
                        THEN [acks[i] EXCEPT !.at = "refused"] ELSE acks[i]) \in AckTypes
    BY <1>1
  <2>3. acks' \in [Acks -> AckTypes]
    BY <1>7, <2>2 DEF Restart
  <2> QED BY <1>1, <1>4, <2>1, <2>3
<1>8. CASE Push
  BY <1>1, <1>2, <1>4, <1>8 DEF Push, sliceVars
<1>9. CASE Receive
  BY <1>1, <1>2, <1>4, <1>9 DEF Receive
<1>10. ASSUME NEW i \in Acks, NEW retryFailed \in BOOLEAN, Acknowledge(i, retryFailed)
       PROVE Goal
  <2>1. [of |-> visible, at |-> "asked"] \in AckTypes
    BY <1>1 DEF Shown
  <2> QED BY <1>1, <1>2, <1>4, <1>5, <1>10, <2>1 DEF Acknowledge
<1>11. ASSUME NEW i \in Acks, ServeAck(i) \/ Confirmed(i) PROVE Goal
  <2>1. acks' \in [Acks -> AckTypes]
    BY <1>6, <1>11 DEF ServeAck, Confirmed
  <2> QED BY <1>1, <1>2, <1>4, <1>11, <2>1 DEF ServeAck, Confirmed
<1>12. ASSUME NEW i \in Acks, Failed(i) PROVE Goal
  <2>1. acks' \in [Acks -> AckTypes]
    BY <1>6, <1>12 DEF Failed
  <2>2. acks[i].of \in Shown
    BY <1>1 DEF Shown
  <2>3. {visible', pending', failed'} \subseteq Shown /\ UNCHANGED <<sent, frame>>
    BY <1>1, <1>2, <1>12, <2>2 DEF Failed
  <2> QED BY <1>1, <1>4, <2>1, <2>3
<1>13. CASE UNCHANGED browserVars
  BY <1>1, <1>4, <1>13 DEF browserVars, sliceVars
<1>14. \/ Start \/ Finish \/ EndSession \/ Die \/ Resume
       \/ \E p \in Prompts : BeatStarts(p) \/ Beat(p) \/ BeatEnds(p)
       \/ \E r \in reports : Lose(r) \/ Update(r)
       \/ Expire \/ Forget \/ UNCHANGED vars
       => UNCHANGED browserVars
  BY DEF Start, Finish, EndSession, Die, Resume, BeatStarts, Beat, BeatEnds,
         Lose, Update, Expire, Forget, vars
<1> QED BY <1>7, <1>8, <1>9, <1>10, <1>11, <1>12, <1>13, <1>14 DEF Next

------------------------------------------------------------------------------
LEMMA InvInit == Init => IInv
<1> SUFFICES ASSUME Init PROVE IInv
  OBVIOUS
<1> USE AgentActivityAssumption DEF Init
<1>1. HookTypes /\ HooksAgree /\ ReportsHonest
  BY DEF HookTypes, HooksAgree, ReportsHonest, NoReport, NoPrompt, Prompts
<1>2. TrackerTypes
  BY EmptySeq, LenProperties
     DEF TrackerTypes, Nothing, NoneApplied, NoOrder, NoPrompt
<1>3. BrowserTypes
  BY DEF BrowserTypes
<1>4. OrderFollows /\ ForgottenLate
  BY DEF OrderFollows, ForgottenLate, NoneApplied, NoOrder, NoPrompt, NoReport, Nothing
<1> QED BY <1>1, <1>2, <1>3, <1>4 DEF IInv, TypeOK

LEMMA InvNext == IInv /\ [Next]_vars => IInv'
<1> SUFFICES ASSUME IInv, [Next]_vars PROVE IInv'
  OBVIOUS
<1>1. HookTypes' /\ HooksAgree' /\ ReportsHonest'
  BY HooksNext DEF IInv, TypeOK
<1>2. TrackerTypes' /\ OrderFollows' /\ ForgottenLate'
  BY <1>1, TrackerNext
<1>3. BrowserTypes'
  BY BrowserNext DEF IInv
<1> QED BY <1>1, <1>2, <1>3 DEF IInv, TypeOK

LEMMA InvHolds == Spec => []IInv
BY InvInit, InvNext, PTL DEF Spec

(* However the hooks, the reports and the acknowledgements interleave,      *)
(* every variable keeps its type: the retired tokens stay within            *)
(* maxPiActivityRetiredTokens (retire, pi_activity.go).                     *)
THEOREM TypeCorrect == Spec => []TypeOK
<1>1. IInv => TypeOK
  BY DEF IInv
<1> QED BY <1>1, InvHolds, PTL

(* However late and reordered the reports of a session arrive, also when    *)
(* the order of its tokens is forgotten or its server starts anew, no       *)
(* prompt comes back (canSupersede, observe and retire, pi_activity.go).    *)
THEOREM NothingComesBack == Spec => []NoComeback
<1>1. IInv => NoComeback
  <2> SUFFICES ASSUME IInv, activity # Nothing
               PROVE  /\ activity.prompt >= newest.startedAt
                      /\ activity.state = "working" /\ activity.prompt = newest.startedAt => ~newest.over
    BY DEF NoComeback
  <2>1. activity.prompt # NoPrompt
    BY DEF IInv, TypeOK, TrackerTypes, Activities, Prompts, NoPrompt
  <2>2. activity.prompt >= newest.startedAt
    BY DEF IInv, OrderFollows
  <2>3. activity.state = "working" => ~newest.over
    BY <2>1 DEF IInv, OrderFollows
  <2> QED BY <2>2, <2>3
<1> QED BY <1>1, InvHolds, PTL

------------------------------------------------------------------------------
(* What the browser holds, against the newest start the server was told.    *)

\* A mark that the tracker had is its last one, or has an earlier UpdatedAt.
Known(a) == a # Nothing => a.at < last.at \/ a = last
ActivityIsLast == activity # Nothing => activity = last

\* b is a later mark than a, or the same.
NoLater(a, b) == a # Nothing /\ b # Nothing => a.at < b.at \/ a = b

AcksAgree ==
    /\ \A i \in Acks : IF acks[i].at = "unasked" THEN acks[i].of = Nothing
                       ELSE acks[i].of.state = "finished"
    /\ pending # Nothing => pending.state = "finished" /\ Asked(pending)
Shows(a) ==
    /\ visible = a \/ (a.state = "finished" /\ visible = Nothing /\ Asked(a))
    /\ pending # Nothing => visible = Nothing /\ pending = a
SliceAgrees ==
    /\ Known(visible) /\ Known(pending)
    /\ frame # NotSent => /\ sent = frame /\ Known(frame)
                          /\ NoLater(visible, frame) /\ NoLater(pending, frame)
    /\ frame = NotSent /\ sent # NotSent => Shows(sent)

ViewInv == IInv /\ ActivityIsLast /\ AcksAgree /\ SliceAgrees

\* Where the mark goes on: what was a mark stays one.
LEMMA LastNext ==
    ASSUME ViewInv, [Next]_vars
    PROVE  /\ ActivityIsLast'
           /\ \A a \in Activities \cup {Nothing} :
                 Known(a) => (a # Nothing => a.at < last'.at \/ a = last')
<1> DEFINE Kept == \A a \in Activities \cup {Nothing} :
                      Known(a) => (a # Nothing => a.at < last'.at \/ a = last')
<1>1. last \in Activities \cup {Nothing} /\ \A a \in Activities \cup {Nothing} : a.at \in Nat
  BY DEF ViewInv, IInv, TypeOK, TrackerTypes, Activities, Nothing
<1>2. CASE activity' \in {activity, Nothing} /\ UNCHANGED last
  BY <1>2 DEF ViewInv, ActivityIsLast, Known
<1>3. ASSUME NEW r \in reports, Update(r), Accepts(r) PROVE ActivityIsLast' /\ Kept
  <2>1. /\ activity' = IF r.state = "idle" THEN Nothing ELSE Mark(r)
        /\ last' = IF r.state = "idle" THEN last ELSE Mark(r)
    BY <1>3 DEF Update
  <2>2. r.state # "idle" => Mark(r) = last \/ Mark(r).at = last.at + 1
    BY MarkType DEF ViewInv, IInv, TypeOK, HookTypes
  <2>3. Kept
    BY <1>1, <2>1, <2>2 DEF Known
  <2> QED BY <2>1, <2>3 DEF ActivityIsLast
<1>4. ASSUME NEW r \in reports, Update(r), ~Accepts(r) PROVE ActivityIsLast' /\ Kept
  BY <1>2, <1>4 DEF Update, trackerVars
<1>6. \/ Start \/ Finish \/ EndSession \/ Die \/ Resume
      \/ \E p \in Prompts : BeatStarts(p) \/ Beat(p) \/ BeatEnds(p)
      \/ \E r \in reports : Lose(r)
      \/ Expire \/ Forget \/ Restart \/ Push \/ Receive \/ UNCHANGED vars
      \/ \E i \in Acks : \/ \E retryFailed \in BOOLEAN : Acknowledge(i, retryFailed)
                        \/ ServeAck(i) \/ Confirmed(i) \/ Failed(i)
      => activity' \in {activity, Nothing} /\ UNCHANGED last
  BY DEF Start, Finish, EndSession, Die, Resume,
         BeatStarts, Beat, BeatEnds, Lose, Expire, Forget, Restart, Push, Receive, Acknowledge,
         ServeAck, Confirmed, Failed, vars, trackerVars
<1> QED BY <1>2, <1>3, <1>4, <1>6 DEF Next

\* Whose acknowledgement was asked stays known, whatever becomes of it.
LEMMA AskedStays ==
    ASSUME BrowserTypes, AcksAgree, [Next]_vars
    PROVE  /\ \A a : a.state = "finished" /\ Asked(a) => Asked(a)'
           /\ \A i \in Acks : IF acks'[i].at = "unasked" THEN acks'[i].of = Nothing
                              ELSE acks'[i].of.state = "finished"
<1> DEFINE Goal == /\ \A a : a.state = "finished" /\ Asked(a) => Asked(a)'
                   /\ \A i \in Acks : IF acks'[i].at = "unasked" THEN acks'[i].of = Nothing
                                      ELSE acks'[i].of.state = "finished"
<1>1. /\ acks \in [Acks -> [of : Activities \cup {Nothing},
                            at : {"unasked", "asked", "served", "refused", "over"}]]
      /\ \A i \in Acks : IF acks[i].at = "unasked" THEN acks[i].of = Nothing
                         ELSE acks[i].of.state = "finished"
  BY DEF BrowserTypes, AcksAgree
<1>2. ASSUME NEW i \in Acks, acks[i].at # "unasked",
             NEW at \in {"served", "refused", "over"}, acks' = [acks EXCEPT ![i].at = at]
      PROVE  Goal
  <2>1. \A j \in Acks : acks'[j].of = acks[j].of /\ (acks'[j].at = "unasked" <=> acks[j].at = "unasked")
    BY <1>1, <1>2
  <2> QED BY <1>1, <2>1 DEF Asked
<1>3. ASSUME NEW i \in Acks, NEW retryFailed \in BOOLEAN, Acknowledge(i, retryFailed) PROVE Goal
  <2>1. /\ acks' = [acks EXCEPT ![i] = [of |-> visible, at |-> "asked"]]
        /\ visible.state = "finished" /\ acks[i].of = Nothing
    BY <1>1, <1>3 DEF Acknowledge
  <2>2. \A j \in Acks : acks'[j] = IF j = i THEN [of |-> visible, at |-> "asked"] ELSE acks[j]
    BY <1>1, <2>1
  <2> QED BY <1>1, <2>1, <2>2 DEF Asked, Nothing
<1>4. CASE Restart
  <2>1. \A j \in Acks : acks'[j].of = acks[j].of /\ (acks'[j].at = "unasked" <=> acks[j].at = "unasked")
    BY <1>1, <1>4 DEF Restart
  <2> QED BY <1>1, <2>1 DEF Asked
<1>5. ASSUME NEW i \in Acks, ServeAck(i) \/ Confirmed(i) \/ Failed(i) PROVE Goal
  BY <1>2, <1>5 DEF ServeAck, Confirmed, Failed
<1>6. CASE UNCHANGED acks
  BY <1>1, <1>6 DEF Asked
<1>7. \/ Start \/ Finish \/ EndSession \/ Die \/ Resume
      \/ \E p \in Prompts : BeatStarts(p) \/ Beat(p) \/ BeatEnds(p)
      \/ \E r \in reports : Lose(r) \/ Update(r)
      \/ Expire \/ Forget \/ Push \/ Receive \/ UNCHANGED vars
      => UNCHANGED acks
  BY DEF Start, Finish, EndSession, Die, Resume, BeatStarts, Beat, BeatEnds,
         Lose, Update, Expire, Forget, Push, Receive, vars, browserVars, sliceVars
<1> QED BY <1>3, <1>4, <1>5, <1>6, <1>7 DEF Next

LEMMA ViewNext ==
    ASSUME ViewInv, [Next]_vars
    PROVE  AcksAgree' /\ SliceAgrees'
<1> DEFINE Pending == pending' # Nothing => pending'.state = "finished" /\ Asked(pending)'
           Goal == Pending /\ SliceAgrees'
           Shown == Activities \cup {Nothing}
<1>1. /\ \A a : a.state = "finished" /\ Asked(a) => Asked(a)'
      /\ \A i \in Acks : IF acks'[i].at = "unasked" THEN acks'[i].of = Nothing
                         ELSE acks'[i].of.state = "finished"
  BY AskedStays DEF ViewInv, IInv, TypeOK
<1>2. SUFFICES Goal
  BY <1>1 DEF AcksAgree
<1>3. \A a \in Shown : Known(a) => (a # Nothing => a.at < last'.at \/ a = last')
  BY LastNext
<1>4. /\ {visible, pending} \subseteq Shown /\ activity \in Shown
      /\ {sent, frame} \subseteq Shown \cup {NotSent}
      /\ Known(visible) /\ Known(pending) /\ Known(Nothing) /\ Known(activity)
      /\ frame # NotSent => Known(frame)
      /\ pending # Nothing => pending.state = "finished" /\ Asked(pending)
  <2>1. Known(Nothing) /\ Known(activity)
    BY DEF ViewInv, ActivityIsLast, Known
  <2> QED BY <2>1 DEF ViewInv, IInv, TypeOK, BrowserTypes, TrackerTypes, SliceAgrees, AcksAgree
<1>5. NotSent # Nothing /\ NotSent \notin Shown
  BY DEF NotSent, Nothing, Activities
<1>7. ASSUME NEW a \in Shown, Known(a)
      PROVE  /\ visible' = a => Known(visible)'
             /\ pending' = a => Known(pending)'
             /\ frame' = a => Known(frame)'
  BY <1>3, <1>7 DEF Known
<1>8. ASSUME frame' \in {frame, NotSent, activity} PROVE frame' # NotSent => Known(frame)'
  BY <1>4, <1>5, <1>7, <1>8
<1>9. Nothing \in Shown
  OBVIOUS
<1> HIDE DEF Shown
<1>10. CASE UNCHANGED <<sent, frame, visible, pending>>
  <2>1. Pending
    BY <1>1, <1>4, <1>10
  <2>2. Shows(sent) => Shows(sent)'
    BY <1>1, <1>10 DEF Shows
  <2>3. Known(visible)' /\ Known(pending)' /\ (frame' # NotSent => Known(frame)')
    BY <1>4, <1>7, <1>8, <1>10
  <2>4. SliceAgrees'
    BY <1>10, <2>2, <2>3 DEF ViewInv, SliceAgrees, NoLater
  <2> QED BY <2>1, <2>4
<1>11. CASE Push
  <2>1. sent' = activity /\ frame' = activity /\ UNCHANGED <<visible, pending>>
    BY <1>11 DEF Push, sliceVars
  <2>2. NoLater(visible, activity) /\ NoLater(pending, activity)
    BY <1>4 DEF ViewInv, ActivityIsLast, Known, NoLater
  <2>3. activity # NotSent
    BY <1>4, <1>5
  <2>4. Known(visible)' /\ Known(pending)' /\ (frame' # NotSent => Known(frame)')
    BY <1>4, <1>7, <1>8, <2>1
  <2>5. SliceAgrees'
    BY <2>1, <2>2, <2>3, <2>4 DEF SliceAgrees, NoLater
  <2> QED BY <1>1, <1>4, <2>1, <2>5
<1>12. CASE Receive
  <2> DEFINE releases == frame = Nothing \/ Newer(frame, pending)
  <2>1. /\ frame # NotSent /\ frame' = NotSent /\ UNCHANGED <<sent, acks>> /\ sent = frame
        /\ pending' = IF releases THEN Nothing ELSE pending
        /\ visible' = IF pending = Nothing \/ releases THEN frame ELSE Nothing
        /\ NoLater(pending, frame)
    BY <1>12 DEF Receive, ViewInv, SliceAgrees
  <2>2. CASE pending = Nothing \/ releases
    <3>1. visible' = frame /\ pending' = Nothing
      BY <2>1, <2>2
    <3>2. Known(visible)' /\ Known(pending)' /\ (frame' # NotSent => Known(frame)')
      BY <1>4, <1>7, <1>8, <1>9, <2>1, <3>1
    <3>3. Shows(sent)'
      BY <2>1, <3>1 DEF Shows
    <3>4. SliceAgrees'
      BY <2>1, <3>2, <3>3 DEF SliceAgrees
    <3> QED BY <3>1, <3>4
  <2>3. CASE pending # Nothing /\ ~releases
    <3>1. visible' = Nothing /\ pending' = pending
      BY <2>1, <2>3
    <3>2. pending \in Activities /\ frame \in Activities
      BY <1>4, <2>1, <2>3 DEF Shown
    <3>3. frame = pending
      BY <2>1, <2>3, <3>2 DEF NoLater, Newer, Nothing
    <3>4. Known(visible)' /\ Known(pending)' /\ (frame' # NotSent => Known(frame)')
      BY <1>4, <1>7, <1>8, <1>9, <2>1, <3>1
    <3>5. Asked(pending)' /\ pending.state = "finished"
      BY <1>1, <1>4, <2>3, <3>1
    <3>6. Shows(sent)'
      BY <2>1, <3>1, <3>3, <3>5 DEF Shows
    <3>7. SliceAgrees'
      BY <2>1, <3>4, <3>6 DEF SliceAgrees
    <3> QED BY <3>1, <3>5, <3>7
  <2> QED BY <2>2, <2>3
<1>13. ASSUME NEW i \in Acks, NEW retryFailed \in BOOLEAN, Acknowledge(i, retryFailed) PROVE Goal
  <2>1. /\ UNCHANGED <<sent, frame>> /\ pending' = visible /\ visible' = Nothing
        /\ visible.state = "finished" /\ pending = Nothing /\ visible # Nothing
        /\ acks' = [acks EXCEPT ![i] = [of |-> visible, at |-> "asked"]]
    BY <1>13 DEF Acknowledge, Nothing
  <2>2. Asked(pending)'
    BY <2>1, <1>13 DEF ViewInv, IInv, TypeOK, BrowserTypes, Asked
  <2>3. Known(visible)' /\ Known(pending)' /\ (frame' # NotSent => Known(frame)')
    BY <1>4, <1>7, <1>8, <1>9, <2>1
  <2>4. Shows(sent) => Shows(sent)'
    BY <1>1, <2>1, <2>2 DEF Shows
  <2>5. SliceAgrees'
    BY <2>1, <2>3, <2>4 DEF ViewInv, SliceAgrees, NoLater
  <2> QED BY <2>1, <2>2, <2>5
<1>14. ASSUME NEW i \in Acks, Confirmed(i) PROVE Goal
  <2>1. UNCHANGED <<sent, frame, visible>> /\ pending' = Nothing
    BY <1>14 DEF Confirmed
  <2>2. Known(visible)' /\ Known(pending)' /\ (frame' # NotSent => Known(frame)')
    BY <1>4, <1>7, <1>8, <1>9, <2>1
  <2>3. Shows(sent) => Shows(sent)'
    BY <1>1, <2>1 DEF Shows
  <2>4. SliceAgrees'
    BY <2>1, <2>2, <2>3 DEF ViewInv, SliceAgrees, NoLater
  <2> QED BY <2>1, <2>4
<1>15. ASSUME NEW i \in Acks, Failed(i) PROVE Goal
  <2>1. CASE ~Restores(acks[i].of)
    <3>1. UNCHANGED <<sent, frame, visible, pending>>
      BY <1>15, <2>1 DEF Failed
    <3> QED BY <1>10, <3>1
  <2>2. CASE Restores(acks[i].of)
    <3>1. /\ UNCHANGED <<sent, frame>> /\ pending' = Nothing
          /\ visible' = IF visible # Nothing /\ Newer(visible, pending) THEN visible ELSE pending
          /\ acks[i].at # "unasked"
      BY <1>15, <2>2 DEF Failed, Restores
    <3>2. pending # Nothing
      BY <2>2, <3>1 DEF ViewInv, AcksAgree, Restores, Nothing
    <3>3. visible' \in {visible, pending}
      BY <3>1
    <3>4. frame = NotSent /\ sent # NotSent => visible' = sent
      BY <3>1, <3>2 DEF ViewInv, SliceAgrees, Shows
    <3>5. Known(visible)' /\ Known(pending)' /\ (frame' # NotSent => Known(frame)')
      BY <1>4, <1>7, <1>8, <1>9, <3>1, <3>3
    <3>6. SliceAgrees'
      BY <3>1, <3>3, <3>4, <3>5 DEF ViewInv, SliceAgrees, Shows, NoLater
    <3> QED BY <3>1, <3>6
  <2> QED BY <2>1, <2>2
<1>16. CASE Restart
  <2>1. sent' = NotSent /\ frame' = NotSent /\ UNCHANGED <<visible, pending>>
    BY <1>16 DEF Restart
  <2>2. Known(visible)' /\ Known(pending)' /\ (frame' # NotSent => Known(frame)')
    BY <1>4, <1>7, <1>8, <2>1
  <2>3. SliceAgrees'
    BY <2>1, <2>2 DEF SliceAgrees
  <2> QED BY <1>1, <1>4, <2>1, <2>3
<1>17. \/ Start \/ Finish \/ EndSession \/ Die \/ Resume
       \/ \E p \in Prompts : BeatStarts(p) \/ Beat(p) \/ BeatEnds(p)
       \/ \E r \in reports : Lose(r) \/ Update(r)
       \/ Expire \/ Forget \/ UNCHANGED vars \/ \E i \in Acks : ServeAck(i)
       => UNCHANGED <<sent, frame, visible, pending>>
  BY DEF Start, Finish, EndSession, Die, Resume, BeatStarts, Beat, BeatEnds,
         Lose, Update, Expire, Forget, ServeAck, vars, browserVars, sliceVars
<1> HIDE DEF Goal
<1> QED BY <1>10, <1>11, <1>12, <1>13, <1>14, <1>15, <1>16, <1>17 DEF Next

LEMMA ViewHolds == Spec => []ViewInv
<1>1. Init => ViewInv
  <2> SUFFICES ASSUME Init PROVE ViewInv
    OBVIOUS
  <2>1. ActivityIsLast
    BY DEF Init, ActivityIsLast
  <2>2. AcksAgree
    BY DEF Init, AcksAgree
  <2>3. SliceAgrees
    BY DEF Init, SliceAgrees, Known, NotSent, Nothing
  <2> QED BY <2>1, <2>2, <2>3, InvInit DEF ViewInv
<1>2. ViewInv /\ [Next]_vars => ViewInv'
  <2> SUFFICES ASSUME ViewInv, [Next]_vars PROVE ViewInv'
    OBVIOUS
  <2>1. IInv'
    BY InvNext DEF ViewInv
  <2> QED BY <2>1, LastNext, ViewNext DEF ViewInv
<1> QED BY <1>1, <1>2, PTL DEF Spec

(* Whatever is reported, acknowledged, refused or restarted meanwhile, a    *)
(* browser that has what the server last sent shows that, but for a         *)
(* finished turn it asked to acknowledge (activitiesReceived and            *)
(* acknowledgementFailed, agentActivity.ts).                                *)
THEOREM BrowserFollows == Spec => []ViewFollows
<1>1. ViewInv => ViewFollows
  <2> SUFFICES ASSUME ViewInv, UpToDate
               PROVE  visible = activity \/ (activity.state = "finished" /\ visible = Nothing /\ Asked(activity))
    BY DEF ViewFollows
  <2>1. activity # NotSent
    BY DEF ViewInv, IInv, TypeOK, TrackerTypes, Activities, Nothing, NotSent
  <2> QED BY <2>1 DEF ViewInv, SliceAgrees, Shows, UpToDate
<1> QED BY <1>1, ViewHolds, PTL
==============================================================================
