---------------------------- MODULE AgentActivity ----------------------------
(***************************************************************************)
(* The working and finished marks of a thread, from the hooks of one agent *)
(* session (claude-plugin/scripts/kiwi-code-hook.mjs: short processes and  *)
(* one detached heartbeat per prompt, which share a state file and report  *)
(* over HTTP) through the server's tracker (pi_activity.go) to a browser   *)
(* that acknowledges a finished turn before the server has (the            *)
(* agentActivity slice, its thunk and pi-activity-reconciliation.mjs).     *)
(*                                                                         *)
(* A prompt's number is its token and its start time.  The tracker's       *)
(* UpdatedAt counts the marks it has set; a working one and its            *)
(* repetitions, which refresh UpdatedAt, are one mark.                     *)
(***************************************************************************)
EXTENDS Naturals, Sequences, FiniteSets, SequencesExt

CONSTANTS
    MaxPrompts,   \* bound: prompts submitted
    RetiredLimit, \* maxPiActivityRetiredTokens
    MaxInFlight,  \* bound: reports on their way
    MaxAcks,      \* bound: acknowledgements of the browser
    MaxTroubles   \* bound: resumes of the agent, restarts, lost reports, failed acknowledgements

ASSUME AgentActivityAssumption ==
    /\ {MaxPrompts, MaxInFlight, MaxAcks, MaxTroubles} \subseteq Nat
    /\ RetiredLimit \in Nat \ {0}

Prompts == 1 .. MaxPrompts
NoPrompt == 0
Acks == 1 .. MaxAcks

States == {"working", "finished", "idle"}
Reports == [state : States, token : Prompts, startedAt : Prompts]
NoReport == [state |-> "idle", token |-> NoPrompt, startedAt |-> NoPrompt]

\* piThreadActivity, with its UpdatedAt
Activities == [state : {"working", "finished"}, prompt : Prompts, at : Nat \ {0}]
Nothing == [state |-> "none", prompt |-> NoPrompt, at |-> 0]
NotSent == [state |-> "unknown", prompt |-> NoPrompt, at |-> 0]

VARIABLES
    \* the agent and its hooks
    alive, turn, prompt,
    file,     \* the last report written to the session's state file
    gone,     \* the prompts up to this one are of processes of the agent that are gone
    beats,    \* a prompt's heartbeat process
    reports,  \* requests on their way, or to be sent again by their process
    \* piActivityTracker, for the session's key
    activity, order,
    last,     \* the last mark it set: the time goes on when the server starts anew
    newest,   \* history: the newest start it was told since the server started
    \* the browser: what the topic sent and is sending, and the slice
    sent, frame, visible, pending, failed, acks,
    troubles

agentVars == <<alive, turn, prompt, file, gone, beats>>
trackerVars == <<activity, order, last, newest>>
sliceVars == <<visible, pending, failed, acks>>
browserVars == <<sent, frame, sliceVars>>
vars == <<agentVars, reports, trackerVars, browserVars, troubles>>

NoneApplied == [startedAt |-> NoPrompt, over |-> FALSE]
NoOrder == [active |-> NoPrompt, latest |-> NoPrompt, retired |-> <<>>]

HookTypes ==
    /\ alive \in BOOLEAN /\ turn \in {"idle", "running", "delegated"} /\ prompt \in 0 .. MaxPrompts
    /\ file \in Reports \cup {NoReport} /\ reports \subseteq Reports
    /\ gone \in 0 .. MaxPrompts /\ beats \in [Prompts -> {"off", "starts", "on"}]
TrackerTypes ==
    /\ {activity, last} \subseteq Activities \cup {Nothing}
    /\ newest \in [startedAt : 0 .. MaxPrompts, over : BOOLEAN]
    /\ order.active \in 0 .. MaxPrompts /\ order.latest \in 0 .. MaxPrompts
    /\ order.retired \in Seq(Prompts) /\ Len(order.retired) <= RetiredLimit
BrowserTypes ==
    /\ {sent, frame} \subseteq Activities \cup {Nothing, NotSent}
    /\ {visible, pending, failed} \subseteq Activities \cup {Nothing}
    /\ acks \in [Acks -> [of : Activities \cup {Nothing},
                          at : {"unasked", "asked", "served", "refused", "over"}]]
    /\ troubles \in 0 .. MaxTroubles
TypeOK == HookTypes /\ TrackerTypes /\ BrowserTypes

Init ==
    /\ alive = TRUE /\ turn = "idle" /\ prompt = NoPrompt /\ file = NoReport /\ gone = NoPrompt
    /\ beats = [p \in Prompts |-> "off"] /\ reports = {}
    /\ activity = Nothing /\ last = Nothing /\ order = NoOrder /\ newest = NoneApplied
    /\ sent = NotSent /\ frame = NotSent
    /\ visible = Nothing /\ pending = Nothing /\ failed = Nothing
    /\ acks = [i \in Acks |-> [of |-> Nothing, at |-> "unasked"]]
    /\ troubles = 0

Trouble == troubles < MaxTroubles /\ troubles' = troubles + 1

------------------------------------------------------------------------------
(* The agent's session and its hooks.                                       *)

\* sendActivity
Send(report) ==
    /\ reports' = reports \cup {report}
    /\ Cardinality(reports') <= MaxInFlight

Report(state, token, startedAt) == [state |-> state, token |-> token, startedAt |-> startedAt]

\* startActivity: a hook the agent waits for, also in the middle of a turn.
Start ==
    /\ alive /\ prompt < MaxPrompts
    /\ prompt' = prompt + 1 /\ turn' = "running"
    /\ file' = Report("working", prompt', prompt')
    /\ beats' = [beats EXCEPT ![prompt'] = "starts"]
    /\ UNCHANGED <<alive, gone, reports, trackerVars, browserVars, troubles>>

\* transitionActivity of the file's prompt: it is written first, then sent.
SendsOnly(report) == UNCHANGED file
WritesState(report) == file' = report
Transition(report) == WritesState(report) /\ Send(report)

\* finishActivity: a turn that left agents in the background goes on.
Finish ==
    /\ alive /\ turn = "running"
    /\ \/ turn' = "delegated" /\ UNCHANGED <<file, reports>>
       \/ /\ turn' = "idle"
          /\ Transition(Report("finished", file.token, file.startedAt))
    /\ UNCHANGED <<alive, prompt, gone, beats, trackerVars, browserVars, troubles>>

\* endSession
EndSession ==
    /\ alive /\ file # NoReport
    /\ alive' = FALSE /\ turn' = "idle" /\ gone' = prompt
    /\ IF file.state = "working"
       THEN Transition(Report("idle", file.token, file.startedAt))
       ELSE UNCHANGED <<file, reports>>
    /\ UNCHANGED <<prompt, beats, trackerVars, browserVars, troubles>>

Die ==
    /\ alive /\ prompt # NoPrompt
    /\ alive' = FALSE /\ turn' = "idle" /\ gone' = prompt
    /\ UNCHANGED <<prompt, file, beats, reports, trackerVars, browserVars, troubles>>

\* The agent is started again, and waits for nothing that its last process left behind.
Resume ==
    /\ ~alive /\ Trouble
    /\ alive' = TRUE
    /\ UNCHANGED <<turn, prompt, file, gone, beats, reports, trackerVars, browserVars>>

\* heartbeat
Current(p) == file.token = p /\ file.state = "working"
BeatStarts(p) ==
    /\ beats[p] = "starts"
    /\ beats' = [beats EXCEPT ![p] = IF Current(p) THEN "on" ELSE "off"]
    /\ UNCHANGED <<alive, turn, prompt, file, gone, reports, trackerVars, browserVars, troubles>>
Beat(p) ==
    /\ beats[p] = "on" /\ p > gone
    /\ IF Current(p)
       THEN Send(Report("working", p, p)) /\ UNCHANGED beats
       ELSE beats' = [beats EXCEPT ![p] = "off"] /\ UNCHANGED reports
    /\ UNCHANGED <<alive, turn, prompt, file, gone, trackerVars, browserVars, troubles>>
\* The parent is gone: whatever prompt the file is at is over, also one of a resumed agent.
BeatEnds(p) ==
    /\ beats[p] = "on" /\ p <= gone
    /\ beats' = [beats EXCEPT ![p] = "off"]
    /\ Transition(Report("idle", file.token, p))
    /\ UNCHANGED <<alive, turn, prompt, gone, trackerVars, browserVars, troubles>>

------------------------------------------------------------------------------
(* The tracker: reports arrive in any order and late.  A process that ends  *)
(* a prompt sends its report again until it is answered                     *)
(* (sendActivityWithRetry): it arrives several times, and after a restart.  *)
Repeated == {r \in reports : r.state # "working"}

Lose(r) ==
    /\ r \in reports /\ Trouble
    /\ reports' = reports \ {r}
    /\ UNCHANGED <<agentVars, trackerVars, browserVars>>

SupersedesAlways(startedAt) == TRUE
SupersedesNever(startedAt) == order.latest = NoPrompt
CanSupersede(startedAt) == order.latest = NoPrompt \/ startedAt > order.latest
Accepts(r) ==
    /\ ~Contains(order.retired, r.token)
    /\ order.active = r.token \/ CanSupersede(r.startedAt)

\* retire: the oldest are forgotten.
Retire(retired, token) ==
    LET more == IF token = NoPrompt \/ Contains(retired, token) THEN retired
                ELSE Append(retired, token)
    IN  SubSeq(more, IF Len(more) > RetiredLimit THEN 2 ELSE 1, Len(more))

Ordered(r) ==
    LET begins == order.active # r.token
        retired == IF begins THEN Retire(order.retired, order.active) ELSE order.retired
        latest == IF begins /\ r.startedAt > order.latest THEN r.startedAt ELSE order.latest
    IN  IF r.state = "working" THEN [active |-> r.token, latest |-> latest, retired |-> retired]
        ELSE [active |-> NoPrompt, latest |-> latest, retired |-> Retire(retired, r.token)]

\* The mark of a report; one that goes on working is not newer.
Mark(r) ==
    IF r.state = "working" /\ last.state = "working" /\ last.prompt = r.token THEN last
    ELSE [state |-> r.state, prompt |-> r.token, at |-> last.at + 1]

Later(n, r) ==
    IF r.startedAt < n.startedAt THEN n
    ELSE [startedAt |-> r.startedAt,
          over |-> r.state # "working" \/ (r.startedAt = n.startedAt /\ n.over)]

\* updateAgentTokenAt
Update(r) ==
    /\ r \in reports
    /\ reports' = reports \ {r} \/ (r \in Repeated /\ UNCHANGED reports)
    /\ IF Accepts(r)
       THEN /\ order' = Ordered(r)
            /\ activity' = IF r.state = "idle" THEN Nothing ELSE Mark(r)
            /\ last' = IF r.state = "idle" THEN last ELSE Mark(r)
            /\ newest' = Later(newest, r)
       ELSE UNCHANGED trackerVars
    /\ UNCHANGED <<agentVars, browserVars, troubles>>

\* list: reports have stopped coming for piWorkingTimeout, or so many were late or lost.
Expire ==
    /\ activity.state = "working"
    /\ activity' = Nothing
    /\ UNCHANGED <<agentVars, reports, order, last, newest, browserVars, troubles>>

\* list: nothing was heard for piActivityOrderRetention, longer than any report is on its way.
HooksDone == \A p \in Prompts : beats[p] = "off"
Forget ==
    /\ HooksDone /\ reports = {} /\ order # NoOrder /\ activity.state # "working"
    /\ order' = NoOrder
    /\ UNCHANGED <<agentVars, reports, activity, last, newest, browserVars, troubles>>

\* The tracker is in memory, and its connections end with it.
Restart ==
    /\ Trouble
    /\ activity' = Nothing /\ order' = NoOrder /\ newest' = NoneApplied
    /\ reports' \in SUBSET Repeated /\ sent' = NotSent /\ frame' = NotSent
    /\ acks' = [i \in Acks |-> IF acks[i].at \in {"asked", "served"}
                               THEN [acks[i] EXCEPT !.at = "refused"] ELSE acks[i]]
    /\ UNCHANGED <<agentVars, last, visible, pending, failed>>

------------------------------------------------------------------------------
(* The browser.                                                             *)

\* The agentActivity topic sends a snapshot that differs from its last one.
Push ==
    /\ frame = NotSent /\ sent # activity
    /\ sent' = activity /\ frame' = activity
    /\ UNCHANGED <<agentVars, reports, trackerVars, sliceVars, troubles>>

\* isStrictlyNewerActivity
Newer(a, b) == a.at > b.at

\* activitiesReceived: an acknowledged activity stays hidden until the server omits it or has
\* a newer one.
Receive ==
    LET releases == frame = Nothing \/ Newer(frame, pending)
    IN  /\ frame # NotSent
        /\ frame' = NotSent
        /\ failed' = IF failed = frame THEN failed ELSE Nothing
        /\ pending' = IF releases THEN Nothing ELSE pending
        /\ visible' = IF pending = Nothing \/ releases THEN frame ELSE Nothing
        /\ UNCHANGED <<agentVars, reports, trackerVars, sent, acks, troubles>>

\* threadActivityAcknowledged, of a click (retryFailed) or of anything else done in the thread.
Acknowledge(i, retryFailed) ==
    /\ visible.state = "finished" /\ pending = Nothing
    /\ retryFailed \/ failed # visible
    /\ acks[i].at = "unasked" /\ \A j \in Acks : acks[j].at = "unasked" => i <= j
    /\ acks' = [acks EXCEPT ![i] = [of |-> visible, at |-> "asked"]]
    /\ pending' = visible /\ visible' = Nothing /\ failed' = Nothing
    /\ UNCHANGED <<agentVars, reports, trackerVars, sent, frame, troubles>>

\* acknowledge of the tracker takes whatever has finished.
ServeAck(i) ==
    /\ acks[i].at = "asked"
    /\ acks' = [acks EXCEPT ![i].at = "served"]
    /\ activity' = IF activity.state = "finished" THEN Nothing ELSE activity
    /\ UNCHANGED <<agentVars, reports, order, last, newest, sent, frame, visible, pending, failed, troubles>>

\* acknowledgementConfirmed, of the thread and not of the version.
Confirmed(i) ==
    /\ acks[i].at = "served"
    /\ acks' = [acks EXCEPT ![i].at = "over"]
    /\ pending' = Nothing
    /\ UNCHANGED <<agentVars, reports, trackerVars, sent, frame, visible, failed, troubles>>

\* acknowledgementFailed: the request or its answer was lost.
RestoresAlways(a) == visible = Nothing \/ ~Newer(visible, a)
Restores(a) == pending = a
Failed(i) ==
    LET a == acks[i].of
    IN  /\ acks[i].at \in {"asked", "served", "refused"}
        /\ IF acks[i].at = "refused" THEN UNCHANGED troubles ELSE Trouble
        /\ acks' = [acks EXCEPT ![i].at = "over"]
        /\ IF Restores(a)
           THEN /\ pending' = Nothing /\ failed' = a
                /\ visible' = IF visible # Nothing /\ Newer(visible, a) THEN visible ELSE a
           ELSE UNCHANGED <<pending, failed, visible>>
        /\ UNCHANGED <<agentVars, reports, trackerVars, sent, frame>>

------------------------------------------------------------------------------
Next ==
    \/ Start \/ Finish \/ EndSession \/ Die \/ Resume
    \/ \E p \in Prompts : BeatStarts(p) \/ Beat(p) \/ BeatEnds(p)
    \/ \E r \in reports : Lose(r) \/ Update(r)
    \/ Expire \/ Forget \/ Restart
    \/ Push \/ Receive
    \/ \E i \in Acks :
          (\E retryFailed \in BOOLEAN : Acknowledge(i, retryFailed)) \/ ServeAck(i) \/ Confirmed(i) \/ Failed(i)

Spec == Init /\ [][Next]_vars

\* Processes run and end, what is on its way arrives if it is not lost, a stale mark is pruned
\* by the next list (the topic lists every stateActivityReconcileInterval).
Fairness ==
    /\ \A p \in Prompts : WF_vars(BeatStarts(p) \/ Beat(p) \/ BeatEnds(p))
    /\ WF_vars(\E r \in reports : Update(r) /\ r \notin reports')
    /\ WF_vars(Expire) /\ WF_vars(Push \/ Receive)

FairSpec == Spec /\ Fairness

------------------------------------------------------------------------------
(* However late and reordered the reports arrive, a start the server was    *)
(* told is over is not working again and the report of an earlier start     *)
(* does not replace that of a later one, also when the retired tokens are   *)
(* forgotten.                                                               *)
NoComeback ==
    activity # Nothing =>
        /\ activity.prompt >= newest.startedAt
        /\ activity.state = "working" /\ activity.prompt = newest.startedAt => ~newest.over

(* Once the browser has what the server last sent it shows that, but for a  *)
(* finished turn it asked to acknowledge: no failed or late answer leaves a *)
(* ghost of a turn or hides one that works.                                 *)
UpToDate == frame = NotSent /\ sent = activity
Asked(a) == \E i \in Acks : acks[i].of = a
ViewFollows ==
    UpToDate =>
        visible = activity \/ (activity.state = "finished" /\ visible = Nothing /\ Asked(activity))

(* A turn that goes on is shown as working, again and again, once nothing   *)
(* of a process that is gone can end it: no earlier heartbeat is left and   *)
(* the file is at the turn's prompt.                                        *)
Runs == turn # "idle"
Marked == activity.state = "working" /\ activity.prompt = prompt
Undisturbed == Current(prompt) /\ \A p \in Prompts : p <= gone => beats[p] = "off"
WorkShows == (Runs /\ Undisturbed) ~> (~Runs \/ Marked)

(* "a slow request or a busy host cannot prune a genuinely working thread   *)
(* and make the sidebar indicator flicker mid-turn" (pi_activity.go:22): a  *)
(* turn that goes on is shown as working, also that of a resumed agent.     *)
RunningShows == Runs ~> (~Runs \/ Marked)

(* When the agent stays idle or gone, the browser's working mark goes for   *)
(* good.                                                                    *)
QuietInTheEnd == <>[](turn = "idle") => <>[](visible.state # "working")

(* "the row disappears the moment you interact with the thread, and comes   *)
(* back if the server call fails" (agentActivity.ts:17): a finished turn    *)
(* the server still has is hidden only while its acknowledgement is under   *)
(* way.                                                                     *)
InFlight(a) == \E i \in Acks : acks[i].of = a /\ acks[i].at \in {"asked", "served", "refused"}
ComesBack ==
    UpToDate /\ activity.state = "finished" => visible = activity \/ InFlight(activity)
==============================================================================
