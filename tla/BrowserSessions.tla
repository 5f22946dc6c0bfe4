--------------------------- MODULE BrowserSessions ---------------------------
(***************************************************************************)
(* web/electron/browser-sessions.cjs: the desktop's guest browser, one     *)
(* BrowserSession with its tabs per thread, the BrowserWorkspaceManager    *)
(* that puts the operations of a thread in a queue and the selected tab of *)
(* the thread on display in the window, and the pages, which close, load   *)
(* and open popups as they like.                                           *)
(*                                                                         *)
(* JavaScript runs from one await to the next without interruption: each   *)
(* action is one such run.  What a tab's page shows is left out, and with  *)
(* it the accessibility refs.                                              *)
(***************************************************************************)
EXTENDS Naturals, Sequences, FiniteSets, FiniteSetsExt

CONSTANTS
    Keys,        \* threads of the workspace
    NoKey,       \* model value: no thread
    Asks,        \* the operations that are asked for in a thread
    TabLimit,    \* MAX_TABS of a session
    MaxTabs,     \* bound: tabs ever made
    MaxSessions, \* bound: sessions ever made
    MaxRequests  \* bound: operations asked for and popups opened, all together

\* "act" stands for the operations that work on the selected tab (navigate, snapshot, fill, key,
\* wait, evaluate, cdp), "render" for those that need it in the window (click, screenshot, preview).
AllOperations == {"start", "stop", "new", "select", "close", "act", "render"}

ASSUME BrowserSessionsAssumption ==
    /\ NoKey \notin Keys /\ IsFiniteSet(Keys)
    /\ Asks \in [Keys -> SUBSET AllOperations]
    /\ {TabLimit, MaxTabs, MaxSessions, MaxRequests} \subseteq Nat

Tabs == 1 .. MaxTabs
Sessions == 1 .. MaxSessions
None == 0 \* no tab, no session

VARIABLES
    \* BrowserSession
    thread,    \* its key, or NoKey before it is made
    stopped,   \* the sessions that were stopped
    current,   \* currentTargetId
    home,      \* the session a tab was made for
    listed,    \* the tabs in their session's map
    page,      \* the tab's WebContents: "closed" until its destroyed event
    \* BrowserWorkspaceManager
    sessions, queues, activeKey, attached, disposed,
    running,   \* the operation at the head of a queue: where it awaits, and what it knows
    children,  \* guests among the children of the window
    asked      \* budget

tabVars == <<home, listed, page>>
sessionVars == <<thread, stopped, current, sessions>>
viewVars == <<attached, children>>
vars == <<tabVars, sessionVars, queues, running, activeKey, viewVars, disposed, asked>>

Awaits == {"idle", "load", "work", "failed"}
Idle == [pc |-> "idle", created |-> FALSE, tab |-> None]

TypeOK ==
    /\ thread \in [Sessions -> Keys \cup {NoKey}] /\ stopped \subseteq Sessions
    /\ current \in [Sessions -> Tabs \cup {None}]
    /\ home \in [Tabs -> Sessions \cup {None}] /\ listed \subseteq Tabs
    /\ page \in [Tabs -> {"unmade", "open", "closed", "gone"}]
    /\ sessions \in [Keys -> Sessions \cup {None}]
    /\ queues \in [Keys -> Seq(AllOperations \cup {"popup"})]
    /\ running \in [Keys -> [pc : Awaits, created : BOOLEAN, tab : Tabs \cup {None}]]
    /\ activeKey \in Keys \cup {NoKey} /\ attached \in Tabs \cup {None} /\ children \subseteq Tabs
    /\ disposed \in {"no", "waiting", "done"} /\ asked \in Nat

Init ==
    /\ thread = [s \in Sessions |-> NoKey] /\ stopped = {}
    /\ current = [s \in Sessions |-> None]
    /\ home = [t \in Tabs |-> None] /\ listed = {} /\ page = [t \in Tabs |-> "unmade"]
    /\ sessions = [k \in Keys |-> None] /\ queues = [k \in Keys |-> <<>>]
    /\ running = [k \in Keys |-> Idle]
    /\ activeKey = NoKey /\ attached = None /\ children = {}
    /\ disposed = "no" /\ asked = 0

TabsOf(s) == {t \in listed : home[t] = s}
FirstOf(tabs) == IF tabs = {} THEN None ELSE Min(tabs)

\* selectedTab of the thread's session.
Selected(k) == IF sessions[k] = None THEN None ELSE current[sessions[k]]

------------------------------------------------------------------------------
(* What the window shows.                                                   *)

\* attachSelectedView, for a window that holds the given guests.
Attach(guests, tab) ==
    /\ attached' = tab
    /\ children' = ((guests \ {attached}) \cup {tab}) \ {None}

\* sessionChanged, after the step's changes.
Changed(k, guests) ==
    IF activeKey = k THEN Attach(guests, Selected(k)') ELSE children' = guests /\ UNCHANGED attached

Show(k) ==
    /\ activeKey' = k
    /\ Attach(children, Selected(k))
    /\ UNCHANGED <<tabVars, sessionVars, queues, running, disposed, asked>>

\* hide, and a reload or crash of the application's own page.
Hide ==
    /\ activeKey # NoKey
    /\ activeKey' = NoKey
    /\ Attach(children, None)
    /\ UNCHANGED <<tabVars, sessionVars, queues, running, disposed, asked>>

------------------------------------------------------------------------------
(* Tabs.                                                                    *)

\* destroyTab, of some tabs: the first of those that are left is selected.
Destroy(tabs) ==
    /\ listed' = listed \ tabs
    /\ page' = [t \in Tabs |-> IF t \in tabs /\ page[t] = "open" THEN "closed" ELSE page[t]]
    /\ current' = [s \in Sessions |-> IF current[s] \in tabs THEN FirstOf(TabsOf(s) \ tabs)
                                      ELSE current[s]]
    /\ UNCHANGED home

\* BrowserSession.stop, of some sessions; their tabs leave the window too.
TabsOfAll(those) == {t \in listed : home[t] \in those}
StopCancelsOnly(those) == stopped' = stopped \cup those /\ Destroy({})
Stop(those) == stopped' = stopped \cup those /\ Destroy(TabsOfAll(those))

\* createTab, up to the load it awaits.
CanCreateStopped(s) == Cardinality(TabsOf(s)) < TabLimit
CanCreate(s) == s \notin stopped /\ Cardinality(TabsOf(s)) < TabLimit
CreateTab(k, s, created) ==
    \E t \in Tabs :
        /\ page[t] = "unmade" /\ \A u \in Tabs : page[u] = "unmade" => t <= u
        /\ home' = [home EXCEPT ![t] = s] /\ page' = [page EXCEPT ![t] = "open"]
        /\ listed' = listed \cup {t} /\ current' = [current EXCEPT ![s] = t]
        /\ running' = [running EXCEPT ![k] = [pc |-> "load", created |-> created, tab |-> t]]

\* An operation is answered, and the next one of its thread may start.
Answered(k) ==
    /\ running' = [running EXCEPT ![k] = Idle]
    /\ queues' = [queues EXCEPT ![k] = Tail(@)]
Fails(k, created) ==
    /\ running' = [running EXCEPT ![k] = [pc |-> "failed", created |-> created, tab |-> None]]
    /\ UNCHANGED queues

------------------------------------------------------------------------------
(* perform                                                                  *)

\* A request; a stop interrupts what the session is doing before it waits for its turn.
Request(k, op) ==
    LET those == IF op = "stop" THEN {sessions[k]} \ {None} ELSE {}
    IN  /\ disposed = "no" /\ asked < MaxRequests
        /\ asked' = asked + 1
        /\ queues' = [queues EXCEPT ![k] = Append(@, op)]
        /\ Stop(those) /\ children' = children \ TabsOfAll(those)
        /\ UNCHANGED <<thread, sessions, running, activeKey, attached, disposed>>

Idles(k) == running[k].pc = "idle" /\ queues[k] # <<>>
Turn(k) == Head(queues[k])
AtHead(k, ops) == disposed = "no" /\ Idles(k) /\ Turn(k) \in ops

\* serialized: whoever gets his turn after the dispose is refused.
Refuse(k) ==
    /\ disposed # "no" /\ Idles(k)
    /\ Answered(k)
    /\ UNCHANGED <<tabVars, sessionVars, activeKey, viewVars, disposed, asked>>

ServeStop(k) ==
    LET those == {sessions[k]} \ {None}
        left == children \ TabsOfAll(those)
    IN  /\ AtHead(k, {"stop"})
        /\ Stop(those)
        /\ sessions' = [sessions EXCEPT ![k] = None]
        /\ IF activeKey = k THEN Attach(left, None) ELSE children' = left /\ UNCHANGED attached
        /\ Answered(k)
        /\ UNCHANGED <<thread, activeKey, disposed, asked>>

\* onPopup, in its turn.
ServePopup(k) ==
    LET s == sessions[k]
    IN  /\ AtHead(k, {"popup"})
        /\ IF s # None /\ CanCreate(s)
           THEN CreateTab(k, s, FALSE) /\ UNCHANGED queues
           ELSE Answered(k) /\ UNCHANGED <<tabVars, current>>
        /\ UNCHANGED <<thread, stopped, sessions, activeKey, viewVars, disposed, asked>>

\* BrowserSession.perform, right away or after the load of the tab a new session begins with.
Perform(k, created, loaded) ==
    LET op == Turn(k)
        s == sessions[k]
        shown == IF op = "render" THEN {Selected(k)} ELSE {}
        View(guests) == IF loaded THEN Changed(k, guests) ELSE children' = guests /\ UNCHANGED attached
    IN  \/ /\ op = "start"
           /\ UNCHANGED <<tabVars, current>> /\ Changed(k, children) /\ Answered(k)
        \/ /\ op = "select"
           /\ \E t \in TabsOf(s) : current' = [current EXCEPT ![s] = t]
           /\ Changed(k, children) /\ Answered(k) /\ UNCHANGED tabVars
        \/ /\ op = "close"
           /\ \E t \in TabsOf(s) : Destroy({t}) /\ Changed(k, children \ {t})
           /\ Answered(k)
        \/ /\ op \in {"act", "render"} /\ Selected(k) # None
           /\ running' = [running EXCEPT ![k] = [pc |-> "work", created |-> created, tab |-> Selected(k)]]
           /\ UNCHANGED <<tabVars, current, queues>> /\ View(children \cup shown)
        \/ /\ op \in {"select", "close"} \/ (op \in {"act", "render"} /\ Selected(k) = None)
           /\ UNCHANGED <<tabVars, current>> /\ View(children)
           /\ Fails(k, created)

\* The first operation of a thread makes its session, but for a preview.
MakeSession(k) ==
    /\ sessions[k] = None
    /\ \E s \in Sessions :
          /\ thread[s] = NoKey /\ \A r \in Sessions : thread[r] = NoKey => s <= r
          /\ thread' = [thread EXCEPT ![s] = k] /\ sessions' = [sessions EXCEPT ![k] = s]
          /\ \/ CreateTab(k, s, TRUE) /\ UNCHANGED queues
             \/ Turn(k) \in {"start", "new"} /\ Fails(k, TRUE) /\ UNCHANGED <<tabVars, current>>
    /\ UNCHANGED <<stopped, viewVars>>
ServePreviewless(k) ==
    /\ sessions[k] = None /\ Turn(k) = "render"
    /\ Answered(k)
    /\ UNCHANGED <<tabVars, sessionVars, viewVars>>
OpensTab(k) ==
    \/ Turn(k) = "new"
    \/ Turn(k) = "start" /\ TabsOf(sessions[k]) = {}
ServeInSession(k) ==
    LET s == sessions[k]
    IN  /\ s # None
        /\ UNCHANGED <<thread, stopped, sessions>>
        /\ IF ~OpensTab(k) THEN Perform(k, FALSE, FALSE)
           ELSE /\ \/ CanCreate(s) /\ CreateTab(k, s, FALSE) /\ UNCHANGED queues
                   \/ Fails(k, FALSE) /\ UNCHANGED <<tabVars, current>>
                /\ UNCHANGED viewVars
ServeOperation(k) ==
    /\ AtHead(k, AllOperations \ {"stop"})
    /\ MakeSession(k) \/ ServePreviewless(k) \/ ServeInSession(k)
    /\ UNCHANGED <<activeKey, disposed, asked>>

------------------------------------------------------------------------------
(* What follows an await.                                                   *)

\* createTab after the load, which a stop interrupts.
LoadEnds(k) ==
    /\ running[k].pc = "load" /\ sessions[k] \notin stopped
    /\ UNCHANGED <<thread, stopped, sessions, activeKey, disposed, asked>>
    /\ IF Turn(k) \in {"popup", "new"}
       THEN UNCHANGED <<tabVars, current>> /\ Changed(k, children) /\ Answered(k)
       ELSE Perform(k, running[k].created, TRUE)
LoadFails(k) ==
    LET tabs == {running[k].tab} \cap listed
    IN  /\ running[k].pc = "load"
        /\ Destroy(tabs) /\ children' = children \ tabs
        /\ Fails(k, running[k].created)
        /\ UNCHANGED <<thread, stopped, sessions, attached, activeKey, disposed, asked>>

\* The end of withRenderableTab, however the operation ends.
ReleasesKept(k) == {}
Releases(k) == IF Turn(k) = "render" THEN {running[k].tab} \ {attached} ELSE {}
WorkEnds(k) ==
    /\ running[k].pc = "work"
    /\ \/ sessions[k] \notin stopped /\ Answered(k)
       \/ Fails(k, running[k].created)
    /\ children' = children \ Releases(k)
    /\ UNCHANGED <<tabVars, sessionVars, attached, activeKey, disposed, asked>>

\* The catch of perform: a session that began with this operation and has no tab ends with it.
CleanUp(k) ==
    LET s == sessions[k]
    IN  /\ running[k].pc = "failed"
        /\ IF running[k].created /\ TabsOf(s) = {}
           THEN /\ stopped' = stopped \cup {s} /\ current' = [current EXCEPT ![s] = None]
                /\ sessions' = [sessions EXCEPT ![k] = None]
                /\ Changed(k, children)
           ELSE UNCHANGED <<stopped, current, sessions, viewVars>>
        /\ Answered(k)
        /\ UNCHANGED <<tabVars, thread, activeKey, disposed, asked>>

------------------------------------------------------------------------------
(* The pages.                                                               *)

\* window.open: the popup waits for its turn.
PageOpensPopup(t) ==
    /\ page[t] = "open" /\ asked < MaxRequests
    /\ asked' = asked + 1
    /\ queues' = [queues EXCEPT ![thread[home[t]]] = Append(@, "popup")]
    /\ UNCHANGED <<tabVars, sessionVars, running, activeKey, viewVars, disposed>>

\* did-start-loading, did-navigate and the like.
PageChanges(t) ==
    /\ page[t] = "open"
    /\ UNCHANGED <<tabVars, sessionVars, queues, running, activeKey, disposed, asked>>
    /\ Changed(thread[home[t]], children)

\* The destroyed event, after window.close or after destroyTab.
GoneSilently(t) == UNCHANGED viewVars
Gone(t) == Changed(thread[home[t]], children)
PageGone(t) ==
    /\ page[t] \in {"open", "closed"}
    /\ page' = [page EXCEPT ![t] = "gone"] /\ listed' = listed \ {t}
    /\ current' = [s \in Sessions |-> IF current[s] = t THEN FirstOf(TabsOf(s) \ {t}) ELSE current[s]]
    /\ UNCHANGED <<home, thread, stopped, sessions, queues, running, activeKey, disposed, asked>>
    /\ Gone(t)

------------------------------------------------------------------------------
(* The end of the window.                                                   *)
DisposeWaitsFirst ==
    /\ disposed = "no"
    /\ disposed' = "waiting"
    /\ activeKey' = NoKey
    /\ Attach(children, None)
    /\ UNCHANGED <<tabVars, sessionVars, queues, running, asked>>
Dispose ==
    LET those == {sessions[k] : k \in Keys} \ {None}
    IN  /\ disposed = "no"
        /\ disposed' = "waiting"
        /\ activeKey' = NoKey
        /\ Attach(children \ TabsOfAll(those), None)
        /\ Stop(those)
        /\ UNCHANGED <<thread, sessions, queues, running, asked>>
Disposed ==
    /\ disposed = "waiting" /\ \A k \in Keys : queues[k] = <<>>
    /\ disposed' = "done"
    /\ sessions' = [k \in Keys |-> None]
    /\ UNCHANGED <<tabVars, thread, stopped, current, queues, running, activeKey, viewVars, asked>>

------------------------------------------------------------------------------
Next ==
    \/ \E k \in Keys :
          \/ Show(k)
          \/ \E op \in Asks[k] : Request(k, op)
          \/ Refuse(k) \/ ServeStop(k) \/ ServePopup(k) \/ ServeOperation(k)
          \/ LoadEnds(k) \/ LoadFails(k) \/ WorkEnds(k) \/ CleanUp(k)
    \/ \E t \in Tabs : PageOpensPopup(t) \/ PageChanges(t) \/ PageGone(t)
    \/ Hide \/ Dispose \/ Disposed

Spec == Init /\ [][Next]_vars

\* Promises settle and a closed page tells so.  Loads and debugger commands have
\* timeouts; capturePage has none and may hang as long as its page is there.
Hangs(k) == Turn(k) = "render" /\ page[running[k].tab] = "open"
Fairness ==
    /\ \A k \in Keys :
          /\ WF_vars(Refuse(k)) /\ WF_vars(ServeStop(k)) /\ WF_vars(ServePopup(k))
          /\ WF_vars(ServeOperation(k))
          /\ WF_vars(LoadEnds(k) \/ LoadFails(k))
          /\ WF_vars(running[k].pc = "work" /\ ~Hangs(k) /\ WorkEnds(k))
          /\ WF_vars(CleanUp(k))
    /\ \A t \in Tabs : WF_vars(page[t] = "closed" /\ PageGone(t))
    /\ WF_vars(Disposed)

FairSpec == Spec /\ Fairness

------------------------------------------------------------------------------
(* The window shows the selected tab of the thread on display, whatever     *)
(* opened, closed, failed or stopped meanwhile, as soon as no load and no   *)
(* destroyed event of that thread is under way.                             *)
AttachedFollows ==
    /\ activeKey = NoKey => attached = None
    /\ activeKey # NoKey =>
          \/ running[activeKey].pc = "load"
          \/ \E t \in Tabs : page[t] = "closed" /\ thread[home[t]] = activeKey
          \/ attached = Selected(activeKey)

(* A guest that is not on display is in the window only while an operation  *)
(* of its thread renders it (withRenderableTab): hiding, switching threads, *)
(* closing and stopping meanwhile leave none behind to take the focus.      *)
NoHiddenGuest ==
    \A t \in children :
        t = attached \/ \E k \in Keys : running[k].pc = "work" /\ Turn(k) = "render" /\ running[k].tab = t

(* Every page that lives belongs to a session that a stop and the dispose   *)
(* still find: none is made in a session that was stopped before its turn.  *)
NoOrphanPage ==
    \A t \in Tabs : page[t] = "open" =>
        /\ t \in listed /\ home[t] \notin stopped
        /\ sessions[thread[home[t]]] = home[t]

(* A stop takes effect although an operation hangs at the head of the       *)
(* thread's queue.                                                          *)
StoppedLeaves ==
    \A s \in Sessions : s \in stopped ~> \A k \in Keys : sessions[k] # s

(* Closing the window ends, whatever was running and queued.                *)
DisposeEnds == disposed = "waiting" ~> disposed = "done"
==============================================================================
