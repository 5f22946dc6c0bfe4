----------------------- MODULE BrowserSessionsProofs -----------------------
(***************************************************************************)
(* For any threads, tabs and operations: the state of BrowserSessions      *)
(* stays well formed, no page lives outside a session that a stop and the  *)
(* dispose still find, no guest stays in the window unseen, and the window *)
(* shows what is selected.                                                 *)
(***************************************************************************)
EXTENDS BrowserSessions, WellFoundedInduction, TLAPS

(* The parts of TypeOK: the data, the queues and the window.                *)
DataTypes ==
    /\ thread \in [Sessions -> Keys \cup {NoKey}] /\ stopped \subseteq Sessions
    /\ current \in [Sessions -> Tabs \cup {None}]
    /\ home \in [Tabs -> Sessions \cup {None}] /\ listed \subseteq Tabs
    /\ page \in [Tabs -> {"unmade", "open", "closed", "gone"}]
    /\ sessions \in [Keys -> Sessions \cup {None}]
    /\ disposed \in {"no", "waiting", "done"}
QueueTypes ==
    /\ queues \in [Keys -> Seq(AllOperations \cup {"popup"})]
    /\ running \in [Keys -> [pc : Awaits, created : BOOLEAN, tab : Tabs \cup {None}]]
    /\ asked \in Nat
ViewTypes ==
    /\ activeKey \in Keys \cup {NoKey} /\ attached \in Tabs \cup {None} /\ children \subseteq Tabs

(* A tab is listed as long as its page is open, in the session it was made  *)
(* for; once a dispose began there is none.                                 *)
PagesAgree ==
    /\ listed = {t \in Tabs : page[t] = "open"}
    /\ \A t \in Tabs : page[t] # "unmade" => home[t] \in Sessions /\ thread[home[t]] \in Keys
    /\ disposed # "no" => listed = {}

(* A thread's session was made for it, and one that was not made is fresh.  *)
SessionsAgree ==
    /\ \A k \in Keys : sessions[k] # None => thread[sessions[k]] = k
    /\ \A s \in Sessions : thread[s] = NoKey => s \notin stopped

(* An operation under way is at the head of its queue, in a session.        *)
WorkAgrees ==
    \A k \in Keys : running[k].pc # "idle" => queues[k] # <<>> /\ sessions[k] # None

Data == DataTypes /\ PagesAgree /\ SessionsAgree /\ NoOrphanPage
Work == QueueTypes /\ WorkAgrees
IInv == Data /\ Work /\ ViewTypes

------------------------------------------------------------------------------
LEMMA NoneIsNeither == None \notin Tabs /\ None \notin Sessions
BY DEF None, Tabs, Sessions

LEMMA FirstOfIn == ASSUME NEW tabs \in SUBSET Tabs PROVE FirstOf(tabs) \in tabs \cup {None}
<1>1. CASE tabs = {}
  BY <1>1 DEF FirstOf
<1>2. CASE tabs # {}
  <2> DEFINE R == OpToRel(<, Nat)
  <2>1. IsWellFoundedOn(R, Nat)
    BY NatLessThanWellFounded
  <2>2. tabs \subseteq Nat
    BY DEF Tabs
  <2>3. \A x, y \in Nat : <<y, x>> \in R <=> y < x
    BY DEF OpToRel
  <2> HIDE DEF R
  <2>4. PICK x \in tabs : \A y \in tabs : ~ (<<y, x>> \in R)
    BY <1>2, <2>1, <2>2, WFMin
  <2>5. \A y \in tabs : x =< y
    <3> TAKE y \in tabs
    <3>1. x \in Nat /\ y \in Nat
      BY <2>2
    <3>2. ~(y < x)
      BY <2>3, <2>4, <3>1
    <3> QED BY <3>1, <3>2
  <2> QED BY <1>2, <2>5 DEF FirstOf, Min
<1> QED BY <1>1, <1>2

LEMMA TabsOfIn == ASSUME DataTypes, NEW s PROVE TabsOf(s) \subseteq Tabs
BY DEF TabsOf, DataTypes

\* The tabs that are closed leave their session, wherever its selection goes.
LEMMA DestroyTypes ==
    ASSUME DataTypes, NEW tabs \in SUBSET Tabs, Destroy(tabs)
    PROVE  /\ current' \in [Sessions -> Tabs \cup {None}]
           /\ listed' = listed \ tabs /\ home' = home
           /\ page' \in [Tabs -> {"unmade", "open", "closed", "gone"}]
           /\ \A t \in Tabs : page'[t] = IF t \in tabs /\ page[t] = "open" THEN "closed" ELSE page[t]
<1>1. \A s \in Sessions : FirstOf(TabsOf(s) \ tabs) \in Tabs \cup {None}
  <2> TAKE s \in Sessions
  <2>1. TabsOf(s) \ tabs \in SUBSET Tabs
    BY TabsOfIn
  <2> QED BY <2>1, FirstOfIn
<1> QED BY <1>1 DEF Destroy, DataTypes

\* Tabs are closed, and the sessions that are stopped lose all of theirs.
LEMMA DestroyKeepsData ==
    ASSUME Data, NEW tabs \in SUBSET Tabs, Destroy(tabs), NEW those \in SUBSET Sessions,
           TabsOfAll(those) \subseteq tabs, \A s \in those : thread[s] # NoKey,
           stopped' = stopped \cup those, UNCHANGED thread,
           sessions' \in [Keys -> Sessions \cup {None}],
           \A k \in Keys : sessions'[k] = sessions[k] \/ (sessions'[k] = None /\ sessions[k] \in those \cup {None}),
           disposed' \in {"no", "waiting", "done"},
           disposed' # "no" => listed \ tabs = {}
    PROVE  Data'
<1>1. /\ current' \in [Sessions -> Tabs \cup {None}]
      /\ listed' = listed \ tabs /\ home' = home
      /\ page' \in [Tabs -> {"unmade", "open", "closed", "gone"}]
      /\ \A t \in Tabs : page'[t] = IF t \in tabs /\ page[t] = "open" THEN "closed" ELSE page[t]
  BY DestroyTypes DEF Data
<1>2. DataTypes'
  BY <1>1 DEF Data, DataTypes
<1>3. PagesAgree'
  BY <1>1 DEF Data, DataTypes, PagesAgree
<1>4. SessionsAgree'
  BY <1>1 DEF Data, DataTypes, SessionsAgree
<1>5. NoOrphanPage'
  <2> SUFFICES ASSUME NEW t \in Tabs, page'[t] = "open"
               PROVE  /\ t \in listed' /\ home'[t] \notin stopped'
                      /\ sessions'[thread'[home'[t]]] = home'[t]
    BY DEF NoOrphanPage
  <2>1. page[t] = "open" /\ t \notin tabs
    BY <1>1
  <2>2. /\ t \in listed /\ home[t] \notin stopped /\ sessions[thread[home[t]]] = home[t]
        /\ home[t] \in Sessions /\ thread[home[t]] \in Keys
    BY <2>1 DEF Data, NoOrphanPage, PagesAgree
  <2>3. home[t] \notin those
    BY <2>1, <2>2 DEF TabsOfAll
  <2> QED BY <1>1, <2>1, <2>2, <2>3, NoneIsNeither
<1> QED BY <1>2, <1>3, <1>4, <1>5 DEF Data

LEMMA StopKeepsData ==
    ASSUME Data, NEW those \in SUBSET Sessions, Stop(those), \A s \in those : thread[s] # NoKey,
           UNCHANGED thread, sessions' \in [Keys -> Sessions \cup {None}],
           \A k \in Keys : sessions'[k] = sessions[k] \/ (sessions'[k] = None /\ sessions[k] \in those \cup {None}),
           disposed' \in {"no", "waiting", "done"},
           disposed' # "no" => disposed # "no" \/ listed \subseteq TabsOfAll(those)
    PROVE  Data'
<1>1. TabsOfAll(those) \in SUBSET Tabs
  BY DEF TabsOfAll, Data, DataTypes
<1>2. Destroy(TabsOfAll(those)) /\ stopped' = stopped \cup those
  BY DEF Stop
<1>3. disposed' # "no" => listed \ TabsOfAll(those) = {}
  BY DEF Data, PagesAgree
<1> QED BY <1>1, <1>2, <1>3, DestroyKeepsData

\* A tab is made in a session that is the thread's and was not stopped.
LEMMA CreateKeepsData ==
    ASSUME Data, NEW k \in Keys, NEW s \in Sessions, NEW created \in BOOLEAN, CreateTab(k, s, created),
           s \notin stopped, thread' \in [Sessions -> Keys \cup {NoKey}], thread'[s] = k,
           \A r \in Sessions \ {s} : thread'[r] = thread[r], thread[s] \in {k, NoKey},
           sessions' \in [Keys -> Sessions \cup {None}], sessions'[k] = s,
           sessions[k] \in {s, None}, \A l \in Keys \ {k} : sessions'[l] = sessions[l],
           UNCHANGED <<stopped, disposed>>, disposed = "no"
    PROVE  Data'
<1>1. PICK t \in Tabs : /\ page[t] = "unmade"
                        /\ home' = [home EXCEPT ![t] = s] /\ page' = [page EXCEPT ![t] = "open"]
                        /\ listed' = listed \cup {t} /\ current' = [current EXCEPT ![s] = t]
  BY DEF CreateTab
<1>2. k # NoKey
  BY BrowserSessionsAssumption
<1>3. DataTypes'
  BY <1>1 DEF Data, DataTypes
<1>4. PagesAgree'
  BY <1>1, <1>2 DEF Data, DataTypes, PagesAgree
<1>5. SessionsAgree'
  <2>1. ASSUME NEW l \in Keys, sessions'[l] # None PROVE thread'[sessions'[l]] = l
    <3>1. CASE l = k
      BY <3>1
    <3>2. CASE l # k
      <4>1. sessions'[l] = sessions[l] /\ thread[sessions[l]] = l /\ sessions[l] \in Sessions
        BY <2>1, <3>2 DEF Data, DataTypes, SessionsAgree
      <4>2. l # NoKey
        BY BrowserSessionsAssumption
      <4> QED BY <3>2, <4>1, <4>2
    <3> QED BY <3>1, <3>2
  <2>2. \A r \in Sessions : thread'[r] = NoKey => r \notin stopped'
    BY <1>2 DEF Data, SessionsAgree
  <2> QED BY <2>1, <2>2 DEF SessionsAgree
<1>6. NoOrphanPage'
  <2> SUFFICES ASSUME NEW u \in Tabs, page'[u] = "open"
               PROVE  /\ u \in listed' /\ home'[u] \notin stopped'
                      /\ sessions'[thread'[home'[u]]] = home'[u]
    BY DEF NoOrphanPage
  <2>1. CASE u = t
    BY <1>1, <2>1 DEF Data, DataTypes
  <2>2. CASE u # t
    <3>1. page[u] = "open" /\ home'[u] = home[u]
      BY <1>1, <2>2 DEF Data, DataTypes
    <3>2. /\ u \in listed /\ home[u] \notin stopped /\ sessions[thread[home[u]]] = home[u]
          /\ home[u] \in Sessions /\ thread[home[u]] \in Keys
      BY <3>1 DEF Data, NoOrphanPage, PagesAgree
    <3>3. CASE home[u] = s
      BY <1>1, <3>1, <3>2, <3>3
    <3>4. CASE home[u] # s
      <4>1. thread[home[u]] # k
        BY <3>2, <3>4, NoneIsNeither
      <4> QED BY <1>1, <3>1, <3>2, <3>4, <4>1
    <3> QED BY <3>3, <3>4
  <2> QED BY <2>1, <2>2
<1> QED BY <1>3, <1>4, <1>5, <1>6 DEF Data

\* Nothing is opened, closed, made or stopped; a selection may move.
LEMMA SelectKeepsData ==
    ASSUME Data, UNCHANGED <<tabVars, thread, stopped, sessions, disposed>>,
           current' \in [Sessions -> Tabs \cup {None}]
    PROVE  Data'
<1>1. DataTypes'
  BY DEF Data, DataTypes, tabVars
<1>2. PagesAgree' /\ SessionsAgree' /\ NoOrphanPage'
  BY DEF Data, PagesAgree, SessionsAgree, NoOrphanPage, tabVars
<1> QED BY <1>1, <1>2 DEF Data

\* A page is gone: its tab is listed no more, and what is left of its session is selected.
LEMMA GoneKeepsData ==
    ASSUME Data, NEW t \in Tabs, PageGone(t)
    PROVE  Data'
<1>1. /\ page' = [page EXCEPT ![t] = "gone"] /\ listed' = listed \ {t}
      /\ current' = [s \in Sessions |-> IF current[s] = t THEN FirstOf(TabsOf(s) \ {t}) ELSE current[s]]
      /\ UNCHANGED <<home, thread, stopped, sessions, disposed>> /\ page[t] \in {"open", "closed"}
  BY DEF PageGone
<1>2. \A s \in Sessions : FirstOf(TabsOf(s) \ {t}) \in Tabs \cup {None}
  <2> TAKE s \in Sessions
  <2>1. TabsOf(s) \ {t} \in SUBSET Tabs
    BY TabsOfIn DEF Data
  <2> QED BY <2>1, FirstOfIn
<1>3. DataTypes'
  BY <1>1, <1>2 DEF Data, DataTypes
<1>4. PagesAgree' /\ SessionsAgree' /\ NoOrphanPage'
  BY <1>1 DEF Data, DataTypes, PagesAgree, SessionsAgree, NoOrphanPage
<1> QED BY <1>3, <1>4 DEF Data

------------------------------------------------------------------------------
(* The window and the queues.                                               *)
LEMMA AttachTypes ==
    ASSUME ViewTypes, activeKey' \in Keys \cup {NoKey}, NEW guests \in SUBSET Tabs,
           NEW tab \in Tabs \cup {None}, Attach(guests, tab)
    PROVE  ViewTypes'
BY NoneIsNeither DEF ViewTypes, Attach

LEMMA SelectedIn ==
    ASSUME DataTypes, NEW k \in Keys
    PROVE  Selected(k) \in Tabs \cup {None}
BY DEF DataTypes, Selected

LEMMA ChangedTypes ==
    ASSUME ViewTypes, DataTypes', UNCHANGED activeKey, NEW k \in Keys, NEW guests \in SUBSET Tabs,
           Changed(k, guests)
    PROVE  ViewTypes'
<1>1. Selected(k)' \in Tabs \cup {None}
  BY DEF DataTypes, Selected
<1>2. CASE activeKey = k
  BY <1>1, <1>2, AttachTypes DEF Changed, ViewTypes
<1>3. CASE activeKey # k
  BY <1>3 DEF Changed, ViewTypes
<1> QED BY <1>2, <1>3

LEMMA RunningTypes ==
    ASSUME QueueTypes, NEW k \in Keys, NEW pc \in Awaits, NEW created \in BOOLEAN,
           NEW tab \in Tabs \cup {None},
           running' = [running EXCEPT ![k] = [pc |-> pc, created |-> created, tab |-> tab]],
           UNCHANGED <<queues, asked>>
    PROVE  QueueTypes'
<1>1. [pc |-> pc, created |-> created, tab |-> tab]
      \in [pc : Awaits, created : BOOLEAN, tab : Tabs \cup {None}]
  OBVIOUS
<1> QED BY <1>1 DEF QueueTypes

LEMMA AnsweredWork ==
    ASSUME Work, NEW k \in Keys, queues[k] # <<>>, Answered(k), UNCHANGED asked,
           \A l \in Keys \ {k} : sessions'[l] = sessions[l]
    PROVE  Work'
<1>1. Idle \in [pc : Awaits, created : BOOLEAN, tab : Tabs \cup {None}] /\ Idle.pc = "idle"
  BY DEF Idle, Awaits
<1>2. Tail(queues[k]) \in Seq(AllOperations \cup {"popup"})
  BY DEF Work, QueueTypes
<1>3. QueueTypes'
  BY <1>1, <1>2 DEF Work, QueueTypes, Answered
<1>4. WorkAgrees'
  BY <1>1 DEF Work, QueueTypes, WorkAgrees, Answered
<1> QED BY <1>3, <1>4 DEF Work

LEMMA RunsWork ==
    ASSUME Work, NEW k \in Keys, queues[k] # <<>>, sessions'[k] # None,
           NEW pc \in Awaits, NEW created \in BOOLEAN, NEW tab \in Tabs \cup {None},
           running' = [running EXCEPT ![k] = [pc |-> pc, created |-> created, tab |-> tab]],
           UNCHANGED <<queues, asked>>, \A l \in Keys \ {k} : sessions'[l] = sessions[l]
    PROVE  Work'
<1>1. QueueTypes'
  BY RunningTypes DEF Work
<1>2. WorkAgrees'
  BY DEF Work, QueueTypes, WorkAgrees
<1> QED BY <1>1, <1>2 DEF Work

LEMMA FailsWork ==
    ASSUME Work, NEW k \in Keys, queues[k] # <<>>, sessions'[k] # None, NEW created \in BOOLEAN,
           Fails(k, created), UNCHANGED asked, \A l \in Keys \ {k} : sessions'[l] = sessions[l]
    PROVE  Work'
<1>1. "failed" \in Awaits
  BY DEF Awaits
<1> QED BY <1>1, RunsWork DEF Fails

------------------------------------------------------------------------------
(* The operations.                                                          *)
LEMMA PerformKeeps ==
    ASSUME IInv, NEW k \in Keys, NEW created \in BOOLEAN, NEW loaded \in BOOLEAN,
           queues[k] # <<>>, sessions[k] # None, Perform(k, created, loaded),
           UNCHANGED <<thread, stopped, sessions, activeKey, disposed, asked>>
    PROVE  IInv'
<1> DEFINE op == Turn(k)
           s == sessions[k]
           shown == IF op = "render" THEN {Selected(k)} ELSE {}
           View(guests) == IF loaded THEN Changed(k, guests) ELSE children' = guests /\ UNCHANGED attached
<1>1. /\ DataTypes /\ ViewTypes /\ children \in SUBSET Tabs /\ Data /\ Work
      /\ s \in Sessions /\ Selected(k) \in Tabs \cup {None}
  BY SelectedIn DEF IInv, Data, DataTypes, ViewTypes
<1>2. ASSUME NEW guests \in SUBSET Tabs, DataTypes', View(guests) PROVE ViewTypes'
  <2>1. CASE loaded
    BY <1>1, <1>2, <2>1, ChangedTypes
  <2>2. CASE ~loaded
    BY <1>1, <1>2, <2>2 DEF ViewTypes
  <2> QED BY <2>1, <2>2
<1>3. ASSUME UNCHANGED <<tabVars, current>> PROVE Data'
  <2>1. current' \in [Sessions -> Tabs \cup {None}]
    BY <1>1, <1>3 DEF DataTypes
  <2> QED BY <1>1, <1>3, <2>1, SelectKeepsData
<1>4. CASE op = "start" /\ UNCHANGED <<tabVars, current>> /\ Changed(k, children) /\ Answered(k)
  <2>1. Data' /\ DataTypes'
    BY <1>3, <1>4 DEF Data
  <2>2. ViewTypes'
    BY <1>1, <1>4, <2>1, ChangedTypes
  <2>3. Work'
    BY <1>1, <1>4, AnsweredWork
  <2> QED BY <2>1, <2>2, <2>3 DEF IInv
<1>5. ASSUME NEW t \in TabsOf(s), current' = [current EXCEPT ![s] = t], UNCHANGED tabVars,
             Changed(k, children), Answered(k)
      PROVE  IInv'
  <2>1. t \in Tabs
    BY <1>1, TabsOfIn
  <2>2. current' \in [Sessions -> Tabs \cup {None}]
    BY <1>1, <1>5, <2>1 DEF DataTypes
  <2>3. Data' /\ DataTypes'
    BY <1>1, <1>5, <2>2, SelectKeepsData DEF Data
  <2>4. ViewTypes'
    BY <1>1, <1>5, <2>3, ChangedTypes
  <2>5. Work'
    BY <1>1, <1>5, AnsweredWork
  <2> QED BY <2>3, <2>4, <2>5 DEF IInv
<1>6. ASSUME NEW t \in TabsOf(s), Destroy({t}), Changed(k, children \ {t}), Answered(k)
      PROVE  IInv'
  <2>1. t \in Tabs
    BY <1>1, TabsOfIn
  <2>2. Data' /\ DataTypes'
    <3>1. TabsOfAll({}) = {}
      BY DEF TabsOfAll
    <3>2. stopped' = stopped \cup {} /\ sessions' \in [Keys -> Sessions \cup {None}]
          /\ disposed' \in {"no", "waiting", "done"}
      BY <1>1 DEF DataTypes
    <3>3. disposed' # "no" => listed \ {t} = {}
      BY <1>1 DEF Data, PagesAgree
    <3> QED BY <1>1, <1>6, <2>1, <3>1, <3>2, <3>3, DestroyKeepsData DEF Data
  <2>3. ViewTypes'
    BY <1>1, <1>6, <2>1, <2>2, ChangedTypes
  <2>4. Work'
    BY <1>1, <1>6, AnsweredWork
  <2> QED BY <2>2, <2>3, <2>4 DEF IInv
<1>7. CASE /\ op \in {"act", "render"} /\ Selected(k) # None
           /\ running' = [running EXCEPT ![k] = [pc |-> "work", created |-> created, tab |-> Selected(k)]]
           /\ UNCHANGED <<tabVars, current, queues>> /\ View(children \cup shown)
  <2>1. Data' /\ DataTypes'
    BY <1>3, <1>7 DEF Data
  <2>2. children \cup shown \in SUBSET Tabs
    BY <1>1, <1>7
  <2>3. ViewTypes'
    BY <1>2, <1>7, <2>1, <2>2
  <2>4. "work" \in Awaits
    BY DEF Awaits
  <2>5. Work'
    BY <1>1, <1>7, <2>4, RunsWork
  <2> QED BY <2>1, <2>3, <2>5 DEF IInv
<1>8. CASE UNCHANGED <<tabVars, current>> /\ View(children) /\ Fails(k, created)
  <2>1. Data' /\ DataTypes'
    BY <1>3, <1>8 DEF Data
  <2>2. ViewTypes'
    BY <1>1, <1>2, <1>8, <2>1
  <2>3. Work'
    BY <1>1, <1>8, FailsWork
  <2> QED BY <2>1, <2>2, <2>3 DEF IInv
<1> QED BY <1>4, <1>5, <1>6, <1>7, <1>8 DEF Perform

\* createTab, in the thread's session or in one that is made for it.
LEMMA CreateWork ==
    ASSUME IInv, NEW k \in Keys, NEW s \in Sessions, NEW created \in BOOLEAN, queues[k] # <<>>,
           CreateTab(k, s, created), UNCHANGED <<queues, asked>>,
           sessions'[k] # None, \A l \in Keys \ {k} : sessions'[l] = sessions[l]
    PROVE  Work'
<1>1. PICK t \in Tabs : running' = [running EXCEPT ![k] = [pc |-> "load", created |-> created, tab |-> t]]
  BY DEF CreateTab
<1>2. "load" \in Awaits
  BY DEF Awaits
<1> QED BY <1>1, <1>2, RunsWork DEF IInv

LEMMA OperationKeeps ==
    ASSUME IInv, NEW k \in Keys, ServeOperation(k) \/ ServePopup(k)
    PROVE  IInv'
<1>1. /\ Data /\ DataTypes /\ Work /\ ViewTypes
      /\ disposed = "no" /\ queues[k] # <<>> /\ UNCHANGED <<activeKey, disposed, asked>>
  BY DEF IInv, Data, ServeOperation, ServePopup, AtHead, Idles
<1>2. ASSUME UNCHANGED viewVars PROVE ViewTypes'
  BY <1>1, <1>2 DEF ViewTypes, viewVars
<1>3. ASSUME UNCHANGED <<tabVars, thread, stopped, sessions, current>> PROVE Data'
  <2>1. current' \in [Sessions -> Tabs \cup {None}]
    BY <1>1, <1>3 DEF DataTypes
  <2> QED BY <1>1, <1>3, <2>1, SelectKeepsData
<1>4. ASSUME sessions[k] # None, CanCreate(sessions[k]), CreateTab(k, sessions[k], FALSE),
             UNCHANGED <<queues, thread, stopped, sessions, viewVars>>
      PROVE  IInv'
  <2>1. sessions[k] \in Sessions /\ thread[sessions[k]] = k /\ sessions[k] \notin stopped
    BY <1>1, <1>4 DEF Data, DataTypes, SessionsAgree, CanCreate
  <2>2. Data'
    BY <1>1, <1>4, <2>1, CreateKeepsData DEF DataTypes
  <2>3. Work'
    BY <1>1, <1>4, <2>1, CreateWork
  <2> QED BY <1>2, <1>4, <2>2, <2>3 DEF IInv
<1>5. CASE ServePopup(k)
  <2>1. CASE sessions[k] # None /\ CanCreate(sessions[k])
    BY <1>4, <1>5, <2>1 DEF ServePopup
  <2>2. CASE ~(sessions[k] # None /\ CanCreate(sessions[k]))
    <3>1. Answered(k) /\ UNCHANGED <<tabVars, current, thread, stopped, sessions, viewVars>>
      BY <1>5, <2>2 DEF ServePopup
    <3>2. Work'
      BY <1>1, <3>1, AnsweredWork
    <3> QED BY <1>2, <1>3, <3>1, <3>2 DEF IInv
  <2> QED BY <2>1, <2>2
<1>6. CASE MakeSession(k)
  <2>1. PICK s \in Sessions :
          /\ thread[s] = NoKey
          /\ thread' = [thread EXCEPT ![s] = k] /\ sessions' = [sessions EXCEPT ![k] = s]
          /\ \/ CreateTab(k, s, TRUE) /\ UNCHANGED queues
             \/ Turn(k) \in {"start", "new"} /\ Fails(k, TRUE) /\ UNCHANGED <<tabVars, current>>
    BY <1>6 DEF MakeSession
  <2>2. UNCHANGED <<stopped, viewVars>> /\ sessions[k] = None
    BY <1>6 DEF MakeSession
  <2>3. /\ thread' \in [Sessions -> Keys \cup {NoKey}] /\ thread'[s] = k
        /\ \A r \in Sessions \ {s} : thread'[r] = thread[r]
        /\ sessions' \in [Keys -> Sessions \cup {None}] /\ sessions'[k] = s /\ s # None
        /\ \A l \in Keys \ {k} : sessions'[l] = sessions[l]
        /\ s \notin stopped
    BY <1>1, <2>1, NoneIsNeither DEF Data, DataTypes, SessionsAgree
  <2>4. CASE CreateTab(k, s, TRUE) /\ UNCHANGED queues
    <3>1. Data'
      BY <1>1, <2>1, <2>2, <2>3, <2>4, CreateKeepsData
    <3>2. Work'
      BY <1>1, <2>3, <2>4, CreateWork
    <3> QED BY <1>2, <2>2, <3>1, <3>2 DEF IInv
  <2>5. CASE Fails(k, TRUE) /\ UNCHANGED <<tabVars, current>>
    <3>1. Work'
      BY <1>1, <2>3, <2>5, FailsWork
    <3>2. DataTypes' /\ PagesAgree'
      BY <1>1, <2>1, <2>2, <2>3, <2>5 DEF Data, DataTypes, PagesAgree, tabVars
    <3>3. k # NoKey
      BY BrowserSessionsAssumption
    <3>4. SessionsAgree'
      <4>1. ASSUME NEW l \in Keys, sessions'[l] # None PROVE thread'[sessions'[l]] = l
        <5>1. CASE l = k
          BY <2>3, <5>1
        <5>2. CASE l # k
          <6>1. sessions'[l] = sessions[l] /\ thread[sessions[l]] = l /\ sessions[l] \in Sessions
            BY <1>1, <2>3, <4>1, <5>2 DEF Data, DataTypes, SessionsAgree
          <6>2. l # NoKey
            BY BrowserSessionsAssumption
          <6> QED BY <2>1, <2>3, <5>2, <6>1, <6>2
        <5> QED BY <5>1, <5>2
      <4>2. \A r \in Sessions : thread'[r] = NoKey => r \notin stopped'
        BY <1>1, <2>2, <2>3, <3>3 DEF Data, SessionsAgree
      <4> QED BY <4>1, <4>2 DEF SessionsAgree
    <3>5. NoOrphanPage'
      <4> SUFFICES ASSUME NEW u \in Tabs, page'[u] = "open"
                   PROVE  /\ u \in listed' /\ home'[u] \notin stopped'
                          /\ sessions'[thread'[home'[u]]] = home'[u]
        BY DEF NoOrphanPage
      <4>1. UNCHANGED <<page, home, listed>>
        BY <2>5 DEF tabVars
      <4>2. /\ u \in listed /\ home[u] \notin stopped /\ sessions[thread[home[u]]] = home[u]
            /\ home[u] \in Sessions /\ thread[home[u]] \in Keys
        BY <1>1, <4>1 DEF Data, NoOrphanPage, PagesAgree
      <4>3. home[u] # s /\ thread[home[u]] # k
        BY <2>1, <2>2, <4>2, NoneIsNeither, BrowserSessionsAssumption
      <4> QED BY <2>2, <2>3, <4>1, <4>2, <4>3
    <3> QED BY <1>2, <2>2, <3>1, <3>2, <3>4, <3>5 DEF IInv, Data
  <2> QED BY <2>1, <2>4, <2>5
<1>7. CASE ServePreviewless(k)
  <2>1. Answered(k) /\ UNCHANGED <<tabVars, current, thread, stopped, sessions, viewVars>>
    BY <1>7 DEF ServePreviewless, sessionVars
  <2>2. Work'
    BY <1>1, <2>1, AnsweredWork
  <2> QED BY <1>2, <1>3, <2>1, <2>2 DEF IInv
<1>8. CASE ServeInSession(k)
  <2>1. sessions[k] # None /\ UNCHANGED <<thread, stopped, sessions>>
    BY <1>8 DEF ServeInSession
  <2>2. CASE ~OpensTab(k)
    BY <1>1, <1>8, <2>1, <2>2, PerformKeeps DEF ServeInSession
  <2>3. CASE CanCreate(sessions[k]) /\ CreateTab(k, sessions[k], FALSE) /\ UNCHANGED queues /\ UNCHANGED viewVars
    BY <1>4, <2>1, <2>3
  <2>4. CASE Fails(k, FALSE) /\ UNCHANGED <<tabVars, current>> /\ UNCHANGED viewVars
    <3>1. Work'
      BY <1>1, <2>1, <2>4, FailsWork
    <3> QED BY <1>2, <1>3, <2>1, <2>4, <3>1 DEF IInv
  <2> QED BY <1>8, <2>2, <2>3, <2>4 DEF ServeInSession
<1> QED BY <1>5, <1>6, <1>7, <1>8 DEF ServeOperation

------------------------------------------------------------------------------
(* The other steps.                                                         *)
\* Only the queues and what runs may change.
LEMMA QueueKeeps ==
    ASSUME IInv, Work', UNCHANGED <<tabVars, sessionVars, activeKey, disposed>>,
           attached' = attached, children' \subseteq children
    PROVE  IInv'
<1>1. Data /\ DataTypes /\ current' \in [Sessions -> Tabs \cup {None}]
  BY DEF IInv, Data, DataTypes, sessionVars
<1>2. Data'
  BY <1>1, SelectKeepsData DEF sessionVars
<1>3. ViewTypes'
  BY DEF IInv, ViewTypes
<1> QED BY <1>2, <1>3 DEF IInv

\* Only what the window shows may change.
LEMMA ViewKeeps ==
    ASSUME IInv, ViewTypes', UNCHANGED <<tabVars, sessionVars, queues, running, disposed, asked>>
    PROVE  IInv'
<1>1. Data /\ DataTypes /\ current' \in [Sessions -> Tabs \cup {None}]
  BY DEF IInv, Data, DataTypes, sessionVars
<1>2. Data'
  BY <1>1, SelectKeepsData DEF sessionVars
<1>3. Work'
  BY DEF IInv, Work, QueueTypes, WorkAgrees, sessionVars
<1> QED BY <1>2, <1>3 DEF IInv

\* Another operation of the thread, or a popup of one of its pages.
LEMMA AppendWork ==
    ASSUME Work, NEW k \in Keys, NEW op \in AllOperations \cup {"popup"}, asked' = asked + 1,
           queues' = [queues EXCEPT ![k] = Append(@, op)], UNCHANGED <<running, sessions>>
    PROVE  Work'
<1>1. Append(queues[k], op) \in Seq(AllOperations \cup {"popup"}) /\ Append(queues[k], op) # <<>>
  BY DEF Work, QueueTypes
<1>2. QueueTypes'
  BY <1>1 DEF Work, QueueTypes
<1>3. WorkAgrees'
  BY <1>1 DEF Work, QueueTypes, WorkAgrees
<1> QED BY <1>2, <1>3 DEF Work

LEMMA RequestKeeps ==
    ASSUME IInv, NEW k \in Keys, NEW op \in AllOperations, Request(k, op)
    PROVE  IInv'
<1> DEFINE those == IF op = "stop" THEN {sessions[k]} \ {None} ELSE {}
<1>1. /\ Stop(those) /\ children' = children \ TabsOfAll(those)
      /\ asked' = asked + 1 /\ queues' = [queues EXCEPT ![k] = Append(@, op)]
      /\ UNCHANGED <<thread, sessions, running, activeKey, attached, disposed>>
  BY DEF Request
<1>2. /\ Data /\ Work /\ sessions \in [Keys -> Sessions \cup {None}] /\ disposed \in {"no", "waiting", "done"}
      /\ ViewTypes
  BY DEF IInv, Data, DataTypes
<1>3. those \in SUBSET Sessions /\ \A s \in those : thread[s] # NoKey
  BY <1>2, BrowserSessionsAssumption DEF Data, SessionsAgree
<1> HIDE DEF those
<1>4. Data'
  BY <1>1, <1>2, <1>3, StopKeepsData
<1>5. Work'
  BY <1>1, <1>2, AppendWork
<1>6. ViewTypes'
  BY <1>1, <1>2 DEF ViewTypes
<1> QED BY <1>4, <1>5, <1>6 DEF IInv

LEMMA ServeStopKeeps ==
    ASSUME IInv, NEW k \in Keys, ServeStop(k)
    PROVE  IInv'
<1> DEFINE those == {sessions[k]} \ {None}
           left == children \ TabsOfAll(those)
<1>1. /\ Stop(those) /\ sessions' = [sessions EXCEPT ![k] = None]
      /\ IF activeKey = k THEN Attach(left, None) ELSE children' = left /\ UNCHANGED attached
      /\ Answered(k) /\ queues[k] # <<>>
      /\ UNCHANGED <<thread, activeKey, disposed, asked>>
  BY DEF ServeStop, AtHead, Idles
<1>2. /\ Data /\ Work /\ sessions \in [Keys -> Sessions \cup {None}] /\ disposed \in {"no", "waiting", "done"}
      /\ ViewTypes
  BY DEF IInv, Data, DataTypes
<1>3. /\ those \in SUBSET Sessions /\ \A s \in those : thread[s] # NoKey
      /\ sessions[k] \in those \cup {None} /\ left \in SUBSET Tabs
  BY <1>2, BrowserSessionsAssumption DEF Data, SessionsAgree, ViewTypes
<1> HIDE DEF those
<1>4. Data'
  <2>1. /\ sessions' \in [Keys -> Sessions \cup {None}]
        /\ \A l \in Keys : sessions'[l] = sessions[l] \/ (sessions'[l] = None /\ sessions[l] \in those \cup {None})
    BY <1>1, <1>2, <1>3
  <2> QED BY <1>1, <1>2, <1>3, <2>1, StopKeepsData
<1>5. Work'
  BY <1>1, <1>2, AnsweredWork
<1>6. ViewTypes'
  <2>1. activeKey' \in Keys \cup {NoKey}
    BY <1>1, <1>2 DEF ViewTypes
  <2>2. CASE activeKey = k
    BY <1>1, <1>2, <1>3, <2>1, <2>2, AttachTypes
  <2>3. CASE activeKey # k
    BY <1>1, <1>2, <1>3, <2>3 DEF ViewTypes
  <2> QED BY <2>2, <2>3
<1> QED BY <1>4, <1>5, <1>6 DEF IInv

LEMMA LoadEndsKeeps ==
    ASSUME IInv, NEW k \in Keys, LoadEnds(k)
    PROVE  IInv'
<1>1. /\ Data /\ DataTypes /\ Work /\ ViewTypes /\ children \in SUBSET Tabs
      /\ UNCHANGED <<thread, stopped, sessions, activeKey, disposed, asked>>
      /\ queues[k] # <<>> /\ sessions[k] # None /\ running[k].created \in BOOLEAN
  BY DEF IInv, Data, Work, QueueTypes, ViewTypes, WorkAgrees, LoadEnds
<1>2. CASE UNCHANGED <<tabVars, current>> /\ Changed(k, children) /\ Answered(k)
  <2>1. current' \in [Sessions -> Tabs \cup {None}]
    BY <1>1, <1>2 DEF DataTypes
  <2>2. Data' /\ DataTypes'
    BY <1>1, <1>2, <2>1, SelectKeepsData DEF Data
  <2>3. ViewTypes'
    BY <1>1, <1>2, <2>2, ChangedTypes
  <2>4. Work'
    BY <1>1, <1>2, AnsweredWork
  <2> QED BY <2>2, <2>3, <2>4 DEF IInv
<1>3. CASE Perform(k, running[k].created, TRUE)
  BY <1>1, <1>3, PerformKeeps
<1> QED BY <1>2, <1>3 DEF LoadEnds

LEMMA LoadFailsKeeps ==
    ASSUME IInv, NEW k \in Keys, LoadFails(k)
    PROVE  IInv'
<1> DEFINE tabs == {running[k].tab} \cap listed
<1>1. /\ Destroy(tabs) /\ children' = children \ tabs /\ Fails(k, running[k].created)
      /\ UNCHANGED <<thread, stopped, sessions, attached, activeKey, disposed, asked>>
  BY DEF LoadFails
<1>2. /\ Data /\ Work /\ ViewTypes /\ queues[k] # <<>> /\ sessions[k] # None
      /\ running[k].created \in BOOLEAN /\ tabs \in SUBSET Tabs
  BY DEF IInv, Data, DataTypes, Work, QueueTypes, WorkAgrees, LoadFails
<1>3. disposed' # "no" => listed \ tabs = {}
  BY <1>1, <1>2 DEF Data, PagesAgree
<1> HIDE DEF tabs
<1>4. Data'
  <2>1. TabsOfAll({}) = {}
    BY DEF TabsOfAll
  <2>2. stopped' = stopped \cup {} /\ sessions' \in [Keys -> Sessions \cup {None}]
        /\ disposed' \in {"no", "waiting", "done"}
    BY <1>1, <1>2 DEF Data, DataTypes
  <2> QED BY <1>1, <1>2, <1>3, <2>1, <2>2, DestroyKeepsData
<1>5. Work'
  BY <1>1, <1>2, FailsWork
<1>6. ViewTypes'
  BY <1>1, <1>2 DEF ViewTypes
<1> QED BY <1>4, <1>5, <1>6 DEF IInv

LEMMA WorkEndsKeeps ==
    ASSUME IInv, NEW k \in Keys, WorkEnds(k)
    PROVE  IInv'
<1>1. /\ UNCHANGED <<tabVars, sessionVars, attached, activeKey, disposed, asked>>
      /\ children' \subseteq children /\ (Answered(k) \/ Fails(k, running[k].created))
      /\ UNCHANGED sessions
  BY DEF WorkEnds, sessionVars
<1>2. Work /\ queues[k] # <<>> /\ sessions[k] # None /\ running[k].created \in BOOLEAN
  BY DEF IInv, Work, QueueTypes, WorkAgrees, WorkEnds
<1>3. Work'
  BY <1>1, <1>2, AnsweredWork, FailsWork
<1> QED BY <1>1, <1>3, QueueKeeps

\* A session is given up only when it has no tab, and then no page either.
LEMMA CleanUpKeeps ==
    ASSUME IInv, NEW k \in Keys, CleanUp(k)
    PROVE  IInv'
<1>1. /\ Data /\ DataTypes /\ Work /\ ViewTypes /\ children \in SUBSET Tabs
      /\ Answered(k) /\ UNCHANGED <<tabVars, thread, activeKey, disposed, asked>>
      /\ queues[k] # <<>> /\ sessions[k] \in Sessions /\ thread[sessions[k]] = k
  BY DEF IInv, Data, DataTypes, SessionsAgree, Work, WorkAgrees, ViewTypes, CleanUp
<1>2. CASE running[k].created /\ TabsOf(sessions[k]) = {}
  <2>1. /\ stopped' = stopped \cup {sessions[k]} /\ current' = [current EXCEPT ![sessions[k]] = None]
        /\ sessions' = [sessions EXCEPT ![k] = None] /\ Changed(k, children)
    BY <1>2 DEF CleanUp
  <2>2. DataTypes'
    BY <1>1, <2>1 DEF DataTypes, tabVars
  <2>3. PagesAgree'
    BY <1>1, <2>1 DEF Data, PagesAgree, tabVars
  <2>4. SessionsAgree'
    BY <1>1, <2>1, BrowserSessionsAssumption DEF Data, DataTypes, SessionsAgree
  <2>5. NoOrphanPage'
    <3> SUFFICES ASSUME NEW u \in Tabs, page'[u] = "open"
                 PROVE  /\ u \in listed' /\ home'[u] \notin stopped'
                        /\ sessions'[thread'[home'[u]]] = home'[u]
      BY DEF NoOrphanPage
    <3>1. UNCHANGED <<page, home, listed>>
      BY <1>1 DEF tabVars
    <3>2. /\ u \in listed /\ home[u] \notin stopped /\ sessions[thread[home[u]]] = home[u]
          /\ home[u] \in Sessions /\ thread[home[u]] \in Keys
      BY <1>1, <3>1 DEF Data, NoOrphanPage, PagesAgree
    <3>3. home[u] # sessions[k]
      BY <1>2, <3>2 DEF TabsOf
    <3> QED BY <1>1, <2>1, <3>1, <3>2, <3>3 DEF DataTypes
  <2>6. ViewTypes'
    BY <1>1, <2>1, <2>2, ChangedTypes
  <2>7. Work'
    BY <1>1, <2>1, AnsweredWork DEF DataTypes
  <2> QED BY <2>2, <2>3, <2>4, <2>5, <2>6, <2>7 DEF IInv, Data
<1>3. CASE ~(running[k].created /\ TabsOf(sessions[k]) = {})
  <2>1. UNCHANGED <<stopped, current, sessions, viewVars>>
    BY <1>3 DEF CleanUp
  <2>2. Work'
    BY <1>1, <2>1, AnsweredWork
  <2>3. /\ UNCHANGED <<tabVars, sessionVars, activeKey, disposed>>
        /\ attached' = attached /\ children' \subseteq children
    BY <1>1, <2>1 DEF viewVars, sessionVars
  <2> QED BY <2>2, <2>3, QueueKeeps
<1> QED BY <1>2, <1>3

LEMMA PageKeeps ==
    ASSUME IInv, NEW t \in Tabs, PageOpensPopup(t) \/ PageChanges(t) \/ PageGone(t)
    PROVE  IInv'
<1>1. /\ Data /\ DataTypes /\ Work /\ ViewTypes /\ children \in SUBSET Tabs
      /\ page[t] # "unmade" /\ thread[home[t]] \in Keys
  BY DEF IInv, Data, PagesAgree, ViewTypes, PageOpensPopup, PageChanges, PageGone
<1>2. CASE PageOpensPopup(t)
  <2>1. /\ UNCHANGED <<tabVars, sessionVars, running, activeKey, viewVars, disposed>>
        /\ asked' = asked + 1 /\ UNCHANGED sessions
        /\ queues' = [queues EXCEPT ![thread[home[t]]] = Append(@, "popup")]
    BY <1>2 DEF PageOpensPopup, sessionVars
  <2>2. Work'
    BY <1>1, <2>1, AppendWork
  <2>3. attached' = attached /\ children' \subseteq children
    BY <2>1 DEF viewVars
  <2> QED BY <2>1, <2>2, <2>3, QueueKeeps
<1>3. CASE PageChanges(t)
  <2>1. /\ UNCHANGED <<tabVars, sessionVars, queues, running, activeKey, disposed, asked>>
        /\ Changed(thread[home[t]], children)
    BY <1>3 DEF PageChanges
  <2>2. DataTypes'
    BY <1>1, <2>1 DEF DataTypes, tabVars, sessionVars
  <2>3. ViewTypes'
    BY <1>1, <2>1, <2>2, ChangedTypes
  <2> QED BY <2>1, <2>3, ViewKeeps
<1>4. CASE PageGone(t)
  <2>1. UNCHANGED <<sessions, queues, running, activeKey, asked>> /\ Changed(thread[home[t]], children)
    BY <1>4 DEF PageGone, Gone
  <2>2. Data' /\ DataTypes'
    BY <1>1, <1>4, GoneKeepsData DEF Data
  <2>3. Work'
    BY <1>1, <2>1 DEF Work, QueueTypes, WorkAgrees
  <2>4. ViewTypes'
    BY <1>1, <2>1, <2>2, ChangedTypes
  <2> QED BY <2>2, <2>3, <2>4 DEF IInv
<1> QED BY <1>2, <1>3, <1>4

LEMMA DisposeKeeps ==
    ASSUME IInv, Dispose \/ Disposed
    PROVE  IInv'
<1>1. Data /\ DataTypes /\ Work /\ ViewTypes
  BY DEF IInv, Data
<1>2. CASE Dispose
  <2> DEFINE those == {sessions[k] : k \in Keys} \ {None}
  <2>1. /\ disposed' = "waiting" /\ activeKey' = NoKey
        /\ Attach(children \ TabsOfAll(those), None) /\ Stop(those)
        /\ UNCHANGED <<thread, sessions, queues, running, asked>>
    BY <1>2 DEF Dispose
  <2>2. those \in SUBSET Sessions /\ \A s \in those : thread[s] # NoKey
    BY <1>1, BrowserSessionsAssumption DEF Data, DataTypes, SessionsAgree
  <2>3. listed \subseteq TabsOfAll(those)
    <3> SUFFICES ASSUME NEW t \in listed PROVE t \in TabsOfAll(those)
      OBVIOUS
    <3>1. t \in Tabs /\ page[t] = "open"
      BY <1>1 DEF Data, PagesAgree
    <3>2. home[t] \in Sessions /\ thread[home[t]] \in Keys /\ sessions[thread[home[t]]] = home[t]
      BY <1>1, <3>1 DEF Data, PagesAgree, NoOrphanPage
    <3>3. home[t] \in those
      BY <3>2, NoneIsNeither
    <3> QED BY <3>3 DEF TabsOfAll
  <2> HIDE DEF those
  <2>4. Data'
    BY <1>1, <2>1, <2>2, <2>3, StopKeepsData DEF DataTypes
  <2>5. Work'
    BY <1>1, <2>1 DEF Work, QueueTypes, WorkAgrees
  <2>6. children \ TabsOfAll(those) \in SUBSET Tabs /\ None \in Tabs \cup {None}
    BY <1>1 DEF ViewTypes
  <2>7. ViewTypes'
    BY <1>1, <2>1, <2>6, AttachTypes
  <2> QED BY <2>4, <2>5, <2>7 DEF IInv
<1>3. CASE Disposed
  <2>1. /\ disposed = "waiting" /\ \A k \in Keys : queues[k] = <<>>
        /\ disposed' = "done" /\ sessions' = [k \in Keys |-> None]
        /\ UNCHANGED <<tabVars, thread, stopped, current, queues, running, activeKey, viewVars, asked>>
    BY <1>3 DEF Disposed
  <2>2. listed = {} /\ \A t \in Tabs : page[t] # "open"
    BY <1>1, <2>1 DEF Data, PagesAgree
  <2>3. DataTypes' /\ PagesAgree' /\ SessionsAgree'
    BY <1>1, <2>1 DEF Data, DataTypes, PagesAgree, SessionsAgree, tabVars
  <2>4. NoOrphanPage'
    BY <2>1, <2>2 DEF NoOrphanPage, tabVars
  <2>5. Work' /\ ViewTypes'
    BY <1>1, <2>1 DEF Work, QueueTypes, WorkAgrees, ViewTypes, viewVars
  <2> QED BY <2>3, <2>4, <2>5 DEF IInv, Data
<1> QED BY <1>2, <1>3

------------------------------------------------------------------------------
LEMMA InvInit == ASSUME Init PROVE IInv
<1>1. /\ Idle \in [pc : Awaits, created : BOOLEAN, tab : Tabs \cup {None}] /\ Idle.pc = "idle"
      /\ None \in Nat
  BY DEF Idle, Awaits, None
<1>2. DataTypes
  BY DEF Init, DataTypes
<1>3. PagesAgree /\ SessionsAgree /\ NoOrphanPage
  BY DEF Init, PagesAgree, SessionsAgree, NoOrphanPage
<1>4. Work
  BY <1>1 DEF Init, Work, QueueTypes, WorkAgrees
<1>5. ViewTypes
  BY DEF Init, ViewTypes
<1> QED BY <1>2, <1>3, <1>4, <1>5 DEF IInv, Data

LEMMA InvNext == ASSUME IInv, [Next]_vars PROVE IInv'
<1>1. Data /\ DataTypes /\ Work /\ ViewTypes /\ children \in SUBSET Tabs /\ None \in Tabs \cup {None}
  BY DEF IInv, Data, ViewTypes
<1>2. ASSUME NEW k \in Keys, Show(k) PROVE IInv'
  <2>1. /\ activeKey' = k /\ Attach(children, Selected(k))
        /\ UNCHANGED <<tabVars, sessionVars, queues, running, disposed, asked>>
    BY <1>2 DEF Show
  <2>2. Selected(k) \in Tabs \cup {None}
    BY <1>1, SelectedIn
  <2>3. ViewTypes'
    BY <1>1, <2>1, <2>2, AttachTypes
  <2> QED BY <2>1, <2>3, ViewKeeps
<1>3. CASE Hide
  <2>1. /\ activeKey' = NoKey /\ Attach(children, None)
        /\ UNCHANGED <<tabVars, sessionVars, queues, running, disposed, asked>>
    BY <1>3 DEF Hide
  <2>2. ViewTypes'
    BY <1>1, <2>1, AttachTypes
  <2> QED BY <2>1, <2>2, ViewKeeps
<1>4. ASSUME NEW k \in Keys, Refuse(k) PROVE IInv'
  <2>1. /\ Answered(k) /\ queues[k] # <<>> /\ attached' = attached /\ children' \subseteq children
        /\ UNCHANGED <<tabVars, sessionVars, activeKey, disposed, asked>> /\ UNCHANGED sessions
    BY <1>4 DEF Refuse, Idles, viewVars, sessionVars
  <2>2. Work'
    BY <1>1, <2>1, AnsweredWork
  <2> QED BY <2>1, <2>2, QueueKeeps
<1>5. ASSUME NEW k \in Keys, NEW op \in Asks[k], Request(k, op) PROVE IInv'
  <2>1. op \in AllOperations
    BY BrowserSessionsAssumption
  <2> QED BY <1>5, <2>1, RequestKeeps
<1>6. CASE UNCHANGED vars
  <2>1. /\ UNCHANGED <<tabVars, sessionVars, activeKey, disposed>>
        /\ attached' = attached /\ children' \subseteq children
    BY <1>6 DEF vars, viewVars
  <2>2. Work'
    BY <1>1, <1>6 DEF vars, sessionVars, Work, QueueTypes, WorkAgrees
  <2> QED BY <2>1, <2>2, QueueKeeps
<1> QED BY <1>2, <1>3, <1>4, <1>5, <1>6, ServeStopKeeps, OperationKeeps, LoadEndsKeeps,
           LoadFailsKeeps,
           WorkEndsKeeps, CleanUpKeeps, PageKeeps, DisposeKeeps DEF Next

LEMMA InvHolds == Spec => []IInv
BY InvInit, InvNext, PTL DEF Spec

(* Type correctness of the sessions, the queues and the window.             *)
THEOREM TypeCorrect == Spec => []TypeOK
<1>1. IInv => TypeOK
  BY DEF IInv, Data, DataTypes, Work, QueueTypes, ViewTypes, TypeOK
<1> QED BY <1>1, InvHolds, PTL

(* Every page that lives belongs to a session that a stop and the dispose   *)
(* still find, whatever was stopped, closed or failed before (createTab,    *)
(* stop, onPopup and the catch of perform).                                 *)
THEOREM NoOrphans == Spec => []NoOrphanPage
<1>1. IInv => NoOrphanPage
  BY DEF IInv, Data
<1> QED BY <1>1, InvHolds, PTL

------------------------------------------------------------------------------
(* What is in the window.                                                   *)
Rendering(t) == \E k \in Keys : running[k].pc = "work" /\ Turn(k) = "render" /\ running[k].tab = t

\* A step of the window leaves some of the guests, and the tab it attaches.
Shows(guests) == \A t \in children' : t = attached' \/ (t \in guests /\ t # attached)

LEMMA AttachShows == ASSUME NEW guests, NEW tab, Attach(guests, tab) PROVE Shows(guests)
BY DEF Attach, Shows

LEMMA KeepsShows ==
    ASSUME NEW guests, children' \subseteq guests, attached' = attached
    PROVE  Shows(guests)
BY DEF Shows

LEMMA ChangedShows == ASSUME NEW k, NEW guests, Changed(k, guests) PROVE Shows(guests)
BY AttachShows, KeepsShows DEF Changed

LEMMA ShowsLess == ASSUME NEW more, NEW guests \in SUBSET more, Shows(guests) PROVE Shows(more)
BY DEF Shows

\* An operation that is at work goes on while another thread's is served.
LEMMA RendersOn ==
    ASSUME NEW k \in Keys, running[k].pc # "work", QueueTypes,
           (running' = [running EXCEPT ![k] = running'[k]] /\ queues' = queues) \/ Answered(k)
    PROVE  \A t : Rendering(t) => Rendering(t)'
<1>1. \A j \in Keys \ {k} : running'[j] = running[j] /\ queues'[j] = queues[j]
  BY DEF QueueTypes, Answered
<1> QED BY <1>1 DEF Rendering, Turn

LEMMA HiddenKept ==
    ASSUME NoHiddenGuest, Shows(children), \A t : Rendering(t) => Rendering(t)'
    PROVE  NoHiddenGuest'
BY DEF NoHiddenGuest, Shows, Rendering

LEMMA SameRenders == ASSUME UNCHANGED <<running, queues>> PROVE \A t : Rendering(t) => Rendering(t)'
BY DEF Rendering, Turn

\* A request waits behind what is at work.
LEMMA AppendRenders ==
    ASSUME Work, NEW k \in Keys, NEW op \in AllOperations \cup {"popup"}, running' = running,
           queues' = [queues EXCEPT ![k] = Append(@, op)]
    PROVE  \A t : Rendering(t) => Rendering(t)'
<1>1. ASSUME NEW j \in Keys, queues[j] # <<>> PROVE Turn(j)' = Turn(j)
  BY <1>1 DEF Work, QueueTypes, Turn
<1>2. \A j \in Keys : running[j].pc = "work" => queues[j] # <<>>
  BY DEF Work, WorkAgrees
<1> QED BY <1>1, <1>2 DEF Rendering

LEMMA PerformHides ==
    ASSUME IInv, NoHiddenGuest, NEW k \in Keys, NEW created, NEW loaded, Perform(k, created, loaded),
           running[k].pc # "work"
    PROVE  NoHiddenGuest'
<1> DEFINE shown == IF Turn(k) = "render" THEN {Selected(k)} ELSE {}
<1>1. QueueTypes /\ children \subseteq Tabs
  BY DEF IInv, Work, ViewTypes
<1>2. CASE /\ running' = [running EXCEPT ![k] = [pc |-> "work", created |-> created, tab |-> Selected(k)]]
           /\ queues' = queues /\ Shows(children \cup shown)
  <2>1. running' = [running EXCEPT ![k] = running'[k]]
    BY <1>1, <1>2 DEF QueueTypes
  <2>2. \A t : Rendering(t) => Rendering(t)'
    BY <1>1, <1>2, <2>1, RendersOn
  <2>3. \A t \in shown : Rendering(t)'
    BY <1>1, <1>2 DEF QueueTypes, Rendering, Turn
  <2> QED BY <1>2, <2>2, <2>3 DEF NoHiddenGuest, Shows, Rendering
<1>3. CASE Answered(k) /\ Shows(children)
  BY <1>1, <1>3, RendersOn, HiddenKept
<1>4. CASE Fails(k, created) /\ Shows(children)
  <2>1. running' = [running EXCEPT ![k] = running'[k]] /\ queues' = queues
    BY <1>1, <1>4 DEF Fails, QueueTypes
  <2> QED BY <1>1, <1>4, <2>1, RendersOn, HiddenKept
<1>5. \A t : children \ {t} \in SUBSET children
  OBVIOUS
<1>6. \/ /\ running' = [running EXCEPT ![k] = [pc |-> "work", created |-> created, tab |-> Selected(k)]]
         /\ queues' = queues /\ Shows(children \cup shown)
      \/ Answered(k) /\ Shows(children)
      \/ Fails(k, created) /\ Shows(children)
  BY <1>5, ChangedShows, KeepsShows, ShowsLess DEF Perform
<1> QED BY <1>2, <1>3, <1>4, <1>6

\* A tab that loads is not rendered yet.
LEMMA CreateRenders ==
    ASSUME QueueTypes, NEW k \in Keys, running[k].pc # "work",
           ((\E s \in Sessions, created \in BOOLEAN : CreateTab(k, s, created)) /\ UNCHANGED queues)
           \/ (\E created \in BOOLEAN : Fails(k, created)) \/ Answered(k)
    PROVE  \A t : Rendering(t) => Rendering(t)'
<1>1. CASE Answered(k)
  BY <1>1, RendersOn
<1>2. CASE (\E s \in Sessions, created \in BOOLEAN : CreateTab(k, s, created)) /\ UNCHANGED queues
  <2>1. running' = [running EXCEPT ![k] = running'[k]] /\ queues' = queues
    BY <1>2 DEF CreateTab, QueueTypes
  <2> QED BY <2>1, RendersOn
<1>3. CASE \E created \in BOOLEAN : Fails(k, created)
  <2>1. running' = [running EXCEPT ![k] = running'[k]] /\ queues' = queues
    BY <1>3 DEF Fails, QueueTypes
  <2> QED BY <2>1, RendersOn
<1> QED BY <1>1, <1>2, <1>3

LEMMA HiddenNext == ASSUME IInv, NoHiddenGuest, [Next]_vars PROVE NoHiddenGuest'
<1>1. /\ QueueTypes /\ Work /\ DataTypes /\ children \subseteq Tabs
      /\ \A guests : children \ guests \in SUBSET children
  BY DEF IInv, Work, Data, ViewTypes
<1>2. CASE UNCHANGED vars
  BY <1>2 DEF vars, viewVars, NoHiddenGuest, Turn
<1>3. ASSUME NEW k \in Keys, Show(k) PROVE NoHiddenGuest'
  BY <1>3, AttachShows, SameRenders, HiddenKept DEF Show
<1>4. CASE Hide
  BY <1>4, AttachShows, SameRenders, HiddenKept DEF Hide
<1>5. ASSUME NEW k \in Keys, NEW op \in Asks[k], Request(k, op) PROVE NoHiddenGuest'
  <2>1. op \in AllOperations \cup {"popup"}
    BY BrowserSessionsAssumption
  <2>2. Shows(children)
    BY <1>1, <1>5, KeepsShows DEF Request
  <2> QED BY <1>1, <1>5, <2>1, <2>2, AppendRenders, HiddenKept DEF Request
<1>6. ASSUME NEW k \in Keys, Refuse(k) PROVE NoHiddenGuest'
  <2>1. Shows(children)
    BY <1>6, KeepsShows DEF Refuse, viewVars
  <2> QED BY <1>1, <1>6, <2>1, CreateRenders, HiddenKept DEF Refuse, Idles
<1>7. ASSUME NEW k \in Keys, ServeStop(k) PROVE NoHiddenGuest'
  <2>1. Shows(children)
    BY <1>1, <1>7, AttachShows, KeepsShows, ShowsLess DEF ServeStop
  <2> QED BY <1>1, <1>7, <2>1, CreateRenders, HiddenKept DEF ServeStop, AtHead, Idles
<1>8. ASSUME NEW k \in Keys, ServePopup(k) PROVE NoHiddenGuest'
  <2>1. Shows(children)
    BY <1>8, KeepsShows DEF ServePopup, viewVars
  <2>2. running[k].pc # "work" /\ sessions[k] \in Sessions \cup {None}
    BY <1>1, <1>8 DEF ServePopup, AtHead, Idles, DataTypes
  <2> QED BY <1>1, <1>8, <2>1, <2>2, CreateRenders, HiddenKept DEF ServePopup
<1>9. ASSUME NEW k \in Keys, ServeOperation(k) PROVE NoHiddenGuest'
  <2>1. running[k].pc # "work"
    BY <1>9 DEF ServeOperation, AtHead, Idles
  <2>2. CASE MakeSession(k) \/ ServePreviewless(k)
    <3>1. Shows(children)
      BY <2>2, KeepsShows DEF MakeSession, ServePreviewless, viewVars
    <3> QED BY <1>1, <2>1, <2>2, <3>1, CreateRenders, HiddenKept DEF MakeSession, ServePreviewless
  <2>3. CASE ServeInSession(k)
    <3>1. CASE Perform(k, FALSE, FALSE)
      BY <2>1, <3>1, PerformHides
    <3>2. CASE ~Perform(k, FALSE, FALSE)
      <4>1. Shows(children)
        BY <2>3, <3>2, KeepsShows DEF ServeInSession, viewVars
      <4>2. sessions[k] \in Sessions
        BY <1>1, <2>3 DEF ServeInSession, DataTypes
      <4> QED BY <1>1, <2>1, <2>3, <3>2, <4>1, <4>2, CreateRenders, HiddenKept DEF ServeInSession
    <3> QED BY <3>1, <3>2
  <2> QED BY <1>9, <2>2, <2>3 DEF ServeOperation
<1>10. ASSUME NEW k \in Keys, LoadEnds(k) PROVE NoHiddenGuest'
  <2>1. running[k].pc # "work"
    BY <1>10 DEF LoadEnds
  <2>2. CASE Changed(k, children) /\ Answered(k)
    BY <1>1, <2>1, <2>2, ChangedShows, CreateRenders, HiddenKept
  <2>3. CASE Perform(k, running[k].created, TRUE)
    BY <2>1, <2>3, PerformHides
  <2> QED BY <1>10, <2>2, <2>3 DEF LoadEnds
<1>11. ASSUME NEW k \in Keys, LoadFails(k) PROVE NoHiddenGuest'
  <2>1. Shows(children)
    BY <1>1, <1>11, KeepsShows DEF LoadFails
  <2>2. running[k].pc # "work" /\ running[k].created \in BOOLEAN
    BY <1>1, <1>11 DEF LoadFails, QueueTypes
  <2> QED BY <1>1, <1>11, <2>1, <2>2, CreateRenders, HiddenKept DEF LoadFails
<1>12. ASSUME NEW k \in Keys, WorkEnds(k) PROVE NoHiddenGuest'
  <2>1. /\ running[k].pc = "work" /\ children' = children \ Releases(k) /\ attached' = attached
        /\ \A j \in Keys \ {k} : running'[j] = running[j] /\ queues'[j] = queues[j]
    BY <1>1, <1>12 DEF WorkEnds, Answered, Fails, QueueTypes
  <2> QED BY <2>1 DEF NoHiddenGuest, Releases, Turn
<1>13. ASSUME NEW k \in Keys, CleanUp(k) PROVE NoHiddenGuest'
  <2>1. Shows(children)
    BY <1>13, ChangedShows, KeepsShows DEF CleanUp, viewVars
  <2> QED BY <1>1, <1>13, <2>1, CreateRenders, HiddenKept DEF CleanUp
<1>14. ASSUME NEW t \in Tabs, PageOpensPopup(t) PROVE NoHiddenGuest'
  <2>1. thread[home[t]] \in Keys
    BY <1>14 DEF PageOpensPopup, IInv, Data, PagesAgree
  <2>2. Shows(children)
    BY <1>14, KeepsShows DEF PageOpensPopup, viewVars
  <2> QED BY <1>1, <1>14, <2>1, <2>2, AppendRenders, HiddenKept DEF PageOpensPopup
<1>15. ASSUME NEW t \in Tabs, PageChanges(t) \/ PageGone(t) PROVE NoHiddenGuest'
  BY <1>15, ChangedShows, SameRenders, HiddenKept DEF PageChanges, PageGone, Gone
<1>16. CASE Dispose
  <2>1. UNCHANGED <<running, queues>> /\ \E guests : Attach(children \ guests, None)
    BY <1>16 DEF Dispose
  <2>2. Shows(children)
    BY <1>1, <2>1, AttachShows, ShowsLess
  <2> QED BY <2>1, <2>2, SameRenders, HiddenKept
<1>17. CASE Disposed
  BY <1>17, KeepsShows, SameRenders, HiddenKept DEF Disposed, viewVars
<1> QED BY <1>2, <1>3, <1>4, <1>5, <1>6, <1>7, <1>8, <1>9, <1>10, <1>11, <1>12, <1>13, <1>14, <1>15,
           <1>16, <1>17 DEF Next

(* A guest that is not on display is in the window only while an operation  *)
(* of its thread renders it, whatever is hidden, switched, closed, stopped  *)
(* or disposed meanwhile (withRenderableTab, attachSelectedView).           *)
THEOREM NobodyHides == Spec => []NoHiddenGuest
<1>1. Init => NoHiddenGuest
  BY DEF Init, NoHiddenGuest
<1>2. IInv /\ NoHiddenGuest /\ [Next]_vars => NoHiddenGuest'
  BY HiddenNext
<1> QED BY <1>1, <1>2, InvHolds, PTL DEF Spec

------------------------------------------------------------------------------
(* What the window shows.                                                   *)

\* A session has selected one of its tabs, if any.
SelectionAgrees == \A s \in Sessions : current[s] # None => current[s] \in TabsOf(s)

\* Why the window may not show a thread's selected tab: it loads, or a destroyed event is due.
Loads(k) == /\ running[k].pc = "load" /\ running[k].tab \in Tabs
            /\ page[running[k].tab] = "open" /\ home[running[k].tab] = sessions[k]
Closes(k) == \E t \in Tabs : page[t] = "closed" /\ thread[home[t]] = k
Follows(k) == Loads(k) \/ Closes(k) \/ attached = Selected(k)
StillFollows(k) == Follows(k)'
SameSelected(k) == Selected(k)' = Selected(k)
WindowAgrees ==
    /\ activeKey = NoKey => attached = None
    /\ activeKey # NoKey => Follows(activeKey)

FollowInv == IInv /\ SelectionAgrees /\ WindowAgrees

LEMMA DestroySelects ==
    ASSUME DataTypes, SelectionAgrees, NEW tabs \in SUBSET Tabs, Destroy(tabs)
    PROVE  SelectionAgrees'
<1> SUFFICES ASSUME NEW s \in Sessions, current'[s] # None PROVE current'[s] \in TabsOf(s)'
  BY DEF SelectionAgrees
<1>1. TabsOf(s)' = TabsOf(s) \ tabs
  BY DEF Destroy, TabsOf
<1>2. TabsOf(s) \ tabs \in SUBSET Tabs
  BY TabsOfIn
<1>3. current'[s] = IF current[s] \in tabs THEN FirstOf(TabsOf(s) \ tabs) ELSE current[s]
  BY DEF Destroy
<1> QED BY <1>1, <1>2, <1>3, FirstOfIn DEF SelectionAgrees

LEMMA GoneSelects ==
    ASSUME DataTypes, SelectionAgrees, NEW t \in Tabs, PageGone(t)
    PROVE  SelectionAgrees'
<1> SUFFICES ASSUME NEW s \in Sessions, current'[s] # None PROVE current'[s] \in TabsOf(s)'
  BY DEF SelectionAgrees
<1>1. TabsOf(s)' = TabsOf(s) \ {t}
  BY DEF PageGone, TabsOf
<1>2. TabsOf(s) \ {t} \in SUBSET Tabs
  BY TabsOfIn
<1>3. current'[s] = IF current[s] = t THEN FirstOf(TabsOf(s) \ {t}) ELSE current[s]
  BY DEF PageGone
<1> QED BY <1>1, <1>2, <1>3, FirstOfIn DEF SelectionAgrees

LEMMA CreateSelects ==
    ASSUME Data, SelectionAgrees, NEW k, NEW s \in Sessions, NEW created, CreateTab(k, s, created)
    PROVE  SelectionAgrees'
<1>1. PICK t \in Tabs : /\ page[t] = "unmade" /\ home' = [home EXCEPT ![t] = s]
                        /\ listed' = listed \cup {t} /\ current' = [current EXCEPT ![s] = t]
  BY DEF CreateTab
<1>2. t \notin listed
  BY <1>1 DEF Data, PagesAgree
<1> QED BY <1>1, <1>2 DEF SelectionAgrees, TabsOf, Data, DataTypes

LEMMA SameSelects ==
    ASSUME DataTypes, SelectionAgrees, UNCHANGED tabVars,
           \A s \in Sessions : current'[s] = current[s] \/ current'[s] = None \/ current'[s] \in TabsOf(s)
    PROVE  SelectionAgrees'
BY DEF SelectionAgrees, TabsOf, tabVars

\* Tabs are closed: whoever showed or loads one of them waits for its destroyed event.
LEMMA DestroyFollows ==
    ASSUME Data, SelectionAgrees, NEW k \in Keys, Follows(k), NEW tabs \in SUBSET listed, Destroy(tabs),
           UNCHANGED <<thread, attached>>, sessions'[k] = sessions[k],
           Loads(k) => running'[k] = running[k] \/ running[k].tab \in tabs
    PROVE  StillFollows(k)
<1> SUFFICES Follows(k)'
  BY DEF StillFollows
<1>1. /\ tabs \in SUBSET Tabs /\ home' = home /\ sessions[k] \in Sessions \cup {None}
      /\ \A t \in Tabs : page'[t] = IF t \in tabs THEN "closed" ELSE page[t]
  BY DestroyTypes DEF Data, DataTypes, PagesAgree
<1>2. \A t \in tabs : home[t] = sessions[k] => Closes(k)'
  BY <1>1, NoneIsNeither DEF Closes, Data, PagesAgree, SessionsAgree
<1>3. CASE Loads(k)
  <2>1. CASE running[k].tab \in tabs
    BY <1>2, <1>3, <2>1 DEF Follows, Loads
  <2>2. CASE running[k].tab \notin tabs
    BY <1>1, <1>3, <2>2 DEF Follows, Loads
  <2> QED BY <2>1, <2>2
<1>4. CASE Closes(k)
  BY <1>1, <1>4 DEF Follows, Closes
<1>5. CASE attached = Selected(k)
  <2>1. CASE sessions[k] = None
    BY <1>5, <2>1 DEF Follows, Selected
  <2>2. CASE sessions[k] # None /\ current[sessions[k]] \in tabs
    <3>1. current[sessions[k]] \in TabsOf(sessions[k])
      BY <1>1, <2>2, NoneIsNeither DEF SelectionAgrees
    <3> QED BY <1>2, <2>2, <3>1 DEF Follows, TabsOf
  <2>3. CASE sessions[k] # None /\ current[sessions[k]] \notin tabs
    <3>1. current'[sessions[k]] = current[sessions[k]]
      BY <1>1, <2>3 DEF Destroy
    <3> QED BY <1>5, <2>3, <3>1 DEF Follows, Selected
  <2> QED BY <2>1, <2>2, <2>3
<1> QED BY <1>3, <1>4, <1>5 DEF Follows

\* A tab is made for another thread, or for this one, which then loads it.
LEMMA CreateFollows ==
    ASSUME Data, QueueTypes, NEW j \in Keys, Follows(j), NEW k \in Keys, NEW s \in Sessions, NEW created \in BOOLEAN,
           CreateTab(k, s, created), UNCHANGED attached,
           \A r \in Sessions : thread[r] \in Keys => thread'[r] = thread[r],
           sessions'[k] = s, j # k => sessions'[j] = sessions[j] /\ sessions[j] # s
    PROVE  StillFollows(j)
<1> SUFFICES Follows(j)'
  BY DEF StillFollows
<1>1. PICK t \in Tabs :
        /\ page[t] = "unmade" /\ home' = [home EXCEPT ![t] = s] /\ page' = [page EXCEPT ![t] = "open"]
        /\ current' = [current EXCEPT ![s] = t]
        /\ running' = [running EXCEPT ![k] = [pc |-> "load", created |-> created, tab |-> t]]
  BY DEF CreateTab
<1>2. /\ page'[t] = "open" /\ home'[t] = s
      /\ \A u \in Tabs \ {t} : page'[u] = page[u] /\ home'[u] = home[u]
      /\ running'[k] = [pc |-> "load", created |-> created, tab |-> t]
      /\ \A l \in Keys \ {k} : running'[l] = running[l]
      /\ \A r \in Sessions \ {s} : current'[r] = current[r]
  BY <1>1 DEF Data, DataTypes, QueueTypes
<1>3. CASE j = k
  BY <1>2, <1>3 DEF Follows, Loads
<1>4. CASE j # k
  <2>1. Loads(j) => Loads(j)'
    BY <1>1, <1>2, <1>4 DEF Loads
  <2>2. Closes(j) => Closes(j)'
    BY <1>1, <1>2 DEF Closes, Data, PagesAgree
  <2>3. attached = Selected(j) => attached' = Selected(j)'
    BY <1>2, <1>4 DEF Selected, Data, DataTypes
  <2> QED BY <2>1, <2>2, <2>3 DEF Follows
<1> QED BY <1>3, <1>4

LEMMA SameFollows ==
    ASSUME NEW k \in Keys, Data, Follows(k), UNCHANGED <<tabVars, attached>>,
           \A r \in Sessions : thread[r] \in Keys => thread'[r] = thread[r],
           SameSelected(k), Loads(k) => sessions'[k] = sessions[k] /\ running'[k] = running[k]
    PROVE  StillFollows(k)
<1>1. Closes(k) => Closes(k)'
  BY DEF Closes, Data, PagesAgree, tabVars
<1>2. Loads(k) => Loads(k)'
  BY DEF Loads, tabVars
<1> QED BY <1>1, <1>2 DEF Follows, StillFollows, SameSelected

\* The window is told of a change, or of another thread's.
LEMMA ChangedWindow ==
    ASSUME IInv, WindowAgrees, UNCHANGED activeKey, NEW k \in Keys, \E guests : Changed(k, guests),
           attached' = attached => \A j \in Keys \ {k} : Follows(j) => StillFollows(j)
    PROVE  WindowAgrees'
<1>1. k # NoKey /\ activeKey \in Keys \cup {NoKey}
  BY BrowserSessionsAssumption DEF IInv, ViewTypes
<1>2. CASE activeKey = k
  <2>1. attached' = Selected(k)'
    BY <1>2 DEF Changed, Attach
  <2> QED BY <1>1, <1>2, <2>1 DEF WindowAgrees, Follows, Selected
<1>3. CASE activeKey # k
  <2>1. attached' = attached
    BY <1>3 DEF Changed
  <2>2. CASE activeKey = NoKey
    BY <2>1, <2>2 DEF WindowAgrees
  <2>3. ASSUME NEW j \in Keys \ {k}, activeKey = j PROVE WindowAgrees'
    <3>1. Follows(j)'
      BY <1>1, <2>1, <2>3, BrowserSessionsAssumption
         DEF WindowAgrees, Follows, Loads, Closes, Selected, StillFollows
    <3> QED BY <2>3, <3>1, BrowserSessionsAssumption
               DEF WindowAgrees, Follows, Loads, Closes, Selected
  <2> QED BY <1>1, <1>3, <2>2, <2>3
<1> QED BY <1>2, <1>3

LEMMA KeptWindow ==
    ASSUME IInv, WindowAgrees, UNCHANGED <<activeKey, attached>>,
           \A j \in Keys : Follows(j) => StillFollows(j)
    PROVE  WindowAgrees'
<1>1. CASE activeKey = NoKey
  BY <1>1 DEF WindowAgrees
<1>2. ASSUME NEW j \in Keys, activeKey = j PROVE WindowAgrees'
  <2>1. Follows(j)'
    BY <1>2, BrowserSessionsAssumption
       DEF WindowAgrees, Follows, Loads, Closes, Selected, StillFollows
  <2> QED BY <1>2, <2>1, BrowserSessionsAssumption
             DEF WindowAgrees, Follows, Loads, Closes, Selected
<1> QED BY <1>1, <1>2 DEF IInv, ViewTypes

LEMMA InvParts ==
    ASSUME FollowInv
    PROVE  /\ Data /\ DataTypes /\ QueueTypes /\ SelectionAgrees /\ WindowAgrees
           /\ activeKey # NoKey => activeKey \in Keys
           /\ \A k \in Keys : sessions[k] # None => sessions[k] \in Sessions /\ thread[sessions[k]] = k
           /\ \A j, k \in Keys : j # k /\ sessions[j] # None => sessions[j] # sessions[k]
           /\ \A those : TabsOfAll(those) \in SUBSET listed /\ TabsOfAll(those) \in SUBSET Tabs
BY DEF FollowInv, IInv, Data, Work, ViewTypes, DataTypes, SessionsAgree, TabsOfAll

\* No tab is opened or closed.
LEMMA SameWindow ==
    ASSUME FollowInv, NEW k \in Keys, UNCHANGED <<tabVars, activeKey>>,
           \A r \in Sessions : thread[r] \in Keys => thread'[r] = thread[r],
           \A j \in Keys \ {k} : running'[j] = running[j] /\ sessions'[j] = sessions[j] /\ SameSelected(j),
           \/ \E guests : Changed(k, guests)
           \/ attached' = attached /\ SameSelected(k) /\ ~Loads(k)
    PROVE  WindowAgrees'
<1>1. Data /\ WindowAgrees /\ IInv
  BY InvParts DEF FollowInv
<1>2. attached' = attached => \A j \in Keys \ {k} : Follows(j) => StillFollows(j)
  BY <1>1, SameFollows
<1>3. CASE \E guests : Changed(k, guests)
  BY <1>1, <1>2, <1>3, ChangedWindow
<1>4. CASE attached' = attached /\ SameSelected(k) /\ ~Loads(k)
  <2>1. Follows(k) => StillFollows(k)
    BY <1>1, <1>4, SameFollows
  <2> QED BY <1>1, <1>2, <1>4, <2>1, KeptWindow
<1> QED BY <1>3, <1>4

\* Tabs are closed.
LEMMA DestroyWindow ==
    ASSUME FollowInv, NEW k \in Keys, NEW tabs \in SUBSET listed, Destroy(tabs),
           UNCHANGED <<thread, activeKey>>,
           \A j \in Keys \ {k} : running'[j] = running[j] /\ sessions'[j] = sessions[j],
           \/ \E guests : Changed(k, guests)
           \/ /\ attached' = attached /\ sessions'[k] = sessions[k]
              /\ Loads(k) => running'[k] = running[k] \/ running[k].tab \in tabs
    PROVE  WindowAgrees'
<1>1. Data /\ WindowAgrees /\ SelectionAgrees /\ IInv
  BY InvParts DEF FollowInv
<1>2. attached' = attached => \A j \in Keys \ {k} : Follows(j) => StillFollows(j)
  BY <1>1, DestroyFollows
<1>3. CASE \E guests : Changed(k, guests)
  BY <1>1, <1>2, <1>3, ChangedWindow
<1>4. CASE /\ attached' = attached /\ sessions'[k] = sessions[k]
           /\ Loads(k) => running'[k] = running[k] \/ running[k].tab \in tabs
  <2>1. Follows(k) => StillFollows(k)
    BY <1>1, <1>4, DestroyFollows
  <2> QED BY <1>1, <1>2, <1>4, <2>1, KeptWindow
<1> QED BY <1>3, <1>4

\* A tab is opened.
LEMMA CreateWindow ==
    ASSUME FollowInv, NEW k \in Keys, NEW s \in Sessions, NEW created \in BOOLEAN,
           CreateTab(k, s, created), UNCHANGED <<attached, activeKey>>,
           \A r \in Sessions : thread[r] \in Keys => thread'[r] = thread[r],
           sessions'[k] = s, \A j \in Keys \ {k} : sessions'[j] = sessions[j] /\ sessions[j] # s
    PROVE  WindowAgrees'
<1>1. Data /\ QueueTypes /\ WindowAgrees /\ IInv
  BY InvParts DEF FollowInv
<1>2. \A j \in Keys : Follows(j) => StillFollows(j)
  BY <1>1, CreateFollows
<1> QED BY <1>1, <1>2, KeptWindow

LEMMA RunsOnly ==
    ASSUME QueueTypes, NEW k \in Keys,
           \/ Answered(k) \/ \E created : Fails(k, created)
           \/ \E r : running' = [running EXCEPT ![k] = r]
    PROVE  \A j \in Keys \ {k} : running'[j] = running[j]
BY DEF QueueTypes, Answered, Fails

LEMMA PerformFollows ==
    ASSUME FollowInv, NEW k \in Keys, NEW created \in BOOLEAN, NEW loaded \in BOOLEAN,
           sessions[k] # None, Perform(k, created, loaded), loaded \/ running[k].pc = "idle",
           UNCHANGED <<thread, sessions, activeKey>>
    PROVE  SelectionAgrees' /\ WindowAgrees'
<1> DEFINE s == sessions[k]
<1>1. /\ Data /\ DataTypes /\ QueueTypes /\ SelectionAgrees /\ s \in Sessions
      /\ \A j \in Keys : j # k /\ sessions[j] # None => sessions[j] # s
  BY InvParts
<1>2. \A j \in Keys \ {k} : running'[j] = running[j]
  BY <1>1, RunsOnly DEF Perform
<1>3. loaded \/ ~Loads(k)
  BY DEF Loads
<1>4. CASE UNCHANGED <<tabVars, current>>
  <2>1. SelectionAgrees'
    BY <1>1, <1>4, SameSelects
  <2>2. \A j \in Keys : SameSelected(j)
    BY <1>4 DEF SameSelected, Selected
  <2>3. (\E guests : Changed(k, guests)) \/ (attached' = attached /\ ~Loads(k))
    BY <1>3 DEF Perform
  <2> QED BY <1>2, <1>4, <2>1, <2>2, <2>3, SameWindow
<1>5. ASSUME NEW t \in TabsOf(s), current' = [current EXCEPT ![s] = t], UNCHANGED tabVars,
             Changed(k, children)
      PROVE  SelectionAgrees' /\ WindowAgrees'
  <2>1. \A r \in Sessions : current'[r] = current[r] \/ current'[r] \in TabsOf(r)
    BY <1>1, <1>5 DEF DataTypes
  <2>2. SelectionAgrees'
    BY <1>1, <1>5, <2>1, SameSelects
  <2>3. \A j \in Keys \ {k} : SameSelected(j)
    BY <1>1, <1>5 DEF SameSelected, Selected, DataTypes
  <2> QED BY <1>2, <1>5, <2>2, <2>3, SameWindow
<1>6. ASSUME NEW t \in TabsOf(s), Destroy({t}), Changed(k, children \ {t})
      PROVE  SelectionAgrees' /\ WindowAgrees'
  <2>1. {t} \in SUBSET Tabs /\ {t} \in SUBSET listed
    BY <1>1 DEF TabsOf, DataTypes
  <2>2. SelectionAgrees'
    BY <1>1, <1>6, <2>1, DestroySelects
  <2> QED BY <1>2, <1>6, <2>1, <2>2, DestroyWindow
<1> QED BY <1>4, <1>5, <1>6 DEF Perform

LEMMA OperationFollows ==
    ASSUME FollowInv, NEW k \in Keys, ServeOperation(k) \/ ServePopup(k)
    PROVE  SelectionAgrees' /\ WindowAgrees'
<1>1. /\ Data /\ DataTypes /\ QueueTypes /\ SelectionAgrees
      /\ \A j \in Keys : sessions[j] # None => sessions[j] \in Sessions /\ thread[sessions[j]] = j
      /\ \A j \in Keys : j # k /\ sessions[j] # None => sessions[j] # sessions[k]
  BY InvParts
<1>2. running[k].pc = "idle" /\ UNCHANGED activeKey /\ ~Loads(k)
  BY DEF ServeOperation, ServePopup, AtHead, Idles, Loads
<1>3. ASSUME UNCHANGED <<tabVars, current, thread, sessions, attached>>,
             Answered(k) \/ \E created \in BOOLEAN : Fails(k, created)
      PROVE  SelectionAgrees' /\ WindowAgrees'
  <2>1. SelectionAgrees'
    BY <1>1, <1>3, SameSelects
  <2>2. \A j \in Keys : SameSelected(j)
    BY <1>3 DEF SameSelected, Selected
  <2> QED BY <1>1, <1>2, <1>3, <2>1, <2>2, RunsOnly, SameWindow
<1>4. ASSUME sessions[k] # None, CreateTab(k, sessions[k], FALSE), UNCHANGED <<thread, sessions, attached>>
      PROVE  SelectionAgrees' /\ WindowAgrees'
  <2>1. sessions[k] \in Sessions
    BY <1>1, <1>4
  <2>2. \A j \in Keys \ {k} : sessions[j] # sessions[k]
    BY <1>1, <1>4
  <2> QED BY <1>1, <1>2, <1>4, <2>1, <2>2, CreateSelects, CreateWindow
<1>5. CASE ServePopup(k)
  BY <1>3, <1>4, <1>5 DEF ServePopup, viewVars
<1>6. CASE ServeOperation(k) /\ MakeSession(k)
  <2>1. PICK s \in Sessions :
          /\ thread[s] = NoKey /\ thread' = [thread EXCEPT ![s] = k] /\ sessions' = [sessions EXCEPT ![k] = s]
          /\ \/ CreateTab(k, s, TRUE)
             \/ Fails(k, TRUE) /\ UNCHANGED <<tabVars, current>>
    BY <1>6 DEF MakeSession
  <2>2. /\ UNCHANGED attached /\ sessions'[k] = s /\ sessions[k] = None
        /\ \A r \in Sessions : thread[r] \in Keys => thread'[r] = thread[r]
        /\ \A j \in Keys \ {k} : sessions'[j] = sessions[j] /\ sessions[j] # s
    BY <1>1, <1>6, <2>1, BrowserSessionsAssumption, NoneIsNeither
       DEF MakeSession, viewVars, DataTypes
  <2>3. CASE CreateTab(k, s, TRUE)
    BY <1>1, <1>2, <2>2, <2>3, CreateSelects, CreateWindow
  <2>4. CASE Fails(k, TRUE) /\ UNCHANGED <<tabVars, current>>
    <3>1. current[s] = None
      BY <2>1, <1>1, BrowserSessionsAssumption DEF SelectionAgrees, TabsOf, Data, PagesAgree
    <3>2. \A j \in Keys : SameSelected(j)
      BY <2>2, <2>4, <3>1, NoneIsNeither DEF SameSelected, Selected
    <3>3. SelectionAgrees'
      BY <1>1, <2>4, SameSelects
    <3> QED BY <1>1, <1>2, <2>2, <2>4, <3>2, <3>3, RunsOnly, SameWindow
  <2> QED BY <2>1, <2>3, <2>4
<1>7. CASE ServeOperation(k) /\ ServePreviewless(k)
  BY <1>3, <1>7 DEF ServePreviewless, sessionVars, viewVars
<1>8. CASE ServeOperation(k) /\ ServeInSession(k)
  <2>1. sessions[k] # None /\ UNCHANGED <<thread, sessions>>
    BY <1>8 DEF ServeInSession
  <2>2. CASE Perform(k, FALSE, FALSE)
    BY <1>2, <2>1, <2>2, PerformFollows
  <2>3. CASE ~Perform(k, FALSE, FALSE)
    BY <1>3, <1>4, <1>8, <2>1, <2>3 DEF ServeInSession, viewVars
  <2> QED BY <2>2, <2>3
<1> QED BY <1>5, <1>6, <1>7, <1>8 DEF ServeOperation

LEMMA FollowNext == ASSUME FollowInv, [Next]_vars PROVE SelectionAgrees' /\ WindowAgrees'
<1> DEFINE Goal == SelectionAgrees' /\ WindowAgrees'
<1>1. /\ Data /\ DataTypes /\ QueueTypes /\ SelectionAgrees /\ WindowAgrees /\ IInv
      /\ \A j \in Keys : sessions[j] # None => sessions[j] \in Sessions /\ thread[sessions[j]] = j
      /\ \A j, k \in Keys : j # k /\ sessions[j] # None => sessions[j] # sessions[k]
      /\ \A those : TabsOfAll(those) \in SUBSET listed /\ TabsOfAll(those) \in SUBSET Tabs
  BY InvParts DEF FollowInv
<1>2. ASSUME UNCHANGED <<tabVars, current>> PROVE SelectionAgrees'
  BY <1>1, <1>2, SameSelects
<1>3. ASSUME UNCHANGED <<tabVars, sessionVars, running, activeKey, attached>> PROVE Goal
  <2>1. \A j \in Keys : SameSelected(j)
    BY <1>3 DEF SameSelected, Selected, sessionVars
  <2>2. \A j \in Keys : Follows(j) => StillFollows(j)
    BY <1>1, <1>3, <2>1, SameFollows DEF sessionVars
  <2> QED BY <1>1, <1>2, <1>3, <2>2, KeptWindow DEF sessionVars
<1>4. ASSUME NEW k \in Keys, UNCHANGED <<tabVars, current, thread, sessions, activeKey>>,
             \A j \in Keys \ {k} : running'[j] = running[j],
             (\E guests : Changed(k, guests)) \/ (attached' = attached /\ ~Loads(k))
      PROVE  Goal
  <2>1. \A j \in Keys : SameSelected(j)
    BY <1>4 DEF SameSelected, Selected
  <2> QED BY <1>2, <1>4, <2>1, SameWindow
<1>5. CASE UNCHANGED vars
  BY <1>3, <1>5 DEF vars, viewVars
<1>6. ASSUME NEW k \in Keys, Show(k) PROVE Goal
  <2>1. attached' = Selected(k) /\ activeKey' = k /\ k # NoKey
    BY <1>6, BrowserSessionsAssumption DEF Show, Attach
  <2>2. Selected(k)' = Selected(k)
    BY <1>6 DEF Show, Selected, sessionVars
  <2>3. WindowAgrees'
    BY <2>1, <2>2 DEF WindowAgrees, Follows, Selected
  <2> QED BY <1>2, <1>6, <2>3 DEF Show, sessionVars
<1>7. CASE Hide
  <2>1. WindowAgrees'
    BY <1>7 DEF Hide, Attach, WindowAgrees
  <2> QED BY <1>2, <1>7, <2>1 DEF Hide, sessionVars
<1>8. ASSUME NEW k \in Keys, NEW op \in Asks[k], Request(k, op) PROVE Goal
  <2>1. PICK those : Destroy(TabsOfAll(those))
    BY <1>8 DEF Request, Stop
  <2>2. SelectionAgrees'
    BY <1>1, <2>1, DestroySelects
  <2> QED BY <1>1, <1>8, <2>1, <2>2, DestroyWindow DEF Request
<1>9. ASSUME NEW k \in Keys, Refuse(k) PROVE Goal
  BY <1>1, <1>4, <1>9, RunsOnly DEF Refuse, Idles, Loads, sessionVars, viewVars
<1>10. ASSUME NEW k \in Keys, ServeStop(k) PROVE Goal
  <2> DEFINE those == {sessions[k]} \ {None}
             left == children \ TabsOfAll(those)
  <2>1. /\ Destroy(TabsOfAll(those)) /\ sessions' = [sessions EXCEPT ![k] = None]
        /\ Answered(k) /\ UNCHANGED <<thread, activeKey>>
        /\ IF activeKey = k THEN Attach(left, None) ELSE children' = left /\ UNCHANGED attached
    BY <1>10 DEF ServeStop, Stop
  <2>2. Selected(k)' = None
    BY <1>1, <2>1 DEF Selected, DataTypes
  <2> HIDE DEF those, left
  <2>3. Changed(k, left)
    BY <2>1, <2>2 DEF Changed
  <2>4. \A j \in Keys \ {k} : running'[j] = running[j] /\ sessions'[j] = sessions[j]
    BY <1>1, <2>1, RunsOnly DEF DataTypes
  <2> QED BY <1>1, <2>1, <2>3, <2>4, DestroySelects, DestroyWindow
<1>11. ASSUME NEW k \in Keys, ServePopup(k) \/ ServeOperation(k) PROVE Goal
  BY <1>11, OperationFollows
<1>12. ASSUME NEW k \in Keys, LoadEnds(k) PROVE Goal
  <2>1. UNCHANGED <<thread, sessions, activeKey>> /\ sessions[k] # None /\ running[k].created \in BOOLEAN
    BY <1>1, <1>12 DEF LoadEnds, QueueTypes, IInv, Work, WorkAgrees
  <2>2. CASE UNCHANGED <<tabVars, current>> /\ Changed(k, children) /\ Answered(k)
    BY <1>1, <1>4, <2>1, <2>2, RunsOnly
  <2>3. CASE Perform(k, running[k].created, TRUE)
    BY <2>1, <2>3, PerformFollows
  <2> QED BY <1>12, <2>2, <2>3 DEF LoadEnds
<1>13. ASSUME NEW k \in Keys, LoadFails(k) PROVE Goal
  <2> DEFINE tabs == {running[k].tab} \cap listed
  <2>1. /\ Destroy(tabs) /\ Fails(k, running[k].created)
        /\ UNCHANGED <<thread, sessions, attached, activeKey>>
    BY <1>13 DEF LoadFails
  <2>2. Loads(k) => running[k].tab \in tabs
    BY <1>1 DEF Loads, Data, PagesAgree
  <2>3. tabs \in SUBSET listed /\ tabs \in SUBSET Tabs
    BY <1>1 DEF DataTypes
  <2>4. \A j \in Keys \ {k} : running'[j] = running[j]
    BY <1>1, <2>1, RunsOnly
  <2> HIDE DEF tabs
  <2> QED BY <1>1, <2>1, <2>2, <2>3, <2>4, DestroySelects, DestroyWindow
<1>14. ASSUME NEW k \in Keys, WorkEnds(k) PROVE Goal
  <2>1. /\ UNCHANGED <<tabVars, current, thread, sessions, activeKey, attached>> /\ ~Loads(k)
        /\ Answered(k) \/ Fails(k, running[k].created)
    BY <1>14 DEF WorkEnds, Loads, sessionVars
  <2>2. \A j \in Keys \ {k} : running'[j] = running[j]
    BY <1>1, <2>1, RunsOnly
  <2> QED BY <1>4, <2>1, <2>2
<1>15. ASSUME NEW k \in Keys, CleanUp(k) PROVE Goal
  <2>1. /\ Answered(k) /\ ~Loads(k) /\ UNCHANGED <<tabVars, thread, activeKey>>
        /\ sessions[k] \in Sessions
    BY <1>1, <1>15 DEF CleanUp, Loads, IInv, Work, WorkAgrees
  <2>2. \A j \in Keys \ {k} : running'[j] = running[j]
    BY <1>1, <2>1, RunsOnly
  <2>3. CASE UNCHANGED <<current, sessions, viewVars>>
    BY <1>4, <2>1, <2>2, <2>3 DEF viewVars
  <2>4. CASE /\ current' = [current EXCEPT ![sessions[k]] = None]
             /\ sessions' = [sessions EXCEPT ![k] = None] /\ Changed(k, children)
    <3>1. \A s \in Sessions : current'[s] = current[s] \/ current'[s] = None
      BY <1>1, <2>4 DEF DataTypes
    <3>2. SelectionAgrees'
      BY <1>1, <2>1, <3>1, SameSelects
    <3>3. \A j \in Keys \ {k} : sessions'[j] = sessions[j] /\ SameSelected(j)
      BY <1>1, <2>1, <2>4 DEF DataTypes, SameSelected, Selected
    <3> QED BY <2>1, <2>2, <2>4, <3>2, <3>3, SameWindow
  <2> QED BY <1>15, <2>3, <2>4 DEF CleanUp
<1>16. ASSUME NEW t \in Tabs, PageOpensPopup(t) PROVE Goal
  BY <1>3, <1>16 DEF PageOpensPopup, viewVars
<1>17. ASSUME NEW t \in Tabs, PageChanges(t) PROVE Goal
  <2>1. thread[home[t]] \in Keys
    BY <1>1, <1>17 DEF PageChanges, Data, PagesAgree
  <2> QED BY <1>4, <1>17, <2>1 DEF PageChanges, sessionVars
<1>18. ASSUME NEW t \in Tabs, PageGone(t) PROVE Goal
  <2>1. /\ page' = [page EXCEPT ![t] = "gone"] /\ UNCHANGED <<home, thread, sessions, running, activeKey>>
        /\ current' = [s \in Sessions |-> IF current[s] = t THEN FirstOf(TabsOf(s) \ {t}) ELSE current[s]]
        /\ page[t] \in {"open", "closed"} /\ Changed(thread[home[t]], children)
    BY <1>18 DEF PageGone, Gone
  <2>2. thread[home[t]] \in Keys
    BY <1>1, <2>1 DEF Data, PagesAgree
  <2>3. ASSUME NEW j \in Keys \ {thread[home[t]]}, Follows(j), attached' = attached PROVE StillFollows(j)
    <3> SUFFICES Follows(j)'
      BY DEF StillFollows
    <3>1. home[t] # sessions[j] \/ sessions[j] = None
      BY <1>1
    <3>2. CASE Loads(j)
      BY <1>1, <2>1, <3>1, <3>2, NoneIsNeither DEF Follows, Loads, Data, DataTypes, PagesAgree
    <3>3. CASE Closes(j)
      BY <1>1, <2>1, <3>3 DEF Follows, Closes, DataTypes
    <3>4. CASE attached = Selected(j)
      <4>1. CASE sessions[j] = None
        BY <2>1, <2>3, <3>4, <4>1 DEF Follows, Selected
      <4>2. CASE sessions[j] # None
        <5>1. current[sessions[j]] # t
          BY <1>1, <3>1, <4>2, NoneIsNeither DEF SelectionAgrees, TabsOf
        <5>2. current'[sessions[j]] = current[sessions[j]]
          BY <1>1, <2>1, <4>2, <5>1
        <5> QED BY <2>1, <2>3, <3>4, <4>2, <5>2 DEF Follows, Selected
      <4> QED BY <4>1, <4>2
    <3> QED BY <2>3, <3>2, <3>3, <3>4 DEF Follows
  <2> QED BY <1>1, <1>18, <2>1, <2>2, <2>3, GoneSelects, ChangedWindow
<1>19. CASE Dispose
  <2>1. PICK those : Destroy(TabsOfAll(those))
    BY <1>19 DEF Dispose, Stop
  <2>2. WindowAgrees'
    BY <1>19 DEF Dispose, Attach, WindowAgrees
  <2> QED BY <1>1, <2>1, <2>2, DestroySelects
<1>20. CASE Disposed
  <2>1. /\ UNCHANGED <<tabVars, thread, current, running, activeKey, attached>>
        /\ sessions' = [k \in Keys |-> None] /\ listed = {}
        /\ \A k \in Keys : queues[k] = <<>>
    BY <1>1, <1>20 DEF Disposed, Data, PagesAgree, viewVars
  <2>2. \A k \in Keys : SameSelected(k) /\ ~Loads(k)
    BY <1>1, <2>1 DEF SameSelected, Selected, SelectionAgrees, TabsOf, Loads, IInv, Work, WorkAgrees
  <2>3. \A k \in Keys : Follows(k) => StillFollows(k)
    BY <1>1, <2>1, <2>2, SameFollows
  <2> QED BY <1>1, <1>2, <2>1, <2>3, KeptWindow
<1> QED BY <1>5, <1>6, <1>7, <1>8, <1>9, <1>10, <1>11, <1>12, <1>13, <1>14, <1>15, <1>16, <1>17,
           <1>18, <1>19, <1>20 DEF Next

(* The window shows the selected tab of the thread on display, or none,     *)
(* unless a load or a destroyed event of that thread is under way, whatever *)
(* opened, closed, failed, stopped or was disposed meanwhile                *)
(* (sessionChanged, attachSelectedView, destroyTab, createTab).             *)
THEOREM WindowFollows == Spec => []AttachedFollows
<1>1. Init => SelectionAgrees /\ WindowAgrees
  BY DEF Init, SelectionAgrees, WindowAgrees
<1>2. IInv /\ SelectionAgrees /\ WindowAgrees /\ [Next]_vars => (SelectionAgrees /\ WindowAgrees)'
  BY FollowNext DEF FollowInv
<1>3. SelectionAgrees /\ WindowAgrees => AttachedFollows
  BY DEF WindowAgrees, AttachedFollows, Follows, Loads, Closes
<1> QED BY <1>1, <1>2, <1>3, InvHolds, PTL DEF Spec
==============================================================================
