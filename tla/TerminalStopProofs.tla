------------------------- MODULE TerminalStopProofs -------------------------
(***************************************************************************)
(* StopLease, for any threads, workers and crashes:                         *)
(*   - a marker has one owner, and the two scopes of a stop exclude each    *)
(*     other.                                                               *)
(* TerminalStop, for any threads, workers, processes and troubles:          *)
(*   - it implements StopLease: requests, recoveries and crashes take, keep *)
(*     and drop leases as StopLease allows;                                 *)
(*   - its state stays well formed, and a committed marker is true;         *)
(*   - a pending stop destroys nothing;                                     *)
(*   - once quiet, a deleted or settled thread has no session left;         *)
(*   - the requests that wait for locks never all wait for each other;      *)
(*   - the session of a deleted thread stays recoverable, but for the one   *)
(*     step that gives back a marker it adopted.                            *)
(***************************************************************************)
EXTENDS TerminalStop, TLAPS

-----------------------------------------------------------------------------
\* StopLease: the lease layer by itself.

\* What makes OneScope inductive.  A thread stop that wrote its marker after
\* a project stop read it as absent still has the project marker to read.
Ordered ==
    \A p \in Workers, w \in Workers : \A t \in Threads :
        /\ Holds(p, Project)
        /\ Holds(w, t)
        /\ t \in lease[p].checked
        /\ lease[w].phase # "recovered"
        => lease[w].phase = "checking" /\ Project \in lease[w].todo

LeaseInv == LeaseTypeOK /\ OneOwner /\ Ordered

-----------------------------------------------------------------------------
\* Type correctness: every step keeps markers and leases in their types.
LEMMA LeaseTypeStep == ASSUME LeaseTypeOK, [LeaseNext]_leaseVars PROVE LeaseTypeOK'
<1> USE DEF LeaseTypeOK, Leases, LeasePhases, MarkerStates, Refs, NoLease
<1>1. CASE UNCHANGED leaseVars
  BY <1>1 DEF leaseVars
<1>2. ASSUME NEW w \in Workers, NEW t \in Threads, BeginThread(w, t) PROVE LeaseTypeOK'
  BY <1>2 DEF BeginThread
<1>3. ASSUME NEW w \in Workers, AcquireThread(w) PROVE LeaseTypeOK'
  BY <1>3 DEF AcquireThread, Acquire, PhaseAfter, Found
<1>4. ASSUME NEW w \in Workers, RefusedBusy(w) PROVE LeaseTypeOK'
  BY <1>4 DEF RefusedBusy, Drop
<1>5. ASSUME NEW w \in Workers, NEW ts \in SUBSET Threads, BeginProject(w, ts)
      PROVE LeaseTypeOK'
  BY <1>5 DEF BeginProject, Acquire, PhaseAfter, Found
<1>6. ASSUME NEW w \in Workers, NEW ts \in SUBSET Threads, RecheckProjectThreads(w, ts)
      PROVE LeaseTypeOK'
  <2>1. /\ lease[w] \in Leases
        /\ PhaseAfter(ts) \in LeasePhases
    BY DEF PhaseAfter
  <2>2. [lease[w] EXCEPT !.todo = ts, !.phase = PhaseAfter(ts)] \in Leases
    BY <2>1
  <2> QED
    BY <1>6, <2>2 DEF RecheckProjectThreads
<1>7. ASSUME NEW w \in Workers, NEW r \in Refs, InspectAbsent(w, r) PROVE LeaseTypeOK'
  <2>1. /\ lease[w] \in Leases
        /\ PhaseAfter(lease[w].todo \ {r}) \in LeasePhases
    BY DEF PhaseAfter
  <2>2. [lease[w] EXCEPT !.todo = lease[w].todo \ {r},
                         !.checked = lease[w].checked \union {r},
                         !.phase = PhaseAfter(lease[w].todo \ {r})] \in Leases
    BY <2>1
  <2> QED
    BY <1>7, <2>2 DEF InspectAbsent
<1>8. ASSUME NEW w \in Workers, NEW r \in Refs, InspectConflict(w, r) PROVE LeaseTypeOK'
  <2>1. /\ lease[w].phase = "checking"
        /\ (Drop(w) /\ UNCHANGED marker) \/ RemoveAndDrop(w)
    BY <1>8, Zenon DEF InspectConflict
  <2>2. CASE Drop(w) /\ UNCHANGED marker
    BY <2>2 DEF Drop
  <2>3. CASE RemoveAndDrop(w)
    BY <2>1, <2>3 DEF RemoveAndDrop, Drop
  <2> QED
    BY <2>1, <2>2, <2>3
<1>9. ASSUME NEW w \in Workers, NEW r \in Refs, AcquireExisting(w, r) PROVE LeaseTypeOK'
  BY <1>9 DEF AcquireExisting
<1>10. ASSUME NEW w \in Workers, Commit(w) PROVE LeaseTypeOK'
  BY <1>10 DEF Commit
<1>11. ASSUME NEW w \in Workers, Rollback(w) PROVE LeaseTypeOK'
  BY <1>11 DEF Rollback, RemoveAndDrop, Drop
<1>12. ASSUME NEW w \in Workers, Retain(w) PROVE LeaseTypeOK'
  BY <1>12 DEF Retain, Drop
<1>13. ASSUME NEW ws \in SUBSET Workers, CrashLeases(ws) PROVE LeaseTypeOK'
  BY <1>13 DEF CrashLeases
<1> QED
  BY <1>1, <1>2, <1>3, <1>4, <1>5, <1>6, <1>7, <1>8, <1>9, <1>10, <1>11, <1>12, <1>13
     DEF LeaseNext, LeaseStep

\* Ownership: only a free marker is acquired, and only its owner removes it.
LEMMA OneOwnerStep ==
    ASSUME LeaseTypeOK, OneOwner, [LeaseNext]_leaseVars PROVE OneOwner'
<1> USE DEF LeaseTypeOK, Leases, LeasePhases, MarkerStates, Refs, NoLease,
            OneOwner, Holds, Found
<1>1. CASE UNCHANGED leaseVars
  BY <1>1 DEF leaseVars
<1>2. ASSUME NEW w \in Workers, NEW t \in Threads, BeginThread(w, t) PROVE OneOwner'
  BY <1>2 DEF BeginThread
<1>3. ASSUME NEW w \in Workers, AcquireThread(w) PROVE OneOwner'
  BY <1>3 DEF AcquireThread, Acquire, PhaseAfter, Busy
<1>4. ASSUME NEW w \in Workers, RefusedBusy(w) PROVE OneOwner'
  BY <1>4 DEF RefusedBusy, Drop
<1>5. ASSUME NEW w \in Workers, NEW ts \in SUBSET Threads, BeginProject(w, ts) PROVE OneOwner'
  BY <1>5 DEF BeginProject, Acquire, PhaseAfter, Busy
<1>6. ASSUME NEW w \in Workers, NEW ts \in SUBSET Threads, RecheckProjectThreads(w, ts)
      PROVE OneOwner'
  BY <1>6 DEF RecheckProjectThreads, PhaseAfter, Granted
<1>7. ASSUME NEW w \in Workers, NEW r \in Refs, InspectAbsent(w, r) PROVE OneOwner'
  BY <1>7 DEF InspectAbsent, PhaseAfter
<1>8. ASSUME NEW w \in Workers, NEW r \in Refs, InspectConflict(w, r) PROVE OneOwner'
  <2>1. /\ lease[w].phase = "checking"
        /\ (Drop(w) /\ UNCHANGED marker) \/ RemoveAndDrop(w)
    BY <1>8, Zenon DEF InspectConflict
  <2>2. CASE Drop(w) /\ UNCHANGED marker
    BY <2>2 DEF Drop
  <2>3. CASE RemoveAndDrop(w)
    BY <2>1, <2>3 DEF RemoveAndDrop, Drop
  <2> QED
    BY <2>1, <2>2, <2>3
<1>9. ASSUME NEW w \in Workers, NEW r \in Refs, AcquireExisting(w, r) PROVE OneOwner'
  BY <1>9 DEF AcquireExisting, Busy
<1>10. ASSUME NEW w \in Workers, Commit(w) PROVE OneOwner'
  BY <1>10 DEF Commit
<1>11. ASSUME NEW w \in Workers, Rollback(w) PROVE OneOwner'
  BY <1>11 DEF Rollback, RemoveAndDrop, Drop
<1>12. ASSUME NEW w \in Workers, Retain(w) PROVE OneOwner'
  BY <1>12 DEF Retain, Drop
<1>13. ASSUME NEW ws \in SUBSET Workers, CrashLeases(ws) PROVE OneOwner'
  BY <1>13 DEF CrashLeases
<1> QED
  BY <1>1, <1>2, <1>3, <1>4, <1>5, <1>6, <1>7, <1>8, <1>9, <1>10, <1>11, <1>12, <1>13
     DEF LeaseNext, LeaseStep

\* The order of writing one's own marker and reading the other's.
LEMMA OrderedStep == ASSUME LeaseInv, [LeaseNext]_leaseVars PROVE Ordered'
<1> USE ProjectAssumption
    DEF LeaseInv, LeaseTypeOK, Leases, LeasePhases, MarkerStates, Refs, NoLease,
        OneOwner, Ordered, Holds, Found
<1>1. CASE UNCHANGED leaseVars
  BY <1>1 DEF leaseVars
<1>2. ASSUME NEW w \in Workers, NEW t \in Threads, BeginThread(w, t) PROVE Ordered'
  BY <1>2 DEF BeginThread
<1>3. ASSUME NEW w \in Workers, AcquireThread(w) PROVE Ordered'
  BY <1>3 DEF AcquireThread, Acquire, PhaseAfter, Busy
<1>4. ASSUME NEW w \in Workers, RefusedBusy(w) PROVE Ordered'
  BY <1>4 DEF RefusedBusy, Drop
<1>5. ASSUME NEW w \in Workers, NEW ts \in SUBSET Threads, BeginProject(w, ts) PROVE Ordered'
  BY <1>5 DEF BeginProject, Acquire, PhaseAfter, Busy
<1>6. ASSUME NEW w \in Workers, NEW ts \in SUBSET Threads, RecheckProjectThreads(w, ts)
      PROVE Ordered'
  BY <1>6 DEF RecheckProjectThreads, PhaseAfter, Granted
<1>7. ASSUME NEW w \in Workers, NEW r \in Refs, InspectAbsent(w, r) PROVE Ordered'
  <2> SUFFICES ASSUME NEW p \in Workers, NEW v \in Workers, NEW t \in Threads,
                      Holds(p, Project)', Holds(v, t)', t \in lease'[p].checked,
                      lease'[v].phase # "recovered"
               PROVE  lease'[v].phase = "checking" /\ Project \in lease'[v].todo
    OBVIOUS
  <2>1. /\ Holds(p, Project) /\ Holds(v, t)
        /\ lease[v].phase # "recovered"
        /\ Found(Project) /\ Found(t)
        /\ t # r \/ w # p
    BY <1>7 DEF InspectAbsent, PhaseAfter
  <2>2. t \in lease[p].checked
    BY <1>7, <2>1 DEF InspectAbsent
  <2>3. lease[v].phase = "checking" /\ Project \in lease[v].todo
    BY <2>1, <2>2
  <2>4. r # Project
    BY <1>7, <2>1 DEF InspectAbsent
  <2> QED
    BY <1>7, <2>3, <2>4 DEF InspectAbsent, PhaseAfter
<1>8. ASSUME NEW w \in Workers, NEW r \in Refs, InspectConflict(w, r) PROVE Ordered'
  BY <1>8 DEF InspectConflict, RemoveAndDrop, Drop
<1>9. ASSUME NEW w \in Workers, NEW r \in Refs, AcquireExisting(w, r) PROVE Ordered'
  BY <1>9 DEF AcquireExisting, Busy
<1>10. ASSUME NEW w \in Workers, Commit(w) PROVE Ordered'
  BY <1>10 DEF Commit
<1>11. ASSUME NEW w \in Workers, Rollback(w) PROVE Ordered'
  BY <1>11 DEF Rollback, RemoveAndDrop, Drop
<1>12. ASSUME NEW w \in Workers, Retain(w) PROVE Ordered'
  BY <1>12 DEF Retain, Drop
<1>13. ASSUME NEW ws \in SUBSET Workers, CrashLeases(ws) PROVE Ordered'
  BY <1>13 DEF CrashLeases
<1> QED
  BY <1>1, <1>2, <1>3, <1>4, <1>5, <1>6, <1>7, <1>8, <1>9, <1>10, <1>11, <1>12, <1>13
     DEF LeaseNext, LeaseStep

-----------------------------------------------------------------------------
\* The inductive invariant holds of every behaviour of the lease layer.
THEOREM LeaseInvariant == LeaseSpec => []LeaseInv
<1>1. LeaseInit => LeaseInv
  BY ProjectAssumption
     DEF LeaseInit, LeaseInv, LeaseTypeOK, Leases, LeasePhases, MarkerStates, Refs, NoLease,
         OneOwner, Ordered, Holds, Found
<1>2. LeaseInv /\ [LeaseNext]_leaseVars => LeaseInv'
  BY LeaseTypeStep, OneOwnerStep, OrderedStep DEF LeaseInv
<1> QED
  BY <1>1, <1>2, PTL DEF LeaseSpec

\* Every marker has at most one live owner, and outlives that ownership.
THEOREM LeaseHasOneOwner == LeaseSpec => []OneOwner
BY LeaseInvariant, PTL DEF LeaseInv

\* A project stop and the stop of a thread it looked at are never both granted.
THEOREM ScopesExclude == LeaseSpec => []OneScope
<1>1. LeaseInv => OneScope
  BY DEF LeaseInv, Ordered, OneScope, Granted, Holds
<1> QED
  BY <1>1, LeaseInvariant, PTL

-----------------------------------------------------------------------------
\* TerminalStop: the requests and recoveries that use the leases.

\* Where a project deletion has read a membership and not yet written a recipe.
Reading == {"stop", "begin", "recheck"}

\* A request names what it is about, and a membership has only threads.
ScopedJobs ==
    /\ job \in [Workers -> Jobs \union {NoJob}]
    /\ \A w \in Workers :
          /\ job[w].op \in ThreadStops \union {"open"} => job[w].ref \in Threads
          /\ job[w].op = "deleteProject" => job[w].ref = Project
          /\ job[w].op = "deleteProject" /\ job[w].at \in Reading => job[w].seen \subseteq Threads

ScopeInv == ScopedJobs /\ recipe \subseteq Threads

-----------------------------------------------------------------------------
\* The ways a step writes a job

LEMMA NoJobShape == NoJob.op = "none" /\ NoJob.at = "none"
BY DEF NoJob

LEMMA JobIs ==
    ASSUME ScopedJobs, NEW w \in Workers
    PROVE  /\ job[w].op \in Ops \union {"none"} /\ job[w].at \in Steps \union {"none"}
           /\ job[w].op = "none" <=> job[w].at = "none"
           /\ job[w].ref \in Refs /\ job[w].seen \in SUBSET Refs
<1>1. Project \in Refs /\ "none" \notin Ops /\ "none" \notin Steps
  BY DEF Refs, Ops, Steps
<1>2. CASE job[w] \in Jobs
  BY <1>1, <1>2 DEF Jobs
<1>3. CASE job[w] = NoJob
  BY <1>1, <1>3 DEF NoJob
<1> QED BY <1>2, <1>3 DEF ScopedJobs

LEMMA BeginMoves ==
    ASSUME ScopedJobs, NEW w \in Workers, NEW op, NEW step, NEW r, NEW seen, Begin(w, op, step, r, seen)
    PROVE  /\ job'[w].op = op /\ job'[w].at = step /\ job'[w].ref = r /\ job'[w].seen = seen
           /\ DOMAIN job' = Workers /\ \A v \in Workers \ {w} : job'[v] = job[v]
BY DEF ScopedJobs, Begin

LEMMA ReplyMoves ==
    ASSUME ScopedJobs, NEW w \in Workers, Reply(w)
    PROVE  /\ job'[w] = NoJob /\ job'[w].op = "none" /\ job'[w].at = "none"
           /\ DOMAIN job' = Workers /\ \A v \in Workers \ {w} : job'[v] = job[v]
BY DEF ScopedJobs, Reply, NoJob

LEMMA ReadsMoves ==
    ASSUME ScopedJobs, NEW w \in Workers, NEW step, NEW seen, Reads(w, step, seen)
    PROVE  /\ job'[w].op = job[w].op /\ job'[w].at = step
           /\ job'[w].ref = job[w].ref /\ job'[w].seen = seen
           /\ DOMAIN job' = Workers /\ \A v \in Workers \ {w} : job'[v] = job[v]
BY BeginMoves DEF Reads

LEMMA GotoMoves ==
    ASSUME ScopedJobs, NEW w \in Workers, NEW step, Goto(w, step)
    PROVE  /\ job'[w].op = job[w].op /\ job'[w].at = step
           /\ job'[w].ref = job[w].ref /\ job'[w].seen = job[w].seen
           /\ DOMAIN job' = Workers /\ \A v \in Workers \ {w} : job'[v] = job[v]
BY ReadsMoves DEF Goto

\* A step of a worker keeps the jobs in scope if the worker's new job is.
LEMMA MovedKeeps ==
    ASSUME ScopedJobs, NEW w \in Workers, job' \in [Workers -> Jobs \union {NoJob}],
           \A v \in Workers \ {w} : job'[v] = job[v],
           job'[w].op \in ThreadStops \union {"open"} => job'[w].ref \in Threads,
           job'[w].op = "deleteProject" => job'[w].ref = Project,
           job'[w].op = "deleteProject" /\ job'[w].at \in Reading => job'[w].seen \subseteq Threads
    PROVE  ScopedJobs'
BY DEF ScopedJobs

LEMMA BeginKeeps ==
    ASSUME ScopedJobs, NEW w \in Workers, NEW op \in Ops, NEW step \in Steps, NEW r \in Refs,
           NEW seen \in SUBSET Refs, Begin(w, op, step, r, seen),
           op \in ThreadStops \union {"open"} => r \in Threads,
           op = "deleteProject" => r = Project,
           op = "deleteProject" /\ step \in Reading => seen \subseteq Threads
    PROVE  ScopedJobs'
<1>1. [op |-> op, at |-> step, ref |-> r, seen |-> seen] \in Jobs
  BY DEF Jobs
<1>2. job' \in [Workers -> Jobs \union {NoJob}]
  BY <1>1 DEF Begin, ScopedJobs
<1> QED BY <1>2, BeginMoves, MovedKeeps

LEMMA ReplyKeeps ==
    ASSUME ScopedJobs, NEW w \in Workers, Reply(w)
    PROVE  ScopedJobs'
<1>1. job' \in [Workers -> Jobs \union {NoJob}]
  BY DEF Reply, ScopedJobs
<1>2. "none" \notin ThreadStops \union {"open"}
  BY DEF ThreadStops
<1> QED BY <1>1, <1>2, ReplyMoves, MovedKeeps

LEMMA ReadsKeeps ==
    ASSUME ScopedJobs, NEW w \in Workers, NEW step \in Steps, NEW seen \in SUBSET Refs,
           Reads(w, step, seen), job[w].at # "none",
           job[w].op = "deleteProject" /\ step \in Reading => seen \subseteq Threads
    PROVE  ScopedJobs'
<1>1. job[w].op \in Ops /\ job[w].ref \in Refs
  BY JobIs
<1>2. Begin(w, job[w].op, step, job[w].ref, seen)
  BY DEF Reads
<1> QED BY <1>1, <1>2, BeginKeeps DEF ScopedJobs

LEMMA GotoKeeps ==
    ASSUME ScopedJobs, NEW w \in Workers, NEW step \in Steps, Goto(w, step), job[w].at # "none",
           job[w].op = "deleteProject" /\ step \in Reading => job[w].seen \subseteq Threads
    PROVE  ScopedJobs'
<1>1. Reads(w, step, job[w].seen) /\ job[w].seen \in SUBSET Refs
  BY JobIs DEF Goto
<1> QED BY <1>1, ReadsKeeps

-----------------------------------------------------------------------------
\* Every step keeps the jobs and the recipe in scope.
LEMMA ScopeStep == ASSUME ScopeInv, [Next]_vars PROVE ScopeInv'
<1> USE DEF ScopeInv
<1>1. CASE UNCHANGED vars
  BY <1>1 DEF vars, diskVars, procVars, ScopedJobs, At
<1>2. ASSUME NEW w \in Workers, AskDeleteProject(w) PROVE ScopeInv'
  <2>1. /\ \/ Begin(w, "deleteProject", "stop", Project, StoredThreads)
           \/ Begin(w, "deleteProject", "recover", Project, {Project})
        /\ StoredThreads \subseteq Threads /\ StoredThreads \in SUBSET Refs /\ UNCHANGED recipe
    BY <1>2 DEF AskDeleteProject, diskVars, StoredThreads, Refs
  <2> HIDE DEF StoredThreads
  <2> QED BY <2>1, BeginKeeps DEF Ops, Steps, Refs, ThreadStops, Reading
<1>3. ASSUME NEW w \in Workers, NEW t \in Threads, AskDeleteThread(w, t) PROVE ScopeInv'
  <2> DEFINE found == {u \in Threads : Found(u)}
  <2>1. /\ Begin(w, "deleteThread", "stop", t, {}) \/ Begin(w, "deleteThread", "recover", t, found)
        /\ found \in SUBSET Refs /\ UNCHANGED recipe
    BY <1>3 DEF AskDeleteThread, diskVars, Refs
  <2> HIDE DEF found
  <2> QED BY <2>1, BeginKeeps DEF Ops, Steps, Refs, ThreadStops, Reading
<1>4. ASSUME NEW w \in Workers, NEW t \in Threads, AskClose(w, t) PROVE ScopeInv'
  <2>1. Begin(w, "close", "stop", t, {}) /\ UNCHANGED recipe
    BY <1>4 DEF AskClose, diskVars
  <2> QED BY <2>1, BeginKeeps DEF Ops, Steps, Refs, ThreadStops, Reading
<1>5. ASSUME NEW w \in Workers, NEW t \in Threads, AskSettle(w, t) PROVE ScopeInv'
  <2>1. Begin(w, "settle", "stop", t, {}) /\ UNCHANGED recipe
    BY <1>5 DEF AskSettle, diskVars
  <2> QED BY <2>1, BeginKeeps DEF Ops, Steps, Refs, ThreadStops, Reading
<1>6. ASSUME NEW w \in Workers, NEW t \in Threads, Unsettle(w, t) PROVE ScopeInv'
  BY <1>6 DEF Unsettle, diskVars, procVars, ScopedJobs
<1>7. ASSUME NEW w \in Workers, NEW t \in Threads, AskOpen(w, t) PROVE ScopeInv'
  <2>1. Begin(w, "open", "lock", t, {}) /\ UNCHANGED recipe
    BY <1>7 DEF AskOpen, diskVars
  <2> QED BY <2>1, BeginKeeps DEF Ops, Steps, Refs, ThreadStops, Reading
<1>8. ASSUME NEW w \in Workers, NEW t \in Threads, AddThread(w, t) PROVE ScopeInv'
  BY <1>8 DEF AddThread, diskVars, procVars, ScopedJobs
<1>9. ASSUME NEW w \in Workers, StopThreadRefused(w) PROVE ScopeInv'
  BY <1>9, ReplyKeeps DEF StopThreadRefused, diskVars
<1>10. ASSUME NEW w \in Workers, StopThread(w) PROVE ScopeInv'
  BY <1>10, GotoKeeps
     DEF StopThread, AtAny, diskVars, ThreadStops, Steps, Reading
<1>11. ASSUME NEW w \in Workers, TakeMarker(w) PROVE ScopeInv'
  BY <1>11 DEF TakeMarker, diskVars, procVars, ScopedJobs
<1>12. ASSUME NEW w \in Workers, MarkerTaken(w) PROVE ScopeInv'
  BY <1>12, ReplyKeeps DEF MarkerTaken, diskVars
<1>13. ASSUME NEW w \in Workers, ThreadStopGranted(w) PROVE ScopeInv'
  <2>1. /\ Goto(w, AfterThreadStop(w)) /\ UNCHANGED recipe /\ job[w].at # "none"
        /\ AfterThreadStop(w) \in Steps \ Reading
    BY <1>13 DEF ThreadStopGranted, diskVars, AtAny, AfterThreadStop, Steps, Reading
  <2> HIDE DEF AfterThreadStop
  <2> QED BY <2>1, GotoKeeps
<1>14. ASSUME NEW w \in Workers, StopProjectRefused(w) PROVE ScopeInv'
  BY <1>14, ReplyKeeps DEF StopProjectRefused, diskVars
<1>15. ASSUME NEW w \in Workers, StopProject(w) PROVE ScopeInv'
  <2>1. /\ Goto(w, "begin") /\ job[w].at # "none" /\ job[w].seen \subseteq Threads
        /\ recipe' \subseteq Threads
    BY <1>15 DEF StopProject, At, ScopedJobs, Reading
  <2> QED BY <2>1, GotoKeeps DEF Steps
<1>16. ASSUME NEW w \in Workers, RefreshProject(w) PROVE ScopeInv'
  <2>1. /\ Reads(w, "recheck", StoredThreads) /\ job[w].at # "none" /\ UNCHANGED recipe
        /\ StoredThreads \subseteq Threads /\ StoredThreads \in SUBSET Refs
    BY <1>16 DEF RefreshProject, At, StoredThreads, Refs, diskVars
  <2> HIDE DEF StoredThreads
  <2> QED BY <2>1, ReadsKeeps DEF Steps
<1>17. ASSUME NEW w \in Workers, RefreshFindsProjectGone(w) PROVE ScopeInv'
  BY <1>17, GotoKeeps, ReplyKeeps
     DEF RefreshFindsProjectGone, At, diskVars, Steps, Reading
<1>18. ASSUME NEW w \in Workers, RefreshFails(w) PROVE ScopeInv'
  BY <1>18, ReplyKeeps DEF RefreshFails, diskVars
<1>19. ASSUME NEW w \in Workers, UpdateCleanupRecipe(w) PROVE ScopeInv'
  <2>1. /\ Reply(w) \/ Goto(w, "store")
        /\ job[w].at # "none" /\ recipe' \subseteq Threads
    BY <1>19 DEF UpdateCleanupRecipe, At, ScopedJobs, Reading
  <2> QED BY <2>1, GotoKeeps, ReplyKeeps DEF Steps, Reading
<1>20. ASSUME NEW w \in Workers, UpdateCleanupRecipeFails(w) PROVE ScopeInv'
  BY <1>20, ReplyKeeps DEF UpdateCleanupRecipeFails, diskVars
<1>21. ASSUME NEW w \in Workers, StoreDelete(w) PROVE ScopeInv'
  BY <1>21, GotoKeeps
     DEF StoreDelete, AtAny, Steps, Reading
<1>22. ASSUME NEW w \in Workers, StoreFindsNothing(w) PROVE ScopeInv'
  BY <1>22, GotoKeeps
     DEF StoreFindsNothing, AtAny, diskVars, Steps, Reading
<1>23. ASSUME NEW w \in Workers, ResolveStoreError(w) PROVE ScopeInv'
  <2>1. /\ Goto(w, "cancel") \/ Goto(w, "finish") \/ Goto(w, "retain")
        /\ job[w].at # "none" /\ UNCHANGED recipe
    BY <1>23 DEF ResolveStoreError, AtAny, diskVars
  <2> QED BY <2>1, GotoKeeps DEF Steps, Reading
<1>24. ASSUME NEW w \in Workers, CancelStop(w) PROVE ScopeInv'
  BY <1>24, GotoKeeps, ReplyKeeps
     DEF CancelStop, AfterUnstop, diskVars, Steps, Reading
<1>25. ASSUME NEW w \in Workers, CancelStopAgain(w) PROVE ScopeInv'
  BY <1>25, ReplyKeeps DEF CancelStopAgain, diskVars
<1>26. ASSUME NEW w \in Workers, RetainStop(w) PROVE ScopeInv'
  BY <1>26, GotoKeeps, ReplyKeeps
     DEF RetainStop, AfterUnstop, diskVars, Steps, Reading
<1>27. ASSUME NEW w \in Workers, FinishStop(w) PROVE ScopeInv'
  BY <1>27, GotoKeeps
     DEF FinishStop, AtAny, diskVars, Steps, Reading
<1>28. ASSUME NEW w \in Workers, FinishStopFails(w) PROVE ScopeInv'
  BY <1>28, GotoKeeps
     DEF FinishStopFails, AtAny, diskVars, Steps, Reading
<1>29. ASSUME NEW w \in Workers, FinishSweep(w) PROVE ScopeInv'
  BY <1>29, GotoKeeps
     DEF FinishSweep, AtAny, Steps, Reading
<1>30. ASSUME NEW w \in Workers, FinishRelease(w) PROVE ScopeInv'
  BY <1>30, ReplyKeeps DEF FinishRelease, diskVars
<1>31. ASSUME NEW w \in Workers, LockForMutation(w) PROVE ScopeInv'
  BY <1>31, GotoKeeps
     DEF LockForMutation, AtAny, At, diskVars, Steps, Reading
<1>32. ASSUME NEW w \in Workers, StillActive(w) PROVE ScopeInv'
  BY <1>32, GotoKeeps
     DEF StillActive, AtAny, diskVars, Steps, Reading
<1>33. ASSUME NEW w \in Workers, CloseInactive(w) PROVE ScopeInv'
  BY <1>33, GotoKeeps
     DEF CloseInactive, At, Steps, Reading
<1>34. ASSUME NEW w \in Workers, StoreSettled(w) PROVE ScopeInv'
  BY <1>34, GotoKeeps
     DEF StoreSettled, At, Steps, Reading
<1>35. ASSUME NEW w \in Workers, StoreSettledFails(w) PROVE ScopeInv'
  BY <1>35, GotoKeeps
     DEF StoreSettledFails, At, Steps, Reading
<1>36. ASSUME NEW w \in Workers, KillSessions(w) PROVE ScopeInv'
  BY <1>36, GotoKeeps
     DEF KillSessions, AtAny, Steps, Reading
<1>37. ASSUME NEW w \in Workers, OpenReadProject(w) PROVE ScopeInv'
  BY <1>37, GotoKeeps, ReplyKeeps
     DEF OpenReadProject, OpenRefused, At, Steps, Reading
<1>38. ASSUME NEW w \in Workers, OpenReadThread(w) PROVE ScopeInv'
  BY <1>38, GotoKeeps, ReplyKeeps
     DEF OpenReadThread, OpenRefused, At, Steps, Reading
<1>39. ASSUME NEW w \in Workers, OpenReadStore(w) PROVE ScopeInv'
  BY <1>39, GotoKeeps, ReplyKeeps
     DEF OpenReadStore, OpenRefused, At, Steps, Reading
<1>40. ASSUME NEW w \in Workers, OpenCreate(w) PROVE ScopeInv'
  BY <1>40, GotoKeeps
     DEF OpenCreate, At, Steps, Reading
<1>41. ASSUME NEW w \in Workers, FenceReadProject(w) PROVE ScopeInv'
  <2> DEFINE read == IF Found(Project) THEN recipe ELSE {}
  <2>1. /\ Reads(w, Observed, read) /\ job[w].at # "none" /\ UNCHANGED recipe
        /\ read \in SUBSET Refs /\ Observed \in Steps \ Reading
    BY <1>41 DEF FenceReadProject, At, Refs, diskVars, Observed, Steps, Reading
  <2> HIDE DEF read, Observed
  <2> QED BY <2>1, ReadsKeeps
<1>42. ASSUME NEW w \in Workers, FenceReadThread(w) PROVE ScopeInv'
  BY <1>42, ReplyKeeps DEF FenceReadThread, diskVars
<1>43. ASSUME NEW w \in Workers, NEW r \in Refs, StopConflict(w, r) PROVE ScopeInv'
  BY <1>43, ReplyKeeps DEF StopConflict, diskVars
<1>44. ASSUME NEW w \in Workers, NEW r \in Refs, ReadThreadMarker(w, r) PROVE ScopeInv'
  BY <1>44 DEF ReadThreadMarker, diskVars, procVars, ScopedJobs
<1>45. ASSUME NEW w \in Workers, NEW r \in Refs, RecoverMarker(w, r) PROVE ScopeInv'
  <2> DEFINE left == job[w].seen \ {r}
  <2>1. Reads(w, "recovered", left) /\ job[w].at # "none" /\ UNCHANGED recipe /\ left \in SUBSET Refs
    BY <1>45, JobIs DEF RecoverMarker, diskVars
  <2> HIDE DEF left
  <2> QED BY <2>1, ReadsKeeps DEF Steps, Reading
<1>46. ASSUME NEW w \in Workers, NEW r \in Refs, SkipMarker(w, r) PROVE ScopeInv'
  <2> DEFINE left == job[w].seen \ {r}
  <2>1. Reads(w, "recover", left) /\ job[w].at # "none" /\ UNCHANGED recipe /\ left \in SUBSET Refs
    BY <1>46, JobIs DEF SkipMarker, diskVars
  <2> HIDE DEF left
  <2> QED BY <2>1, ReadsKeeps DEF Steps, Reading
<1>47. ASSUME NEW w \in Workers, RetainAmbiguous(w) PROVE ScopeInv'
  BY <1>47, GotoKeeps
     DEF RetainAmbiguous, EndRecovery, diskVars, Steps, Reading
<1>48. ASSUME NEW w \in Workers, CommitRecovered(w) PROVE ScopeInv'
  BY <1>48, GotoKeeps
     DEF CommitRecovered, diskVars, Steps, Reading
<1>49. ASSUME NEW w \in Workers, RecoveryFails(w) PROVE ScopeInv'
  BY <1>49, GotoKeeps
     DEF RecoveryFails, EndRecovery, diskVars, Steps, Reading
<1>50. ASSUME NEW w \in Workers, RecoverSweep(w) PROVE ScopeInv'
  BY <1>50, GotoKeeps
     DEF RecoverSweep, EndRecovery, Steps, Reading
<1>51. ASSUME NEW w \in Workers, Recovered(w) PROVE ScopeInv'
  BY <1>51, ReplyKeeps DEF Recovered, diskVars
<1>52. ASSUME NEW p \in Processes, Crash(p) PROVE ScopeInv'
  <2>1. /\ job' = [v \in Workers |-> IF v \in Local(p) THEN NoJob ELSE job[v]]
        /\ UNCHANGED recipe
    BY <1>52 DEF Crash
  <2>2. NoJob.op \notin ThreadStops \union {"open", "deleteProject"}
    BY DEF NoJob, ThreadStops
  <2> QED BY <2>1, <2>2 DEF ScopedJobs
<1>53. ASSUME NEW p \in Processes, Boot(p) PROVE ScopeInv'
  <2> DEFINE w == CHOOSE v \in Local(p) : TRUE
             found == {r \in Refs : Found(r)}
  <2>1. /\ Begin(w, "boot", "recover", Project, found) /\ UNCHANGED recipe /\ found \in SUBSET Refs
        /\ w \in Workers
    BY <1>53, TerminalStopAssumption DEF Boot, Local, diskVars
  <2> HIDE DEF w, found
  <2> QED BY <2>1, BeginKeeps DEF Ops, Steps, Refs, ThreadStops, Reading
<1> QED
  BY <1>1, <1>2, <1>3, <1>4, <1>5, <1>6, <1>7, <1>8, <1>9, <1>10, <1>11, <1>12, <1>13, <1>14,
     <1>15, <1>16, <1>17, <1>18, <1>19, <1>20, <1>21, <1>22, <1>23, <1>24, <1>25, <1>26, <1>27,
     <1>28, <1>29, <1>30, <1>31, <1>32, <1>33, <1>34, <1>35, <1>36, <1>37, <1>38, <1>39, <1>40,
     <1>41, <1>42, <1>43, <1>44, <1>45, <1>46, <1>47, <1>48, <1>49, <1>50, <1>51, <1>52, <1>53
     DEF Next, Ask, Work

-----------------------------------------------------------------------------
\* Every step of the backends is a step of the leases or leaves them alone.
LEMMA LeaseRefines == ASSUME ScopeInv, [Next]_vars PROVE [LeaseNext]_leaseVars
<1> USE DEF ScopeInv
<1>1. CASE UNCHANGED vars
  BY <1>1 DEF vars
<1>2. ASSUME NEW w \in Workers, AskDeleteProject(w) PROVE [LeaseNext]_leaseVars
  BY <1>2 DEF AskDeleteProject
<1>3. ASSUME NEW w \in Workers, NEW t \in Threads, AskDeleteThread(w, t) PROVE [LeaseNext]_leaseVars
  BY <1>3 DEF AskDeleteThread
<1>4. ASSUME NEW w \in Workers, NEW t \in Threads, AskClose(w, t) PROVE [LeaseNext]_leaseVars
  BY <1>4 DEF AskClose
<1>5. ASSUME NEW w \in Workers, NEW t \in Threads, AskSettle(w, t) PROVE [LeaseNext]_leaseVars
  BY <1>5 DEF AskSettle
<1>6. ASSUME NEW w \in Workers, NEW t \in Threads, Unsettle(w, t) PROVE [LeaseNext]_leaseVars
  BY <1>6 DEF Unsettle
<1>7. ASSUME NEW w \in Workers, NEW t \in Threads, AskOpen(w, t) PROVE [LeaseNext]_leaseVars
  BY <1>7 DEF AskOpen
<1>8. ASSUME NEW w \in Workers, NEW t \in Threads, AddThread(w, t) PROVE [LeaseNext]_leaseVars
  BY <1>8 DEF AddThread
<1>9. ASSUME NEW w \in Workers, StopThreadRefused(w) PROVE [LeaseNext]_leaseVars
  BY <1>9 DEF StopThreadRefused
<1>10. ASSUME NEW w \in Workers, StopThread(w) PROVE [LeaseNext]_leaseVars
  BY <1>10 DEF StopThread, LeaseNext, LeaseStep, ScopedJobs, AtAny
<1>11. ASSUME NEW w \in Workers, TakeMarker(w) PROVE [LeaseNext]_leaseVars
  BY <1>11 DEF TakeMarker, LeaseNext, LeaseStep
<1>12. ASSUME NEW w \in Workers, MarkerTaken(w) PROVE [LeaseNext]_leaseVars
  BY <1>12 DEF MarkerTaken, LeaseNext, LeaseStep
<1>13. ASSUME NEW w \in Workers, ThreadStopGranted(w) PROVE [LeaseNext]_leaseVars
  BY <1>13 DEF ThreadStopGranted, LeaseNext, LeaseStep, Refs
<1>14. ASSUME NEW w \in Workers, StopProjectRefused(w) PROVE [LeaseNext]_leaseVars
  BY <1>14 DEF StopProjectRefused
<1>15. ASSUME NEW w \in Workers, StopProject(w) PROVE [LeaseNext]_leaseVars
  BY <1>15 DEF StopProject, LeaseNext, LeaseStep, ScopedJobs, At, Reading
<1>16. ASSUME NEW w \in Workers, RefreshProject(w) PROVE [LeaseNext]_leaseVars
  BY <1>16 DEF RefreshProject, LeaseNext, LeaseStep, StoredThreads
<1>17. ASSUME NEW w \in Workers, RefreshFindsProjectGone(w) PROVE [LeaseNext]_leaseVars
  BY <1>17 DEF RefreshFindsProjectGone, LeaseNext, LeaseStep
<1>18. ASSUME NEW w \in Workers, RefreshFails(w) PROVE [LeaseNext]_leaseVars
  BY <1>18 DEF RefreshFails, LeaseNext, LeaseStep
<1>19. ASSUME NEW w \in Workers, UpdateCleanupRecipe(w) PROVE [LeaseNext]_leaseVars
  BY <1>19 DEF UpdateCleanupRecipe, LeaseNext, LeaseStep
<1>20. ASSUME NEW w \in Workers, UpdateCleanupRecipeFails(w) PROVE [LeaseNext]_leaseVars
  BY <1>20 DEF UpdateCleanupRecipeFails, LeaseNext, LeaseStep
<1>21. ASSUME NEW w \in Workers, StoreDelete(w) PROVE [LeaseNext]_leaseVars
  BY <1>21 DEF StoreDelete
<1>22. ASSUME NEW w \in Workers, StoreFindsNothing(w) PROVE [LeaseNext]_leaseVars
  BY <1>22 DEF StoreFindsNothing
<1>23. ASSUME NEW w \in Workers, ResolveStoreError(w) PROVE [LeaseNext]_leaseVars
  BY <1>23 DEF ResolveStoreError
<1>24. ASSUME NEW w \in Workers, CancelStop(w) PROVE [LeaseNext]_leaseVars
  BY <1>24 DEF CancelStop, LeaseNext, LeaseStep
<1>25. ASSUME NEW w \in Workers, CancelStopAgain(w) PROVE [LeaseNext]_leaseVars
  BY <1>25 DEF CancelStopAgain
<1>26. ASSUME NEW w \in Workers, RetainStop(w) PROVE [LeaseNext]_leaseVars
  BY <1>26 DEF RetainStop, LeaseNext, LeaseStep
<1>27. ASSUME NEW w \in Workers, FinishStop(w) PROVE [LeaseNext]_leaseVars
  BY <1>27 DEF FinishStop, LeaseNext, LeaseStep
<1>28. ASSUME NEW w \in Workers, FinishStopFails(w) PROVE [LeaseNext]_leaseVars
  BY <1>28 DEF FinishStopFails
<1>29. ASSUME NEW w \in Workers, FinishSweep(w) PROVE [LeaseNext]_leaseVars
  BY <1>29 DEF FinishSweep
<1>30. ASSUME NEW w \in Workers, FinishRelease(w) PROVE [LeaseNext]_leaseVars
  BY <1>30 DEF FinishRelease, LeaseNext, LeaseStep
<1>31. ASSUME NEW w \in Workers, LockForMutation(w) PROVE [LeaseNext]_leaseVars
  BY <1>31 DEF LockForMutation
<1>32. ASSUME NEW w \in Workers, StillActive(w) PROVE [LeaseNext]_leaseVars
  BY <1>32 DEF StillActive
<1>33. ASSUME NEW w \in Workers, CloseInactive(w) PROVE [LeaseNext]_leaseVars
  BY <1>33 DEF CloseInactive
<1>34. ASSUME NEW w \in Workers, StoreSettled(w) PROVE [LeaseNext]_leaseVars
  BY <1>34 DEF StoreSettled
<1>35. ASSUME NEW w \in Workers, StoreSettledFails(w) PROVE [LeaseNext]_leaseVars
  BY <1>35 DEF StoreSettledFails
<1>36. ASSUME NEW w \in Workers, KillSessions(w) PROVE [LeaseNext]_leaseVars
  BY <1>36 DEF KillSessions
<1>37. ASSUME NEW w \in Workers, OpenReadProject(w) PROVE [LeaseNext]_leaseVars
  BY <1>37 DEF OpenReadProject
<1>38. ASSUME NEW w \in Workers, OpenReadThread(w) PROVE [LeaseNext]_leaseVars
  BY <1>38 DEF OpenReadThread
<1>39. ASSUME NEW w \in Workers, OpenReadStore(w) PROVE [LeaseNext]_leaseVars
  BY <1>39 DEF OpenReadStore
<1>40. ASSUME NEW w \in Workers, OpenCreate(w) PROVE [LeaseNext]_leaseVars
  BY <1>40 DEF OpenCreate
<1>41. ASSUME NEW w \in Workers, FenceReadProject(w) PROVE [LeaseNext]_leaseVars
  BY <1>41 DEF FenceReadProject
<1>42. ASSUME NEW w \in Workers, FenceReadThread(w) PROVE [LeaseNext]_leaseVars
  BY <1>42 DEF FenceReadThread
<1>43. ASSUME NEW w \in Workers, NEW r \in Refs, StopConflict(w, r) PROVE [LeaseNext]_leaseVars
  BY <1>43 DEF StopConflict, LeaseNext, LeaseStep
<1>44. ASSUME NEW w \in Workers, NEW r \in Refs, ReadThreadMarker(w, r) PROVE [LeaseNext]_leaseVars
  BY <1>44 DEF ReadThreadMarker, LeaseNext, LeaseStep
<1>45. ASSUME NEW w \in Workers, NEW r \in Refs, RecoverMarker(w, r) PROVE [LeaseNext]_leaseVars
  BY <1>45 DEF RecoverMarker, LeaseNext, LeaseStep
<1>46. ASSUME NEW w \in Workers, NEW r \in Refs, SkipMarker(w, r) PROVE [LeaseNext]_leaseVars
  BY <1>46 DEF SkipMarker
<1>47. ASSUME NEW w \in Workers, RetainAmbiguous(w) PROVE [LeaseNext]_leaseVars
  BY <1>47 DEF RetainAmbiguous, EndRecovery, LeaseNext, LeaseStep
<1>48. ASSUME NEW w \in Workers, CommitRecovered(w) PROVE [LeaseNext]_leaseVars
  BY <1>48 DEF CommitRecovered, LeaseNext, LeaseStep
<1>49. ASSUME NEW w \in Workers, RecoveryFails(w) PROVE [LeaseNext]_leaseVars
  BY <1>49 DEF RecoveryFails, EndRecovery, LeaseNext, LeaseStep
<1>50. ASSUME NEW w \in Workers, RecoverSweep(w) PROVE [LeaseNext]_leaseVars
  BY <1>50 DEF RecoverSweep, EndRecovery, LeaseNext, LeaseStep
<1>51. ASSUME NEW w \in Workers, Recovered(w) PROVE [LeaseNext]_leaseVars
  BY <1>51 DEF Recovered
<1>52. ASSUME NEW p \in Processes, Crash(p) PROVE [LeaseNext]_leaseVars
  BY <1>52 DEF Crash, Local, LeaseNext
<1>53. ASSUME NEW p \in Processes, Boot(p) PROVE [LeaseNext]_leaseVars
  BY <1>53 DEF Boot
<1> QED
  BY <1>1, <1>2, <1>3, <1>4, <1>5, <1>6, <1>7, <1>8, <1>9, <1>10, <1>11, <1>12, <1>13, <1>14,
     <1>15, <1>16, <1>17, <1>18, <1>19, <1>20, <1>21, <1>22, <1>23, <1>24, <1>25, <1>26, <1>27,
     <1>28, <1>29, <1>30, <1>31, <1>32, <1>33, <1>34, <1>35, <1>36, <1>37, <1>38, <1>39, <1>40,
     <1>41, <1>42, <1>43, <1>44, <1>45, <1>46, <1>47, <1>48, <1>49, <1>50, <1>51, <1>52, <1>53
     DEF Next, Ask, Work

-----------------------------------------------------------------------------
\* What is on disk and what processes keep in memory is well formed.
DiskTypes ==
    /\ stored \subseteq Refs /\ born \subseteq Threads
    /\ settled \subseteq Threads /\ sessions \subseteq Threads
    /\ StoredThreads # {} => Project \in stored
ProcTypes ==
    /\ up \subseteq Processes
    /\ sessionMu \in [Processes -> Workers \union {Nobody}]
    /\ stopping \in [Processes -> SUBSET Refs]
    /\ acts \in [Workers -> 0..MaxActs] /\ troubles \in 0..MaxTroubles
AllTypes == ScopeInv /\ DiskTypes /\ ProcTypes

LEMMA TypesStep == ASSUME AllTypes, [Next]_vars PROVE DiskTypes' /\ ProcTypes'
<1> USE TerminalStopAssumption, ProjectAssumption DEF ScopeInv, ScopedJobs, Refs, StoredThreads
<1>1. CASE UNCHANGED vars
  BY <1>1 DEF vars, diskVars, procVars, boundVars, AllTypes, DiskTypes, ProcTypes
<1>2. ASSUME NEW w \in Workers, AskDeleteProject(w) PROVE DiskTypes' /\ ProcTypes'
  BY <1>2 DEF AllTypes, DiskTypes, ProcTypes, AskDeleteProject, Ready, diskVars
<1>3. ASSUME NEW w \in Workers, NEW t \in Threads, AskDeleteThread(w, t) PROVE DiskTypes' /\ ProcTypes'
  BY <1>3 DEF AllTypes, DiskTypes, ProcTypes, AskDeleteThread, Ready, diskVars
<1>4. ASSUME NEW w \in Workers, NEW t \in Threads, AskClose(w, t) PROVE DiskTypes' /\ ProcTypes'
  BY <1>4 DEF AllTypes, DiskTypes, ProcTypes, AskClose, Ready, diskVars
<1>5. ASSUME NEW w \in Workers, NEW t \in Threads, AskSettle(w, t) PROVE DiskTypes' /\ ProcTypes'
  BY <1>5 DEF AllTypes, DiskTypes, ProcTypes, AskSettle, Ready, diskVars
<1>6. ASSUME NEW w \in Workers, NEW t \in Threads, Unsettle(w, t) PROVE DiskTypes' /\ ProcTypes'
  BY <1>6 DEF AllTypes, DiskTypes, ProcTypes, Unsettle, Ready, procVars
<1>7. ASSUME NEW w \in Workers, NEW t \in Threads, AskOpen(w, t) PROVE DiskTypes' /\ ProcTypes'
  BY <1>7 DEF AllTypes, DiskTypes, ProcTypes, AskOpen, Ready, diskVars
<1>8. ASSUME NEW w \in Workers, NEW t \in Threads, AddThread(w, t) PROVE DiskTypes' /\ ProcTypes'
  BY <1>8 DEF AllTypes, DiskTypes, ProcTypes, AddThread, Ready, procVars
<1>9. ASSUME NEW w \in Workers, StopThreadRefused(w) PROVE DiskTypes' /\ ProcTypes'
  BY <1>9 DEF AllTypes, DiskTypes, ProcTypes, StopThreadRefused, LockFree, diskVars, boundVars
<1>10. ASSUME NEW w \in Workers, StopThread(w) PROVE DiskTypes' /\ ProcTypes'
  BY <1>10 DEF AllTypes, DiskTypes, ProcTypes, StopThread, Lock, LockFree, diskVars, boundVars
<1>11. ASSUME NEW w \in Workers, TakeMarker(w) PROVE DiskTypes' /\ ProcTypes'
  BY <1>11 DEF AllTypes, DiskTypes, ProcTypes, TakeMarker, diskVars, procVars, boundVars
<1>12. ASSUME NEW w \in Workers, MarkerTaken(w) PROVE DiskTypes' /\ ProcTypes'
  BY <1>12 DEF AllTypes, DiskTypes, ProcTypes, MarkerTaken, Unlock, diskVars, boundVars
<1>13. ASSUME NEW w \in Workers, ThreadStopGranted(w) PROVE DiskTypes' /\ ProcTypes'
  BY <1>13, JobIs DEF AllTypes, DiskTypes, ProcTypes, ThreadStopGranted, Mark, Unlock, diskVars,
         boundVars
<1>14. ASSUME NEW w \in Workers, StopProjectRefused(w) PROVE DiskTypes' /\ ProcTypes'
  BY <1>14
     DEF AllTypes, DiskTypes, ProcTypes, StopProjectRefused, LockFree, Scope, diskVars,
         boundVars
<1>15. ASSUME NEW w \in Workers, StopProject(w) PROVE DiskTypes' /\ ProcTypes'
  BY <1>15 DEF AllTypes, DiskTypes, ProcTypes, StopProject, Scope, Lock, LockFree, boundVars
<1>16. ASSUME NEW w \in Workers, RefreshProject(w) PROVE DiskTypes' /\ ProcTypes'
  BY <1>16 DEF AllTypes, DiskTypes, ProcTypes, RefreshProject, Mark, diskVars, boundVars
<1>17. ASSUME NEW w \in Workers, RefreshFindsProjectGone(w) PROVE DiskTypes' /\ ProcTypes'
  BY <1>17, JobIs DEF AllTypes, DiskTypes, ProcTypes, RefreshFindsProjectGone, Mark, Scope, Fail,
         Unlock, diskVars
<1>18. ASSUME NEW w \in Workers, RefreshFails(w) PROVE DiskTypes' /\ ProcTypes'
  BY <1>18 DEF AllTypes, DiskTypes, ProcTypes, RefreshFails, Fail, Unlock, diskVars
<1>19. ASSUME NEW w \in Workers, UpdateCleanupRecipe(w) PROVE DiskTypes' /\ ProcTypes'
  BY <1>19, JobIs DEF AllTypes, DiskTypes, ProcTypes, UpdateCleanupRecipe, Unmark, Mark, Unlock,
         boundVars
<1>20. ASSUME NEW w \in Workers, UpdateCleanupRecipeFails(w) PROVE DiskTypes' /\ ProcTypes'
  BY <1>20
     DEF AllTypes, DiskTypes, ProcTypes, UpdateCleanupRecipeFails, Fail, Unmark, Unlock,
         diskVars
<1>21. ASSUME NEW w \in Workers, StoreDelete(w) PROVE DiskTypes' /\ ProcTypes'
  BY <1>21 DEF AllTypes, DiskTypes, ProcTypes, StoreDelete, Removed, Fail
<1>22. ASSUME NEW w \in Workers, StoreFindsNothing(w) PROVE DiskTypes' /\ ProcTypes'
  BY <1>22 DEF AllTypes, DiskTypes, ProcTypes, StoreFindsNothing, diskVars, boundVars
<1>23. ASSUME NEW w \in Workers, ResolveStoreError(w) PROVE DiskTypes' /\ ProcTypes'
  BY <1>23 DEF AllTypes, DiskTypes, ProcTypes, ResolveStoreError, Fail, diskVars
<1>24. ASSUME NEW w \in Workers, CancelStop(w) PROVE DiskTypes' /\ ProcTypes'
  BY <1>24 DEF AllTypes, DiskTypes, ProcTypes, CancelStop, LockFree, Unmark, Scope, Fail, diskVars
<1>25. ASSUME NEW w \in Workers, CancelStopAgain(w) PROVE DiskTypes' /\ ProcTypes'
  BY <1>25
     DEF AllTypes, DiskTypes, ProcTypes, CancelStopAgain, LockFree, Unmark, diskVars,
         boundVars
<1>26. ASSUME NEW w \in Workers, RetainStop(w) PROVE DiskTypes' /\ ProcTypes'
  BY <1>26
     DEF AllTypes, DiskTypes, ProcTypes, RetainStop, LockFree, Unmark, Scope, diskVars,
         boundVars
<1>27. ASSUME NEW w \in Workers, FinishStop(w) PROVE DiskTypes' /\ ProcTypes'
  BY <1>27 DEF AllTypes, DiskTypes, ProcTypes, FinishStop, Lock, LockFree, diskVars, boundVars
<1>28. ASSUME NEW w \in Workers, FinishStopFails(w) PROVE DiskTypes' /\ ProcTypes'
  BY <1>28
     DEF AllTypes, DiskTypes, ProcTypes, FinishStopFails, LockFree, Fail, Unmark, Scope,
         diskVars
<1>29. ASSUME NEW w \in Workers, FinishSweep(w) PROVE DiskTypes' /\ ProcTypes'
  BY <1>29 DEF AllTypes, DiskTypes, ProcTypes, FinishSweep, Sweep, Kill, Fail, Unmark, Scope, Unlock
<1>30. ASSUME NEW w \in Workers, FinishRelease(w) PROVE DiskTypes' /\ ProcTypes'
  BY <1>30 DEF AllTypes, DiskTypes, ProcTypes, FinishRelease, diskVars, boundVars
<1>31. ASSUME NEW w \in Workers, LockForMutation(w) PROVE DiskTypes' /\ ProcTypes'
  BY <1>31 DEF AllTypes, DiskTypes, ProcTypes, LockForMutation, Lock, LockFree, diskVars, boundVars
<1>32. ASSUME NEW w \in Workers, StillActive(w) PROVE DiskTypes' /\ ProcTypes'
  BY <1>32 DEF AllTypes, DiskTypes, ProcTypes, StillActive, Unlock, diskVars, boundVars
<1>33. ASSUME NEW w \in Workers, CloseInactive(w) PROVE DiskTypes' /\ ProcTypes'
  BY <1>33 DEF AllTypes, DiskTypes, ProcTypes, CloseInactive, boundVars
<1>34. ASSUME NEW w \in Workers, StoreSettled(w) PROVE DiskTypes' /\ ProcTypes'
  BY <1>34 DEF AllTypes, DiskTypes, ProcTypes, StoreSettled, boundVars, At, ThreadStops
<1>35. ASSUME NEW w \in Workers, StoreSettledFails(w) PROVE DiskTypes' /\ ProcTypes'
  BY <1>35 DEF AllTypes, DiskTypes, ProcTypes, StoreSettledFails, Fail, Unlock, At, ThreadStops
<1>36. ASSUME NEW w \in Workers, KillSessions(w) PROVE DiskTypes' /\ ProcTypes'
  BY <1>36 DEF AllTypes, DiskTypes, ProcTypes, KillSessions, Sweep, Kill, Fail, Unlock
<1>37. ASSUME NEW w \in Workers, OpenReadProject(w) PROVE DiskTypes' /\ ProcTypes'
  BY <1>37 DEF AllTypes, DiskTypes, ProcTypes, OpenReadProject, OpenRefused, Unlock, boundVars
<1>38. ASSUME NEW w \in Workers, OpenReadThread(w) PROVE DiskTypes' /\ ProcTypes'
  BY <1>38 DEF AllTypes, DiskTypes, ProcTypes, OpenReadThread, OpenRefused, Unlock, boundVars
<1>39. ASSUME NEW w \in Workers, OpenReadStore(w) PROVE DiskTypes' /\ ProcTypes'
  BY <1>39 DEF AllTypes, DiskTypes, ProcTypes, OpenReadStore, Unlock, OpenRefused, boundVars
<1>40. ASSUME NEW w \in Workers, OpenCreate(w) PROVE DiskTypes' /\ ProcTypes'
  BY <1>40 DEF AllTypes, DiskTypes, ProcTypes, OpenCreate, Fail, At
<1>41. ASSUME NEW w \in Workers, FenceReadProject(w) PROVE DiskTypes' /\ ProcTypes'
  BY <1>41 DEF AllTypes, DiskTypes, ProcTypes, FenceReadProject, Lock, LockFree, diskVars, boundVars
<1>42. ASSUME NEW w \in Workers, FenceReadThread(w) PROVE DiskTypes' /\ ProcTypes'
  BY <1>42 DEF AllTypes, DiskTypes, ProcTypes, FenceReadThread, Sweep, Kill, Fail, Unlock
<1>43. ASSUME NEW w \in Workers, NEW r \in Refs, StopConflict(w, r) PROVE DiskTypes' /\ ProcTypes'
  BY <1>43 DEF AllTypes, DiskTypes, ProcTypes, StopConflict, Unmark, Unlock, diskVars, boundVars
<1>44. ASSUME NEW w \in Workers, NEW r \in Refs, ReadThreadMarker(w, r) PROVE DiskTypes' /\ ProcTypes'
  BY <1>44 DEF AllTypes, DiskTypes, ProcTypes, ReadThreadMarker, diskVars, procVars, boundVars
<1>45. ASSUME NEW w \in Workers, NEW r \in Refs, RecoverMarker(w, r) PROVE DiskTypes' /\ ProcTypes'
  BY <1>45 DEF AllTypes, DiskTypes, ProcTypes, RecoverMarker, Lock, LockFree, diskVars, boundVars
<1>46. ASSUME NEW w \in Workers, NEW r \in Refs, SkipMarker(w, r) PROVE DiskTypes' /\ ProcTypes'
  BY <1>46 DEF AllTypes, DiskTypes, ProcTypes, SkipMarker, LockFree, diskVars, boundVars
<1>47. ASSUME NEW w \in Workers, RetainAmbiguous(w) PROVE DiskTypes' /\ ProcTypes'
  BY <1>47
     DEF AllTypes, DiskTypes, ProcTypes, RetainAmbiguous, Unmark, Cleared, EndRecovery,
         Unlock,
         diskVars, boundVars
<1>48. ASSUME NEW w \in Workers, CommitRecovered(w) PROVE DiskTypes' /\ ProcTypes'
  BY <1>48 DEF AllTypes, DiskTypes, ProcTypes, CommitRecovered, diskVars, boundVars
<1>49. ASSUME NEW w \in Workers, RecoveryFails(w) PROVE DiskTypes' /\ ProcTypes'
  BY <1>49 DEF AllTypes, DiskTypes, ProcTypes, RecoveryFails, Fail, EndRecovery, Unlock, diskVars
<1>50. ASSUME NEW w \in Workers, RecoverSweep(w) PROVE DiskTypes' /\ ProcTypes'
  BY <1>50 DEF AllTypes, DiskTypes, ProcTypes, RecoverSweep, Sweep, Kill, Fail, Unmark, Cleared,
         EndRecovery, Unlock
<1>51. ASSUME NEW w \in Workers, Recovered(w) PROVE DiskTypes' /\ ProcTypes'
  BY <1>51 DEF AllTypes, DiskTypes, ProcTypes, Recovered, diskVars, boundVars
<1>52. ASSUME NEW p \in Processes, Crash(p) PROVE DiskTypes' /\ ProcTypes'
  BY <1>52 DEF AllTypes, DiskTypes, ProcTypes, Crash, Fail, Local
<1>53. ASSUME NEW p \in Processes, Boot(p) PROVE DiskTypes' /\ ProcTypes'
  BY <1>53 DEF AllTypes, DiskTypes, ProcTypes, Boot, Local, diskVars, boundVars
<1> QED
  BY <1>1, <1>2, <1>3, <1>4, <1>5, <1>6, <1>7, <1>8, <1>9, <1>10, <1>11, <1>12, <1>13, <1>14,
     <1>15, <1>16, <1>17, <1>18, <1>19, <1>20, <1>21, <1>22, <1>23, <1>24, <1>25, <1>26, <1>27,
     <1>28, <1>29, <1>30, <1>31, <1>32, <1>33, <1>34, <1>35, <1>36, <1>37, <1>38, <1>39, <1>40,
     <1>41, <1>42, <1>43, <1>44, <1>45, <1>46, <1>47, <1>48, <1>49, <1>50, <1>51, <1>52, <1>53
     DEF Next, Ask, Work

-----------------------------------------------------------------------------
\* A thread's flock is held by exactly the requests between taking and dropping it.
Holding == {"kill", "readThread", "readStore", "create"}
Held ==
    /\ mutation \in [Threads -> Workers \union {Nobody}]
    /\ \A t \in Threads : mutation[t] # Nobody =>
          job[mutation[t]].ref = t /\ job[mutation[t]].at \in Holding
    /\ \A w \in Workers : job[w].at \in Holding =>
          job[w].ref \in Threads /\ mutation[job[w].ref] = w

\* The worker holds no flock, before or after.
LEMMA HeldByOthers ==
    ASSUME Held, NEW w \in Workers, \A v \in Workers \ {w} : job'[v] = job[v],
           job[w].at \notin Holding, job'[w].at \notin Holding, mutation' = mutation
    PROVE  Held'
BY TerminalStopAssumption DEF Held

LEMMA HeldTaken ==
    ASSUME Held, NEW w \in Workers, \A v \in Workers \ {w} : job'[v] = job[v],
           job[w].at \notin Holding, job'[w].at \in Holding,
           job'[w].ref = job[w].ref, job[w].ref \in Threads, TakeMutation(w)
    PROVE  Held'
BY TerminalStopAssumption DEF Held, TakeMutation

LEMMA HeldOn ==
    ASSUME Held, NEW w \in Workers, \A v \in Workers \ {w} : job'[v] = job[v],
           job[w].at \in Holding, job'[w].at \in Holding,
           job'[w].ref = job[w].ref, mutation' = mutation
    PROVE  Held'
BY TerminalStopAssumption DEF Held

LEMMA HeldDropped ==
    ASSUME Held, NEW w \in Workers, \A v \in Workers \ {w} : job'[v] = job[v],
           job[w].at \in Holding, job'[w].at \notin Holding, DropMutation(w)
    PROVE  Held'
BY TerminalStopAssumption DEF Held, DropMutation

LEMMA HeldStep == ASSUME ScopeInv, Held, [Next]_vars PROVE Held'
<1> USE DEF ScopeInv
<1>1. CASE UNCHANGED vars
  BY <1>1 DEF vars, diskVars, procVars, Held
<1>2. ASSUME NEW w \in Workers, AskDeleteProject(w) PROVE Held'
  BY <1>2, HeldByOthers, BeginMoves, JobIs
     DEF AskDeleteProject, Holding, diskVars, Ready
<1>3. ASSUME NEW w \in Workers, NEW t \in Threads, AskDeleteThread(w, t) PROVE Held'
  BY <1>3, HeldByOthers, BeginMoves, JobIs
     DEF AskDeleteThread, Holding, diskVars, Ready
<1>4. ASSUME NEW w \in Workers, NEW t \in Threads, AskClose(w, t) PROVE Held'
  BY <1>4, HeldByOthers, BeginMoves, JobIs
     DEF AskClose, Holding, diskVars, Ready
<1>5. ASSUME NEW w \in Workers, NEW t \in Threads, AskSettle(w, t) PROVE Held'
  BY <1>5, HeldByOthers, BeginMoves, JobIs
     DEF AskSettle, Holding, diskVars, Ready
<1>6. ASSUME NEW w \in Workers, NEW t \in Threads, Unsettle(w, t) PROVE Held'
  BY <1>6 DEF Unsettle, Held, diskVars, procVars
<1>7. ASSUME NEW w \in Workers, NEW t \in Threads, AskOpen(w, t) PROVE Held'
  BY <1>7, HeldByOthers, BeginMoves, JobIs
     DEF AskOpen, Holding, diskVars, Ready
<1>8. ASSUME NEW w \in Workers, NEW t \in Threads, AddThread(w, t) PROVE Held'
  BY <1>8 DEF AddThread, Held, diskVars, procVars
<1>9. ASSUME NEW w \in Workers, StopThreadRefused(w) PROVE Held'
  BY <1>9, HeldByOthers, ReplyMoves
     DEF StopThreadRefused, Holding, diskVars, AtAny
<1>10. ASSUME NEW w \in Workers, StopThread(w) PROVE Held'
  BY <1>10, HeldByOthers, GotoMoves
     DEF StopThread, Holding, diskVars, AtAny
<1>11. ASSUME NEW w \in Workers, TakeMarker(w) PROVE Held'
  BY <1>11 DEF TakeMarker, Held, diskVars, procVars
<1>12. ASSUME NEW w \in Workers, MarkerTaken(w) PROVE Held'
  BY <1>12, HeldByOthers, ReplyMoves
     DEF MarkerTaken, Holding, diskVars, AtAny
<1>13. ASSUME NEW w \in Workers, ThreadStopGranted(w) PROVE Held'
  BY <1>13, HeldByOthers, GotoMoves
     DEF ThreadStopGranted, Holding, diskVars, AfterThreadStop, AtAny
<1>14. ASSUME NEW w \in Workers, StopProjectRefused(w) PROVE Held'
  BY <1>14, HeldByOthers, ReplyMoves
     DEF StopProjectRefused, Holding, diskVars, At
<1>15. ASSUME NEW w \in Workers, StopProject(w) PROVE Held'
  BY <1>15, HeldByOthers, GotoMoves
     DEF StopProject, Holding, diskVars, At
<1>16. ASSUME NEW w \in Workers, RefreshProject(w) PROVE Held'
  BY <1>16, HeldByOthers, ReadsMoves
     DEF RefreshProject, Holding, diskVars, At
<1>17. ASSUME NEW w \in Workers, RefreshFindsProjectGone(w) PROVE Held'
  BY <1>17, HeldByOthers, GotoMoves, ReplyMoves
     DEF RefreshFindsProjectGone, Holding, diskVars, At
<1>18. ASSUME NEW w \in Workers, RefreshFails(w) PROVE Held'
  BY <1>18, HeldByOthers, ReplyMoves
     DEF RefreshFails, Holding, diskVars, At
<1>19. ASSUME NEW w \in Workers, UpdateCleanupRecipe(w) PROVE Held'
  BY <1>19, HeldByOthers, GotoMoves, ReplyMoves
     DEF UpdateCleanupRecipe, Holding, diskVars, At
<1>20. ASSUME NEW w \in Workers, UpdateCleanupRecipeFails(w) PROVE Held'
  BY <1>20, HeldByOthers, ReplyMoves
     DEF UpdateCleanupRecipeFails, Holding, diskVars, At
<1>21. ASSUME NEW w \in Workers, StoreDelete(w) PROVE Held'
  BY <1>21, HeldByOthers, GotoMoves
     DEF StoreDelete, Holding, diskVars, AtAny
<1>22. ASSUME NEW w \in Workers, StoreFindsNothing(w) PROVE Held'
  BY <1>22, HeldByOthers, GotoMoves
     DEF StoreFindsNothing, Holding, diskVars, AtAny
<1>23. ASSUME NEW w \in Workers, ResolveStoreError(w) PROVE Held'
  BY <1>23, HeldByOthers, GotoMoves
     DEF ResolveStoreError, Holding, diskVars, AtAny
<1>24. ASSUME NEW w \in Workers, CancelStop(w) PROVE Held'
  BY <1>24, HeldByOthers, GotoMoves, ReplyMoves
     DEF CancelStop, Holding, diskVars, AfterUnstop
<1>25. ASSUME NEW w \in Workers, CancelStopAgain(w) PROVE Held'
  BY <1>25, HeldByOthers, ReplyMoves
     DEF CancelStopAgain, Holding, diskVars
<1>26. ASSUME NEW w \in Workers, RetainStop(w) PROVE Held'
  BY <1>26, HeldByOthers, GotoMoves, ReplyMoves
     DEF RetainStop, Holding, diskVars, AfterUnstop
<1>27. ASSUME NEW w \in Workers, FinishStop(w) PROVE Held'
  BY <1>27, HeldByOthers, GotoMoves
     DEF FinishStop, Holding, diskVars, AtAny
<1>28. ASSUME NEW w \in Workers, FinishStopFails(w) PROVE Held'
  BY <1>28, HeldByOthers, GotoMoves
     DEF FinishStopFails, Holding, diskVars, AtAny
<1>29. ASSUME NEW w \in Workers, FinishSweep(w) PROVE Held'
  BY <1>29, HeldByOthers, GotoMoves
     DEF FinishSweep, Holding, diskVars, AtAny
<1>30. ASSUME NEW w \in Workers, FinishRelease(w) PROVE Held'
  BY <1>30, HeldByOthers, ReplyMoves
     DEF FinishRelease, Holding, diskVars, AtAny
<1>31. ASSUME NEW w \in Workers, LockForMutation(w) PROVE Held'
  BY <1>31, HeldByOthers, GotoMoves
     DEF LockForMutation, Holding, diskVars, AtAny, At
<1>32. ASSUME NEW w \in Workers, StillActive(w) PROVE Held'
  BY <1>32, HeldByOthers, GotoMoves
     DEF StillActive, Holding, diskVars, AtAny
<1>33. ASSUME NEW w \in Workers, CloseInactive(w) PROVE Held'
  BY <1>33, HeldTaken, GotoMoves DEF CloseInactive, At, Holding, ThreadStops, ScopedJobs
<1>34. ASSUME NEW w \in Workers, StoreSettled(w) PROVE Held'
  BY <1>34, HeldTaken, GotoMoves DEF StoreSettled, At, Holding, ThreadStops, ScopedJobs
<1>35. ASSUME NEW w \in Workers, StoreSettledFails(w) PROVE Held'
  BY <1>35, HeldByOthers, GotoMoves
     DEF StoreSettledFails, Holding, diskVars, At
<1>36. ASSUME NEW w \in Workers, KillSessions(w) PROVE Held'
  BY <1>36, HeldDropped, GotoMoves DEF KillSessions, AtAny, Holding
<1>37. ASSUME NEW w \in Workers, OpenReadProject(w) PROVE Held'
  <2>1. At(w, "open", "wait") /\ job[w].ref \in Threads /\ mutation[job[w].ref] = Nobody
    BY <1>37 DEF OpenReadProject, At, ScopedJobs
  <2>2. CASE OpenRefused(w)
    <3>1. mutation' = mutation
      BY <2>1, <2>2 DEF OpenRefused, DropMutation, Held
    <3> QED BY <2>1, <2>2, <3>1, HeldByOthers, ReplyMoves DEF OpenRefused, At, Holding
  <2>3. CASE TakeMutation(w) /\ Goto(w, "readThread")
    BY <2>1, <2>3, HeldTaken, GotoMoves DEF At, Holding
  <2> QED BY <1>37, <2>2, <2>3 DEF OpenReadProject
<1>38. ASSUME NEW w \in Workers, OpenReadThread(w) PROVE Held'
  BY <1>38, HeldOn, HeldDropped, GotoMoves, ReplyMoves DEF OpenReadThread, OpenRefused, At, Holding
<1>39. ASSUME NEW w \in Workers, OpenReadStore(w) PROVE Held'
  BY <1>39, HeldOn, HeldDropped, GotoMoves, ReplyMoves DEF OpenReadStore, OpenRefused, At, Holding
<1>40. ASSUME NEW w \in Workers, OpenCreate(w) PROVE Held'
  BY <1>40, HeldDropped, GotoMoves DEF OpenCreate, At, Holding
<1>41. ASSUME NEW w \in Workers, FenceReadProject(w) PROVE Held'
  BY <1>41, HeldByOthers, ReadsMoves
     DEF FenceReadProject, Holding, diskVars, Observed, At
<1>42. ASSUME NEW w \in Workers, FenceReadThread(w) PROVE Held'
  BY <1>42, HeldByOthers, ReplyMoves
     DEF FenceReadThread, Holding, diskVars
<1>43. ASSUME NEW w \in Workers, NEW r \in Refs, StopConflict(w, r) PROVE Held'
  BY <1>43, HeldByOthers, ReplyMoves
     DEF StopConflict, Holding, diskVars
<1>44. ASSUME NEW w \in Workers, NEW r \in Refs, ReadThreadMarker(w, r) PROVE Held'
  BY <1>44 DEF ReadThreadMarker, Held, diskVars, procVars
<1>45. ASSUME NEW w \in Workers, NEW r \in Refs, RecoverMarker(w, r) PROVE Held'
  BY <1>45, HeldByOthers, ReadsMoves
     DEF RecoverMarker, Holding, diskVars
<1>46. ASSUME NEW w \in Workers, NEW r \in Refs, SkipMarker(w, r) PROVE Held'
  BY <1>46, HeldByOthers, ReadsMoves
     DEF SkipMarker, Holding, diskVars
<1>47. ASSUME NEW w \in Workers, RetainAmbiguous(w) PROVE Held'
  BY <1>47, HeldByOthers, GotoMoves
     DEF RetainAmbiguous, Holding, diskVars, EndRecovery
<1>48. ASSUME NEW w \in Workers, CommitRecovered(w) PROVE Held'
  BY <1>48, HeldByOthers, GotoMoves
     DEF CommitRecovered, Holding, diskVars
<1>49. ASSUME NEW w \in Workers, RecoveryFails(w) PROVE Held'
  BY <1>49, HeldByOthers, GotoMoves
     DEF RecoveryFails, Holding, diskVars, EndRecovery
<1>50. ASSUME NEW w \in Workers, RecoverSweep(w) PROVE Held'
  BY <1>50, HeldByOthers, GotoMoves
     DEF RecoverSweep, Holding, diskVars, EndRecovery
<1>51. ASSUME NEW w \in Workers, Recovered(w) PROVE Held'
  BY <1>51, HeldByOthers, ReplyMoves
     DEF Recovered, Holding, diskVars
<1>52. ASSUME NEW p \in Processes, Crash(p) PROVE Held'
  <2>1. \A v \in Workers : job'[v] = IF v \in Local(p) THEN NoJob ELSE job[v]
    BY <1>52 DEF Crash
  <2>2. \A v \in Local(p) : job'[v].at \notin Holding
    BY <2>1 DEF NoJob, Holding, Local
  <2>3. \A t \in Threads : mutation'[t] = IF mutation[t] \in Local(p) THEN Nobody ELSE mutation[t]
    BY <1>52 DEF Crash
  <2>4. mutation' \in [Threads -> Workers \union {Nobody}]
    BY <1>52 DEF Crash, Held
  <2> QED BY <2>1, <2>2, <2>3, <2>4, TerminalStopAssumption DEF Held, Local
<1>53. ASSUME NEW p \in Processes, Boot(p) PROVE Held'
  <2> DEFINE w == CHOOSE v \in Local(p) : TRUE
             found == {r \in Refs : Found(r)}
  <2>1. /\ Begin(w, "boot", "recover", Project, found) /\ UNCHANGED mutation
        /\ w \in Workers /\ job[w].op = "none"
    BY <1>53, TerminalStopAssumption DEF Boot, Local, diskVars
  <2> HIDE DEF w, found
  <2> QED BY <2>1, JobIs, HeldByOthers, BeginMoves DEF Holding
<1> QED
  BY <1>1, <1>2, <1>3, <1>4, <1>5, <1>6, <1>7, <1>8, <1>9, <1>10, <1>11, <1>12, <1>13, <1>14,
     <1>15, <1>16, <1>17, <1>18, <1>19, <1>20, <1>21, <1>22, <1>23, <1>24, <1>25, <1>26, <1>27,
     <1>28, <1>29, <1>30, <1>31, <1>32, <1>33, <1>34, <1>35, <1>36, <1>37, <1>38, <1>39, <1>40,
     <1>41, <1>42, <1>43, <1>44, <1>45, <1>46, <1>47, <1>48, <1>49, <1>50, <1>51, <1>52, <1>53
     DEF Next, Ask, Work

-----------------------------------------------------------------------------
\* A process's sessionMu is held by exactly the request that entered it and has
\* not left it; only such a request waits for a flock.
UnderMu == {"begin", "recheck", "sweep", "wait", "kill", "readThread", "readStore",
            "fenceNone", "fencePending", "fenceCommitted", "recovered", "recoverSweep"}
Entered ==
    /\ sessionMu \in [Processes -> Workers \union {Nobody}]
    /\ \A p \in Processes : sessionMu[p] # Nobody =>
          Home[sessionMu[p]] = p /\ job[sessionMu[p]].at \in UnderMu
    /\ \A w \in Workers : job[w].at \in UnderMu => sessionMu[Home[w]] = w
    /\ \A w \in Workers : job[w].at = "wait" => job[w].ref \in Threads

\* The worker does not own sessionMu, before or after.
LEMMA EnteredByOthers ==
    ASSUME Entered, NEW w \in Workers, \A v \in Workers \ {w} : job'[v] = job[v],
           job[w].at \notin UnderMu, job'[w].at \notin UnderMu, sessionMu' = sessionMu
    PROVE  Entered'
BY TerminalStopAssumption DEF Entered, UnderMu

LEMMA EnteredTaken ==
    ASSUME Entered, NEW w \in Workers, \A v \in Workers \ {w} : job'[v] = job[v],
           job[w].at \notin UnderMu, job'[w].at \in UnderMu,
           job'[w].at = "wait" => job'[w].ref \in Threads, Lock(w)
    PROVE  Entered'
BY TerminalStopAssumption DEF Entered, Lock, LockFree

LEMMA EnteredOn ==
    ASSUME Entered, NEW w \in Workers, \A v \in Workers \ {w} : job'[v] = job[v],
           job[w].at \in UnderMu, job'[w].at \in UnderMu, job'[w].at # "wait",
           sessionMu' = sessionMu
    PROVE  Entered'
BY TerminalStopAssumption DEF Entered

LEMMA EnteredLeft ==
    ASSUME Entered, NEW w \in Workers, \A v \in Workers \ {w} : job'[v] = job[v],
           job[w].at \in UnderMu, job'[w].at \notin UnderMu, Unlock(w)
    PROVE  Entered'
<1>1. Home[w] \in Processes /\ \A v \in Workers : Home[v] \in Processes
  BY TerminalStopAssumption
<1>2. /\ sessionMu' \in [Processes -> Workers \union {Nobody}]
      /\ \A q \in Processes : sessionMu'[q] = IF q = Home[w] THEN Nobody ELSE sessionMu[q]
  BY <1>1 DEF Unlock, Entered
<1> QED BY <1>1, <1>2, TerminalStopAssumption DEF Entered, UnderMu

LEMMA EnteredStep == ASSUME ScopeInv, Entered, [Next]_vars PROVE Entered'
<1> USE DEF ScopeInv
<1>1. CASE UNCHANGED vars
  BY <1>1 DEF vars, procVars, Entered
<1>2. ASSUME NEW w \in Workers, AskDeleteProject(w) PROVE Entered'
  BY <1>2, EnteredByOthers, BeginMoves, JobIs
     DEF AskDeleteProject, UnderMu, Ready
<1>3. ASSUME NEW w \in Workers, NEW t \in Threads, AskDeleteThread(w, t) PROVE Entered'
  BY <1>3, EnteredByOthers, BeginMoves, JobIs
     DEF AskDeleteThread, UnderMu, Ready
<1>4. ASSUME NEW w \in Workers, NEW t \in Threads, AskClose(w, t) PROVE Entered'
  BY <1>4, EnteredByOthers, BeginMoves, JobIs
     DEF AskClose, UnderMu, Ready
<1>5. ASSUME NEW w \in Workers, NEW t \in Threads, AskSettle(w, t) PROVE Entered'
  BY <1>5, EnteredByOthers, BeginMoves, JobIs
     DEF AskSettle, UnderMu, Ready
<1>6. ASSUME NEW w \in Workers, NEW t \in Threads, Unsettle(w, t) PROVE Entered'
  BY <1>6 DEF Unsettle, Entered, procVars
<1>7. ASSUME NEW w \in Workers, NEW t \in Threads, AskOpen(w, t) PROVE Entered'
  BY <1>7, EnteredByOthers, BeginMoves, JobIs
     DEF AskOpen, UnderMu, Ready
<1>8. ASSUME NEW w \in Workers, NEW t \in Threads, AddThread(w, t) PROVE Entered'
  BY <1>8 DEF AddThread, Entered, procVars
<1>9. ASSUME NEW w \in Workers, StopThreadRefused(w) PROVE Entered'
  BY <1>9, EnteredByOthers, ReplyMoves
     DEF StopThreadRefused, UnderMu, AtAny
<1>10. ASSUME NEW w \in Workers, StopThread(w) PROVE Entered'
  BY <1>10, EnteredTaken, GotoMoves
     DEF StopThread, UnderMu, AtAny
<1>11. ASSUME NEW w \in Workers, TakeMarker(w) PROVE Entered'
  BY <1>11 DEF TakeMarker, Entered, procVars
<1>12. ASSUME NEW w \in Workers, MarkerTaken(w) PROVE Entered'
  BY <1>12, EnteredLeft, ReplyMoves
     DEF MarkerTaken, UnderMu, AtAny
<1>13. ASSUME NEW w \in Workers, ThreadStopGranted(w) PROVE Entered'
  BY <1>13, EnteredLeft, GotoMoves
     DEF ThreadStopGranted, UnderMu, AtAny, AfterThreadStop
<1>14. ASSUME NEW w \in Workers, StopProjectRefused(w) PROVE Entered'
  BY <1>14, EnteredByOthers, ReplyMoves
     DEF StopProjectRefused, UnderMu, At
<1>15. ASSUME NEW w \in Workers, StopProject(w) PROVE Entered'
  BY <1>15, EnteredTaken, GotoMoves
     DEF StopProject, UnderMu, At
<1>16. ASSUME NEW w \in Workers, RefreshProject(w) PROVE Entered'
  BY <1>16, EnteredOn, ReadsMoves
     DEF RefreshProject, UnderMu, At
<1>17. ASSUME NEW w \in Workers, RefreshFindsProjectGone(w) PROVE Entered'
  BY <1>17, EnteredLeft, GotoMoves, ReplyMoves
     DEF RefreshFindsProjectGone, UnderMu, At
<1>18. ASSUME NEW w \in Workers, RefreshFails(w) PROVE Entered'
  BY <1>18, EnteredLeft, ReplyMoves
     DEF RefreshFails, UnderMu, At
<1>19. ASSUME NEW w \in Workers, UpdateCleanupRecipe(w) PROVE Entered'
  BY <1>19, EnteredLeft, GotoMoves, ReplyMoves
     DEF UpdateCleanupRecipe, UnderMu, At
<1>20. ASSUME NEW w \in Workers, UpdateCleanupRecipeFails(w) PROVE Entered'
  BY <1>20, EnteredLeft, ReplyMoves
     DEF UpdateCleanupRecipeFails, UnderMu, At
<1>21. ASSUME NEW w \in Workers, StoreDelete(w) PROVE Entered'
  BY <1>21, EnteredByOthers, GotoMoves
     DEF StoreDelete, UnderMu, AtAny
<1>22. ASSUME NEW w \in Workers, StoreFindsNothing(w) PROVE Entered'
  BY <1>22, EnteredByOthers, GotoMoves
     DEF StoreFindsNothing, UnderMu, AtAny
<1>23. ASSUME NEW w \in Workers, ResolveStoreError(w) PROVE Entered'
  BY <1>23, EnteredByOthers, GotoMoves
     DEF ResolveStoreError, UnderMu, AtAny
<1>24. ASSUME NEW w \in Workers, CancelStop(w) PROVE Entered'
  BY <1>24, EnteredByOthers, GotoMoves, ReplyMoves
     DEF CancelStop, UnderMu, AfterUnstop
<1>25. ASSUME NEW w \in Workers, CancelStopAgain(w) PROVE Entered'
  BY <1>25, EnteredByOthers, ReplyMoves
     DEF CancelStopAgain, UnderMu
<1>26. ASSUME NEW w \in Workers, RetainStop(w) PROVE Entered'
  BY <1>26, EnteredByOthers, GotoMoves, ReplyMoves
     DEF RetainStop, UnderMu, AfterUnstop
<1>27. ASSUME NEW w \in Workers, FinishStop(w) PROVE Entered'
  BY <1>27, EnteredTaken, GotoMoves
     DEF FinishStop, UnderMu, AtAny
<1>28. ASSUME NEW w \in Workers, FinishStopFails(w) PROVE Entered'
  BY <1>28, EnteredByOthers, GotoMoves
     DEF FinishStopFails, UnderMu, AtAny
<1>29. ASSUME NEW w \in Workers, FinishSweep(w) PROVE Entered'
  BY <1>29, EnteredLeft, GotoMoves
     DEF FinishSweep, UnderMu, AtAny
<1>30. ASSUME NEW w \in Workers, FinishRelease(w) PROVE Entered'
  BY <1>30, EnteredByOthers, ReplyMoves
     DEF FinishRelease, UnderMu, AtAny
<1>31. ASSUME NEW w \in Workers, LockForMutation(w) PROVE Entered'
  BY <1>31, EnteredTaken, GotoMoves
     DEF LockForMutation, UnderMu, At, AtAny, FenceUsers, ThreadStops, ScopedJobs
<1>32. ASSUME NEW w \in Workers, StillActive(w) PROVE Entered'
  BY <1>32, EnteredLeft, GotoMoves
     DEF StillActive, UnderMu, AtAny
<1>33. ASSUME NEW w \in Workers, CloseInactive(w) PROVE Entered'
  BY <1>33, EnteredOn, GotoMoves
     DEF CloseInactive, UnderMu, At
<1>34. ASSUME NEW w \in Workers, StoreSettled(w) PROVE Entered'
  BY <1>34, EnteredOn, GotoMoves
     DEF StoreSettled, UnderMu, At
<1>35. ASSUME NEW w \in Workers, StoreSettledFails(w) PROVE Entered'
  BY <1>35, EnteredLeft, GotoMoves
     DEF StoreSettledFails, UnderMu, At
<1>36. ASSUME NEW w \in Workers, KillSessions(w) PROVE Entered'
  BY <1>36, EnteredLeft, GotoMoves
     DEF KillSessions, UnderMu, AtAny
<1>37. ASSUME NEW w \in Workers, OpenReadProject(w) PROVE Entered'
  BY <1>37, EnteredOn, EnteredLeft, GotoMoves, ReplyMoves DEF OpenReadProject, OpenRefused, At, UnderMu
<1>38. ASSUME NEW w \in Workers, OpenReadThread(w) PROVE Entered'
  BY <1>38, EnteredOn, EnteredLeft, GotoMoves, ReplyMoves DEF OpenReadThread, OpenRefused, At, UnderMu
<1>39. ASSUME NEW w \in Workers, OpenReadStore(w) PROVE Entered'
  BY <1>39, EnteredLeft, GotoMoves, ReplyMoves
     DEF OpenReadStore, UnderMu, At, OpenRefused
<1>40. ASSUME NEW w \in Workers, OpenCreate(w) PROVE Entered'
  BY <1>40, EnteredByOthers, GotoMoves
     DEF OpenCreate, UnderMu, At
<1>41. ASSUME NEW w \in Workers, FenceReadProject(w) PROVE Entered'
  BY <1>41, EnteredTaken, ReadsMoves
     DEF FenceReadProject, UnderMu, At, Observed
<1>42. ASSUME NEW w \in Workers, FenceReadThread(w) PROVE Entered'
  BY <1>42, EnteredLeft, ReplyMoves
     DEF FenceReadThread, UnderMu
<1>43. ASSUME NEW w \in Workers, NEW r \in Refs, StopConflict(w, r) PROVE Entered'
  BY <1>43, EnteredLeft, ReplyMoves
     DEF StopConflict, UnderMu
<1>44. ASSUME NEW w \in Workers, NEW r \in Refs, ReadThreadMarker(w, r) PROVE Entered'
  BY <1>44 DEF ReadThreadMarker, Entered, procVars
<1>45. ASSUME NEW w \in Workers, NEW r \in Refs, RecoverMarker(w, r) PROVE Entered'
  BY <1>45, EnteredTaken, ReadsMoves
     DEF RecoverMarker, UnderMu
<1>46. ASSUME NEW w \in Workers, NEW r \in Refs, SkipMarker(w, r) PROVE Entered'
  BY <1>46, EnteredByOthers, ReadsMoves
     DEF SkipMarker, UnderMu
<1>47. ASSUME NEW w \in Workers, RetainAmbiguous(w) PROVE Entered'
  BY <1>47, EnteredLeft, GotoMoves
     DEF RetainAmbiguous, UnderMu, EndRecovery
<1>48. ASSUME NEW w \in Workers, CommitRecovered(w) PROVE Entered'
  BY <1>48, EnteredOn, GotoMoves
     DEF CommitRecovered, UnderMu
<1>49. ASSUME NEW w \in Workers, RecoveryFails(w) PROVE Entered'
  BY <1>49, EnteredLeft, GotoMoves
     DEF RecoveryFails, UnderMu, EndRecovery
<1>50. ASSUME NEW w \in Workers, RecoverSweep(w) PROVE Entered'
  BY <1>50, EnteredLeft, GotoMoves
     DEF RecoverSweep, UnderMu, EndRecovery
<1>51. ASSUME NEW w \in Workers, Recovered(w) PROVE Entered'
  BY <1>51, EnteredByOthers, ReplyMoves
     DEF Recovered, UnderMu
<1>52. ASSUME NEW p \in Processes, Crash(p) PROVE Entered'
  <2>1. \A v \in Workers : job'[v] = IF v \in Local(p) THEN NoJob ELSE job[v]
    BY <1>52 DEF Crash
  <2>2. "none" \notin UnderMu /\ "none" # "wait"
    BY DEF UnderMu
  <2>3. \A v \in Workers : v \in Local(p) => job'[v].at = "none"
    BY <2>1, NoJobShape
  <2>4. \A q \in Processes : sessionMu'[q] = IF q = p THEN Nobody ELSE sessionMu[q]
    BY <1>52 DEF Crash, Entered
  <2>5. sessionMu' \in [Processes -> Workers \union {Nobody}]
    BY <1>52 DEF Crash, Entered
  <2> QED BY <2>1, <2>2, <2>3, <2>4, <2>5, TerminalStopAssumption DEF Entered, Local
<1>53. ASSUME NEW p \in Processes, Boot(p) PROVE Entered'
  <2> DEFINE w == CHOOSE v \in Local(p) : TRUE
             found == {r \in Refs : Found(r)}
  <2>1. /\ Begin(w, "boot", "recover", Project, found) /\ UNCHANGED sessionMu
        /\ w \in Workers /\ job[w].op = "none"
    BY <1>53, TerminalStopAssumption DEF Boot, Local
  <2> HIDE DEF w, found
  <2> QED BY <2>1, JobIs, EnteredByOthers, BeginMoves DEF UnderMu
<1> QED
  BY <1>1, <1>2, <1>3, <1>4, <1>5, <1>6, <1>7, <1>8, <1>9, <1>10, <1>11, <1>12, <1>13, <1>14,
     <1>15, <1>16, <1>17, <1>18, <1>19, <1>20, <1>21, <1>22, <1>23, <1>24, <1>25, <1>26, <1>27,
     <1>28, <1>29, <1>30, <1>31, <1>32, <1>33, <1>34, <1>35, <1>36, <1>37, <1>38, <1>39, <1>40,
     <1>41, <1>42, <1>43, <1>44, <1>45, <1>46, <1>47, <1>48, <1>49, <1>50, <1>51, <1>52, <1>53
     DEF Next, Ask, Work

-----------------------------------------------------------------------------
\* Markers, leases, requests and sessions are only about what has existed.
Births ==
    /\ stored \subseteq born \union {Project}
    /\ \A t \in Threads : Found(t) => t \in born
    /\ \A w \in Workers : lease[w].phase # "idle" /\ lease[w].ref \in Threads => lease[w].ref \in born
    /\ \A w \in Workers : job[w].op \in ThreadStops \union {"open"} => job[w].ref \in born
    /\ sessions \subseteq born

\* What a lease step that begins nothing can do to the leases and the markers.
StartsNothing ==
    /\ \A v \in Workers : lease'[v].phase # "idle" =>
          lease[v].phase # "idle" /\ lease'[v].ref = lease[v].ref
    /\ \A r \in Refs : marker'[r] # "none" =>
          marker[r] # "none" \/ \E v \in Workers : lease[v].phase # "idle" /\ lease[v].ref = r

LEMMA LeaseGoesOn ==
    ASSUME LeaseTypeOK, NEW w \in Workers,
           \/ UNCHANGED leaseVars
           \/ AcquireThread(w) \/ RefusedBusy(w) \/ Commit(w) \/ Rollback(w) \/ Retain(w)
           \/ \E r \in Refs : InspectAbsent(w, r) \/ InspectConflict(w, r)
           \/ \E ts \in SUBSET Threads : RecheckProjectThreads(w, ts)
    PROVE  StartsNothing
<1> USE DEF LeaseTypeOK, Leases, LeasePhases
<1>1. NoLease.phase = "idle"
  BY DEF NoLease
<1>2. CASE UNCHANGED leaseVars
  BY <1>2 DEF leaseVars, StartsNothing
<1>3. CASE AcquireThread(w)
  BY <1>3 DEF AcquireThread, Acquire, StartsNothing
<1>4. CASE RefusedBusy(w) \/ Retain(w)
  BY <1>1, <1>4 DEF RefusedBusy, Retain, Drop, StartsNothing
<1>5. CASE Commit(w)
  BY <1>5 DEF Commit, StartsNothing
<1>6. CASE Rollback(w)
  BY <1>1, <1>6 DEF Rollback, RemoveAndDrop, Drop, StartsNothing
<1>7. ASSUME NEW r \in Refs, InspectAbsent(w, r) PROVE StartsNothing
  <2> DEFINE l == [lease[w] EXCEPT !.todo = lease[w].todo \ {r},
                                   !.checked = lease[w].checked \union {r},
                                   !.phase = PhaseAfter(lease[w].todo \ {r})]
  <2>1. lease[w].phase # "idle" /\ lease' = [lease EXCEPT ![w] = l] /\ marker' = marker
    BY <1>7, Zenon DEF InspectAbsent
  <2>2. l.ref = lease[w].ref
    OBVIOUS
  <2> HIDE DEF l
  <2> QED BY <2>1, <2>2 DEF StartsNothing
<1>8. ASSUME NEW r \in Refs, InspectConflict(w, r) PROVE StartsNothing
  BY <1>1, <1>8 DEF InspectConflict, RemoveAndDrop, Drop, StartsNothing
<1>9. ASSUME NEW ts \in SUBSET Threads, RecheckProjectThreads(w, ts) PROVE StartsNothing
  <2> DEFINE l == [lease[w] EXCEPT !.todo = ts, !.phase = PhaseAfter(ts)]
  <2>1. lease[w].phase # "idle" /\ lease' = [lease EXCEPT ![w] = l] /\ marker' = marker
    BY <1>9, Zenon DEF RecheckProjectThreads, Granted
  <2>2. l.ref = lease[w].ref
    OBVIOUS
  <2> HIDE DEF l
  <2> QED BY <2>1, <2>2 DEF StartsNothing
<1> QED BY <1>2, <1>3, <1>4, <1>5, <1>6, <1>7, <1>8, <1>9

\* A request that goes on with what it names keeps the births.
LEMMA BirthsKept ==
    ASSUME Births, NEW w \in Workers, \A v \in Workers \ {w} : job'[v] = job[v],
           job'[w].op \in ThreadStops \union {"open"} =>
              \/ job[w].op \in ThreadStops \union {"open"} /\ job'[w].ref = job[w].ref
              \/ job'[w].ref \in born,
           stored' \subseteq stored, born' = born, sessions' \subseteq sessions \union born, StartsNothing
    PROVE  Births'
BY DEF Births, StartsNothing, Found, Refs

LEMMA BirthsStep == ASSUME ScopeInv, LeaseTypeOK, DiskTypes, Births, [Next]_vars PROVE Births'
<1> USE DEF ScopeInv
<1>1. CASE UNCHANGED vars
  BY <1>1 DEF vars, diskVars, procVars, leaseVars, Births, Found
<1>2. ASSUME NEW w \in Workers, AskDeleteProject(w) PROVE Births'
  BY <1>2, LeaseGoesOn, BirthsKept, BeginMoves DEF AskDeleteProject, diskVars, ThreadStops
<1>3. ASSUME NEW w \in Workers, NEW t \in Threads, AskDeleteThread(w, t) PROVE Births'
  BY <1>3, LeaseGoesOn, BirthsKept, BeginMoves DEF AskDeleteThread, diskVars
<1>4. ASSUME NEW w \in Workers, NEW t \in Threads, AskClose(w, t) PROVE Births'
  BY <1>4, LeaseGoesOn, BirthsKept, BeginMoves, ProjectAssumption DEF AskClose, diskVars, Births
<1>5. ASSUME NEW w \in Workers, NEW t \in Threads, AskSettle(w, t) PROVE Births'
  BY <1>5, LeaseGoesOn, BirthsKept, BeginMoves, ProjectAssumption DEF AskSettle, diskVars, Births
<1>6. ASSUME NEW w \in Workers, NEW t \in Threads, Unsettle(w, t) PROVE Births'
  BY <1>6, LeaseGoesOn, BirthsKept DEF Unsettle, procVars
<1>7. ASSUME NEW w \in Workers, NEW t \in Threads, AskOpen(w, t) PROVE Births'
  BY <1>7, LeaseGoesOn, BirthsKept, BeginMoves, ProjectAssumption
     DEF AskOpen, diskVars, ThreadStops, Births
<1>8. ASSUME NEW w \in Workers, NEW t \in Threads, AddThread(w, t) PROVE Births'
  BY <1>8 DEF AddThread, procVars, leaseVars, Births, Found
<1>9. ASSUME NEW w \in Workers, StopThreadRefused(w) PROVE Births'
  BY <1>9, LeaseGoesOn, BirthsKept, ReplyMoves
     DEF StopThreadRefused, diskVars, ThreadStops
<1>10. ASSUME NEW w \in Workers, StopThread(w) PROVE Births'
  <2>1. job[w].op \in ThreadStops /\ job[w].ref \in born
    BY <1>10 DEF StopThread, AtAny, Births
  <2>2. /\ \A v \in Workers \ {w} : job'[v] = job[v]
        /\ job'[w].op = job[w].op /\ job'[w].ref = job[w].ref
    BY <1>10, GotoMoves DEF StopThread
  <2>3. /\ marker' = marker /\ stored' = stored /\ born' = born /\ sessions' = sessions
        /\ lease'[w].ref = job[w].ref /\ \A v \in Workers \ {w} : lease'[v] = lease[v]
    BY <1>10 DEF StopThread, BeginThread, NoLease, LeaseTypeOK, diskVars
  <2> QED BY <2>1, <2>2, <2>3 DEF Births, Found
<1>11. ASSUME NEW w \in Workers, TakeMarker(w) PROVE Births'
  BY <1>11, LeaseGoesOn, BirthsKept DEF TakeMarker, diskVars, procVars
<1>12. ASSUME NEW w \in Workers, MarkerTaken(w) PROVE Births'
  BY <1>12, LeaseGoesOn, BirthsKept, ReplyMoves
     DEF MarkerTaken, diskVars, ThreadStops
<1>13. ASSUME NEW w \in Workers, ThreadStopGranted(w) PROVE Births'
  <2>1. Project \in Refs
    BY DEF Refs
  <2> QED BY <1>13, <2>1, LeaseGoesOn, BirthsKept, GotoMoves DEF ThreadStopGranted, diskVars
<1>14. ASSUME NEW w \in Workers, StopProjectRefused(w) PROVE Births'
  BY <1>14, LeaseGoesOn, BirthsKept, ReplyMoves
     DEF StopProjectRefused, diskVars, ThreadStops
<1>15. ASSUME NEW w \in Workers, StopProject(w) PROVE Births'
  <2>1. /\ \A v \in Workers \ {w} : job'[v] = job[v]
        /\ job'[w].op = "deleteProject" /\ stored' = stored /\ born' = born /\ sessions' = sessions
    BY <1>15, GotoMoves DEF StopProject, At
  <2>2. /\ lease'[w].ref = Project /\ \A v \in Workers \ {w} : lease'[v] = lease[v]
        /\ \A t \in Threads : marker'[t] = marker[t]
    BY <1>15, ProjectAssumption DEF StopProject, BeginProject, Acquire, LeaseTypeOK, Refs
  <2> QED BY <2>1, <2>2, ProjectAssumption DEF Births, Found, ThreadStops
<1>16. ASSUME NEW w \in Workers, RefreshProject(w) PROVE Births'
  <2>1. StoredThreads \in SUBSET Threads
    BY DEF StoredThreads
  <2> QED BY <1>16, <2>1, LeaseGoesOn, BirthsKept, ReadsMoves DEF RefreshProject, diskVars
<1>17. ASSUME NEW w \in Workers, RefreshFindsProjectGone(w) PROVE Births'
  BY <1>17, LeaseGoesOn, BirthsKept, GotoMoves, ReplyMoves
     DEF RefreshFindsProjectGone, diskVars, ThreadStops
<1>18. ASSUME NEW w \in Workers, RefreshFails(w) PROVE Births'
  BY <1>18, LeaseGoesOn, BirthsKept, ReplyMoves
     DEF RefreshFails, diskVars, ThreadStops
<1>19. ASSUME NEW w \in Workers, UpdateCleanupRecipe(w) PROVE Births'
  BY <1>19, LeaseGoesOn, BirthsKept, GotoMoves, ReplyMoves
     DEF UpdateCleanupRecipe, diskVars, ThreadStops
<1>20. ASSUME NEW w \in Workers, UpdateCleanupRecipeFails(w) PROVE Births'
  BY <1>20, LeaseGoesOn, BirthsKept, ReplyMoves
     DEF UpdateCleanupRecipeFails, diskVars, ThreadStops
<1>21. ASSUME NEW w \in Workers, StoreDelete(w) PROVE Births'
  BY <1>21, LeaseGoesOn, BirthsKept, GotoMoves
     DEF StoreDelete, diskVars, Removed
<1>22. ASSUME NEW w \in Workers, StoreFindsNothing(w) PROVE Births'
  BY <1>22, LeaseGoesOn, BirthsKept, GotoMoves
     DEF StoreFindsNothing, diskVars
<1>23. ASSUME NEW w \in Workers, ResolveStoreError(w) PROVE Births'
  BY <1>23, LeaseGoesOn, BirthsKept, GotoMoves
     DEF ResolveStoreError, diskVars
<1>24. ASSUME NEW w \in Workers, CancelStop(w) PROVE Births'
  BY <1>24, LeaseGoesOn, BirthsKept, GotoMoves, ReplyMoves
     DEF CancelStop, diskVars, AfterUnstop, ThreadStops
<1>25. ASSUME NEW w \in Workers, CancelStopAgain(w) PROVE Births'
  BY <1>25, LeaseGoesOn, BirthsKept, ReplyMoves
     DEF CancelStopAgain, diskVars, ThreadStops
<1>26. ASSUME NEW w \in Workers, RetainStop(w) PROVE Births'
  BY <1>26, LeaseGoesOn, BirthsKept, GotoMoves, ReplyMoves
     DEF RetainStop, diskVars, AfterUnstop, ThreadStops
<1>27. ASSUME NEW w \in Workers, FinishStop(w) PROVE Births'
  BY <1>27, LeaseGoesOn, BirthsKept, GotoMoves
     DEF FinishStop, diskVars
<1>28. ASSUME NEW w \in Workers, FinishStopFails(w) PROVE Births'
  BY <1>28, LeaseGoesOn, BirthsKept, GotoMoves
     DEF FinishStopFails, diskVars
<1>29. ASSUME NEW w \in Workers, FinishSweep(w) PROVE Births'
  BY <1>29, LeaseGoesOn, BirthsKept, GotoMoves
     DEF FinishSweep, Sweep, Kill
<1>30. ASSUME NEW w \in Workers, FinishRelease(w) PROVE Births'
  BY <1>30, LeaseGoesOn, BirthsKept, ReplyMoves
     DEF FinishRelease, diskVars, ThreadStops
<1>31. ASSUME NEW w \in Workers, LockForMutation(w) PROVE Births'
  BY <1>31, LeaseGoesOn, BirthsKept, GotoMoves
     DEF LockForMutation, diskVars
<1>32. ASSUME NEW w \in Workers, StillActive(w) PROVE Births'
  BY <1>32, LeaseGoesOn, BirthsKept, GotoMoves
     DEF StillActive, diskVars
<1>33. ASSUME NEW w \in Workers, CloseInactive(w) PROVE Births'
  BY <1>33, LeaseGoesOn, BirthsKept, GotoMoves
     DEF CloseInactive, diskVars
<1>34. ASSUME NEW w \in Workers, StoreSettled(w) PROVE Births'
  BY <1>34, LeaseGoesOn, BirthsKept, GotoMoves
     DEF StoreSettled, diskVars
<1>35. ASSUME NEW w \in Workers, StoreSettledFails(w) PROVE Births'
  BY <1>35, LeaseGoesOn, BirthsKept, GotoMoves
     DEF StoreSettledFails, diskVars
<1>36. ASSUME NEW w \in Workers, KillSessions(w) PROVE Births'
  BY <1>36, LeaseGoesOn, BirthsKept, GotoMoves
     DEF KillSessions, Sweep, Kill
<1>37. ASSUME NEW w \in Workers, OpenReadProject(w) PROVE Births'
  BY <1>37, LeaseGoesOn, BirthsKept, GotoMoves, ReplyMoves
     DEF OpenReadProject, diskVars, OpenRefused, ThreadStops
<1>38. ASSUME NEW w \in Workers, OpenReadThread(w) PROVE Births'
  BY <1>38, LeaseGoesOn, BirthsKept, GotoMoves, ReplyMoves
     DEF OpenReadThread, diskVars, OpenRefused, ThreadStops
<1>39. ASSUME NEW w \in Workers, OpenReadStore(w) PROVE Births'
  BY <1>39, LeaseGoesOn, BirthsKept, GotoMoves, ReplyMoves
     DEF OpenReadStore, diskVars, OpenRefused, ThreadStops
<1>40. ASSUME NEW w \in Workers, OpenCreate(w) PROVE Births'
  <2>1. job[w].ref \in born
    BY <1>40 DEF OpenCreate, At, Births
  <2> QED BY <1>40, <2>1, LeaseGoesOn, BirthsKept, GotoMoves DEF OpenCreate
<1>41. ASSUME NEW w \in Workers, FenceReadProject(w) PROVE Births'
  BY <1>41, LeaseGoesOn, BirthsKept, ReadsMoves
     DEF FenceReadProject, diskVars
<1>42. ASSUME NEW w \in Workers, FenceReadThread(w) PROVE Births'
  BY <1>42, LeaseGoesOn, BirthsKept, ReplyMoves
     DEF FenceReadThread, Sweep, Kill, ThreadStops
<1>43. ASSUME NEW w \in Workers, NEW r \in Refs, StopConflict(w, r) PROVE Births'
  BY <1>43, LeaseGoesOn, BirthsKept, ReplyMoves
     DEF StopConflict, diskVars, ThreadStops
<1>44. ASSUME NEW w \in Workers, NEW r \in Refs, ReadThreadMarker(w, r) PROVE Births'
  BY <1>44, LeaseGoesOn, BirthsKept DEF ReadThreadMarker, diskVars, procVars
<1>45. ASSUME NEW w \in Workers, NEW r \in Refs, RecoverMarker(w, r) PROVE Births'
  <2>1. /\ \A v \in Workers \ {w} : job'[v] = job[v]
        /\ job'[w].op = job[w].op /\ job'[w].ref = job[w].ref /\ stored' = stored /\ born' = born
        /\ sessions' = sessions
    BY <1>45, ReadsMoves DEF RecoverMarker, diskVars
  <2>2. /\ lease'[w].ref = r /\ Found(r) /\ \A v \in Workers \ {w} : lease'[v] = lease[v]
        /\ marker' = marker
    BY <1>45 DEF RecoverMarker, AcquireExisting, NoLease, LeaseTypeOK
  <2> QED BY <2>1, <2>2 DEF Births, Found
<1>46. ASSUME NEW w \in Workers, NEW r \in Refs, SkipMarker(w, r) PROVE Births'
  BY <1>46, LeaseGoesOn, BirthsKept, ReadsMoves
     DEF SkipMarker, diskVars
<1>47. ASSUME NEW w \in Workers, RetainAmbiguous(w) PROVE Births'
  BY <1>47, LeaseGoesOn, BirthsKept, GotoMoves
     DEF RetainAmbiguous, diskVars, EndRecovery
<1>48. ASSUME NEW w \in Workers, CommitRecovered(w) PROVE Births'
  BY <1>48, LeaseGoesOn, BirthsKept, GotoMoves
     DEF CommitRecovered, diskVars
<1>49. ASSUME NEW w \in Workers, RecoveryFails(w) PROVE Births'
  BY <1>49, LeaseGoesOn, BirthsKept, GotoMoves
     DEF RecoveryFails, diskVars, EndRecovery
<1>50. ASSUME NEW w \in Workers, RecoverSweep(w) PROVE Births'
  BY <1>50, LeaseGoesOn, BirthsKept, GotoMoves
     DEF RecoverSweep, Sweep, Kill, EndRecovery
<1>51. ASSUME NEW w \in Workers, Recovered(w) PROVE Births'
  BY <1>51, LeaseGoesOn, BirthsKept, ReplyMoves
     DEF Recovered, diskVars, ThreadStops
<1>52. ASSUME NEW p \in Processes, Crash(p) PROVE Births'
  <2>1. /\ \A v \in Workers : job'[v] = job[v] \/ job'[v].op = "none"
        /\ stored' = stored /\ born' = born /\ marker' = marker /\ sessions' = sessions
    BY <1>52 DEF Crash, NoJob, CrashLeases
  <2>2. \A v \in Workers : lease'[v] = lease[v] \/ lease'[v].phase = "idle"
    BY <1>52 DEF Crash, CrashLeases, NoLease
  <2> QED BY <2>1, <2>2 DEF Births, Found, ThreadStops
<1>53. ASSUME NEW p \in Processes, Boot(p) PROVE Births'
  <2> DEFINE w == CHOOSE v \in Local(p) : TRUE
             found == {r \in Refs : Found(r)}
  <2>1. /\ Begin(w, "boot", "recover", Project, found) /\ UNCHANGED <<leaseVars, stored, born, sessions>>
        /\ w \in Workers
    BY <1>53, TerminalStopAssumption DEF Boot, Local, diskVars
  <2> HIDE DEF w, found
  <2> QED BY <2>1, LeaseGoesOn, BirthsKept, BeginMoves DEF ThreadStops
<1> QED
  BY <1>1, <1>2, <1>3, <1>4, <1>5, <1>6, <1>7, <1>8, <1>9, <1>10, <1>11, <1>12, <1>13, <1>14,
     <1>15, <1>16, <1>17, <1>18, <1>19, <1>20, <1>21, <1>22, <1>23, <1>24, <1>25, <1>26, <1>27,
     <1>28, <1>29, <1>30, <1>31, <1>32, <1>33, <1>34, <1>35, <1>36, <1>37, <1>38, <1>39, <1>40,
     <1>41, <1>42, <1>43, <1>44, <1>45, <1>46, <1>47, <1>48, <1>49, <1>50, <1>51, <1>52, <1>53
     DEF Next, Ask, Work

-----------------------------------------------------------------------------
\* From its first marker to its last word on the Store, a deletion has the lease
\* of what it deletes, and from its grant on the lock that comes with it.
Owning == {"begin", "recheck", "store", "resolve", "finish"}
Acquired == {"checking", "granted", "recovered"}
Paired ==
    \A w \in Workers : job[w].op \in Deletes /\ job[w].at \in Owning =>
        lease[w].ref = job[w].ref /\ (job[w].at # "begin" => lease[w].phase \in Acquired)

\* An operation on a lease leaves the leases of the others alone.
LEMMA LeaseAlone ==
    ASSUME LeaseTypeOK, NEW w \in Workers, UNCHANGED leaseVars \/ LeaseStep(w)
    PROVE  \A v \in Workers \ {w} : lease'[v] = lease[v]
<1>1. CASE UNCHANGED leaseVars
  BY <1>1 DEF leaseVars
<1>2. CASE LeaseStep(w)
  <2>1. \E l : lease' = [lease EXCEPT ![w] = l]
    <3>1. CASE \E t \in Threads : BeginThread(w, t)
      BY <3>1, Zenon DEF BeginThread
    <3>2. CASE AcquireThread(w)
      BY <3>2, Zenon DEF AcquireThread, Acquire
    <3>3. CASE RefusedBusy(w) \/ Rollback(w) \/ Retain(w)
      BY <3>3, Zenon DEF RefusedBusy, Rollback, Retain, RemoveAndDrop, Drop
    <3>4. CASE \E ts \in SUBSET Threads : BeginProject(w, ts) \/ RecheckProjectThreads(w, ts)
      BY <3>4, Zenon DEF BeginProject, RecheckProjectThreads, Acquire
    <3>5. CASE \E r \in Refs : InspectAbsent(w, r)
      BY <3>5, Zenon DEF InspectAbsent
    <3>6. CASE \E r \in Refs : InspectConflict(w, r)
      BY <3>6, Zenon DEF InspectConflict, RemoveAndDrop, Drop
    <3>7. CASE \E r \in Refs : AcquireExisting(w, r)
      BY <3>7, Zenon DEF AcquireExisting
    <3>8. CASE Commit(w)
      <4>1. lease' = [lease EXCEPT ![w] = lease[w]]
        BY <3>8 DEF Commit, LeaseTypeOK
      <4> QED BY <4>1, Zenon
    <3> QED BY <1>2, <3>1, <3>2, <3>3, <3>4, <3>5, <3>6, <3>7, <3>8 DEF LeaseStep
  <2> QED BY <2>1 DEF LeaseTypeOK
<1> QED BY <1>1, <1>2

LEMMA PhaseLocked ==
    ASSUME LeaseTypeOK, NEW w \in Workers,
           \/ \E r \in Refs : InspectAbsent(w, r)
           \/ \E ts \in SUBSET Threads : RecheckProjectThreads(w, ts)
    PROVE  lease'[w].phase \in {"checking", "granted"}
<1> USE DEF LeaseTypeOK, Leases
<1>1. ASSUME NEW r \in Refs, InspectAbsent(w, r) PROVE lease'[w].phase \in {"checking", "granted"}
  <2> DEFINE l == [lease[w] EXCEPT !.todo = lease[w].todo \ {r},
                                   !.checked = lease[w].checked \union {r},
                                   !.phase = PhaseAfter(lease[w].todo \ {r})]
  <2>1. lease' = [lease EXCEPT ![w] = l]
    BY <1>1, Zenon DEF InspectAbsent
  <2>2. l.phase = PhaseAfter(lease[w].todo \ {r})
    OBVIOUS
  <2> HIDE DEF l
  <2> QED BY <2>1, <2>2 DEF PhaseAfter
<1>2. ASSUME NEW ts \in SUBSET Threads, RecheckProjectThreads(w, ts) PROVE lease'[w].phase \in {"checking", "granted"}
  <2> DEFINE l == [lease[w] EXCEPT !.todo = ts, !.phase = PhaseAfter(ts)]
  <2>1. lease' = [lease EXCEPT ![w] = l]
    BY <1>2, Zenon DEF RecheckProjectThreads
  <2>2. l.phase = PhaseAfter(ts)
    OBVIOUS
  <2> HIDE DEF l
  <2> QED BY <2>1, <2>2 DEF PhaseAfter
<1> QED BY <1>1, <1>2

LEMMA RefKept ==
    ASSUME LeaseTypeOK, NEW w \in Workers,
           \/ UNCHANGED leaseVars
           \/ AcquireThread(w) \/ Commit(w)
           \/ \E r \in Refs : InspectAbsent(w, r)
           \/ \E ts \in SUBSET Threads : RecheckProjectThreads(w, ts)
    PROVE  /\ lease'[w].ref = lease[w].ref
           /\ lease'[w].phase = lease[w].phase \/ lease'[w].phase \in {"checking", "granted"}
<1>1. CASE UNCHANGED leaseVars \/ Commit(w)
  BY <1>1 DEF leaseVars, Commit
<1>2. CASE AcquireThread(w)
  BY <1>2 DEF AcquireThread, Acquire, PhaseAfter, LeaseTypeOK
<1>3. CASE \/ \E r \in Refs : InspectAbsent(w, r)
           \/ \E ts \in SUBSET Threads : RecheckProjectThreads(w, ts)
  <2>1. StartsNothing
    BY <1>3, LeaseGoesOn
  <2>2. lease'[w].phase \in {"checking", "granted"}
    BY <1>3, PhaseLocked
  <2> QED BY <2>1, <2>2 DEF StartsNothing
<1> QED BY <1>1, <1>2, <1>3

LEMMA PairedKept ==
    ASSUME Paired, NEW w \in Workers, \A v \in Workers \ {w} : job'[v] = job[v],
           \A v \in Workers \ {w} : lease'[v] = lease[v],
           job'[w].op \in Deletes /\ job'[w].at \in Owning =>
               lease'[w].ref = job'[w].ref /\ (job'[w].at # "begin" => lease'[w].phase \in Acquired)
    PROVE  Paired'
BY DEF Paired

LEMMA PairedStep == ASSUME ScopeInv, LeaseTypeOK, Paired, [Next]_vars PROVE Paired'
<1> USE DEF ScopeInv
<1>1. CASE UNCHANGED vars
  BY <1>1 DEF vars, procVars, leaseVars, Paired
<1>2. ASSUME NEW w \in Workers, AskDeleteProject(w) PROVE Paired'
  BY <1>2, PairedKept, LeaseAlone, BeginMoves
     DEF AskDeleteProject, Owning
<1>3. ASSUME NEW w \in Workers, NEW t \in Threads, AskDeleteThread(w, t) PROVE Paired'
  BY <1>3, PairedKept, LeaseAlone, BeginMoves
     DEF AskDeleteThread, Owning
<1>4. ASSUME NEW w \in Workers, NEW t \in Threads, AskClose(w, t) PROVE Paired'
  BY <1>4, PairedKept, LeaseAlone, BeginMoves
     DEF AskClose, Owning
<1>5. ASSUME NEW w \in Workers, NEW t \in Threads, AskSettle(w, t) PROVE Paired'
  BY <1>5, PairedKept, LeaseAlone, BeginMoves
     DEF AskSettle, Owning
<1>6. ASSUME NEW w \in Workers, NEW t \in Threads, Unsettle(w, t) PROVE Paired'
  BY <1>6 DEF Unsettle, procVars, leaseVars, Paired
<1>7. ASSUME NEW w \in Workers, NEW t \in Threads, AskOpen(w, t) PROVE Paired'
  BY <1>7, PairedKept, LeaseAlone, BeginMoves
     DEF AskOpen, Owning
<1>8. ASSUME NEW w \in Workers, NEW t \in Threads, AddThread(w, t) PROVE Paired'
  BY <1>8 DEF AddThread, procVars, leaseVars, Paired
<1>9. ASSUME NEW w \in Workers, StopThreadRefused(w) PROVE Paired'
  BY <1>9, PairedKept, LeaseAlone, ReplyMoves
     DEF StopThreadRefused, Owning, Deletes
<1>10. ASSUME NEW w \in Workers, StopThread(w) PROVE Paired'
  <2>1. job[w].op \in ThreadStops /\ job[w].ref \in Threads
    BY <1>10 DEF StopThread, AtAny, ScopedJobs
  <2>2. lease'[w].ref = job[w].ref
    BY <1>10 DEF StopThread, BeginThread, NoLease, LeaseTypeOK
  <2> QED BY <1>10, <2>1, <2>2, PairedKept, LeaseAlone, GotoMoves DEF StopThread, LeaseStep
<1>11. ASSUME NEW w \in Workers, TakeMarker(w) PROVE Paired'
  BY <1>11, PairedKept, LeaseAlone, RefKept
     DEF TakeMarker, Owning, Paired, AtAny, At, LeaseStep, procVars
<1>12. ASSUME NEW w \in Workers, MarkerTaken(w) PROVE Paired'
  BY <1>12, PairedKept, LeaseAlone, ReplyMoves
     DEF MarkerTaken, Owning, Deletes, LeaseStep
<1>13. ASSUME NEW w \in Workers, ThreadStopGranted(w) PROVE Paired'
  <2>1. Project \in Refs
    BY DEF Refs
  <2> QED BY <1>13, <2>1, PairedKept, LeaseAlone, RefKept, PhaseLocked, GotoMoves
          DEF ThreadStopGranted, LeaseStep, Paired, AtAny, Owning, Acquired, Deletes
<1>14. ASSUME NEW w \in Workers, StopProjectRefused(w) PROVE Paired'
  BY <1>14, PairedKept, LeaseAlone, ReplyMoves
     DEF StopProjectRefused, Owning, Deletes
<1>15. ASSUME NEW w \in Workers, StopProject(w) PROVE Paired'
  <2>1. job[w].ref = Project /\ job[w].seen \in SUBSET Threads
    BY <1>15 DEF StopProject, At, ScopedJobs, Reading
  <2>2. lease'[w].ref = Project
    BY <1>15 DEF StopProject, BeginProject, Acquire, LeaseTypeOK
  <2> QED BY <1>15, <2>1, <2>2, PairedKept, LeaseAlone, GotoMoves DEF StopProject, LeaseStep
<1>16. ASSUME NEW w \in Workers, RefreshProject(w) PROVE Paired'
  <2>1. StoredThreads \in SUBSET Threads /\ Project \in Refs
    BY DEF StoredThreads, Refs
  <2> QED BY <1>16, <2>1, PairedKept, LeaseAlone, RefKept, PhaseLocked, ReadsMoves
          DEF RefreshProject, LeaseStep, Paired, At, Owning, Acquired, Deletes
<1>17. ASSUME NEW w \in Workers, RefreshFindsProjectGone(w) PROVE Paired'
  BY <1>17, PairedKept, LeaseAlone, GotoMoves, ReplyMoves, RefKept
     DEF RefreshFindsProjectGone, Owning, Acquired, Granted, Commit, Paired, At, Deletes, LeaseStep
<1>18. ASSUME NEW w \in Workers, RefreshFails(w) PROVE Paired'
  BY <1>18, PairedKept, LeaseAlone, ReplyMoves
     DEF RefreshFails, Owning, Deletes, LeaseStep
<1>19. ASSUME NEW w \in Workers, UpdateCleanupRecipe(w) PROVE Paired'
  <2>1. CASE Rollback(w) /\ Reply(w)
    BY <2>1, PairedKept, LeaseAlone, ReplyMoves DEF LeaseStep, Deletes
  <2>2. CASE Goto(w, "store") /\ UNCHANGED leaseVars
    <3>1. lease[w].ref = job[w].ref /\ lease[w].phase \in Acquired
      BY <1>19 DEF UpdateCleanupRecipe, At, Paired, Deletes, Owning
    <3>2. lease' = lease
      BY <2>2 DEF leaseVars
    <3> QED BY <2>2, <3>1, <3>2, PairedKept, GotoMoves
  <2> QED BY <1>19, <2>1, <2>2 DEF UpdateCleanupRecipe
<1>20. ASSUME NEW w \in Workers, UpdateCleanupRecipeFails(w) PROVE Paired'
  BY <1>20, PairedKept, LeaseAlone, ReplyMoves
     DEF UpdateCleanupRecipeFails, Owning, Deletes, LeaseStep
<1>21. ASSUME NEW w \in Workers, StoreDelete(w) PROVE Paired'
  BY <1>21, PairedKept, LeaseAlone, GotoMoves
     DEF StoreDelete, Owning, Paired, AtAny, leaseVars
<1>22. ASSUME NEW w \in Workers, StoreFindsNothing(w) PROVE Paired'
  BY <1>22, PairedKept, LeaseAlone, GotoMoves
     DEF StoreFindsNothing, Owning, Paired, AtAny, leaseVars
<1>23. ASSUME NEW w \in Workers, ResolveStoreError(w) PROVE Paired'
  BY <1>23, PairedKept, LeaseAlone, GotoMoves
     DEF ResolveStoreError, Owning, Paired, AtAny, leaseVars
<1>24. ASSUME NEW w \in Workers, CancelStop(w) PROVE Paired'
  BY <1>24, PairedKept, LeaseAlone, GotoMoves, ReplyMoves
     DEF CancelStop, Owning, AfterUnstop, Deletes, LeaseStep
<1>25. ASSUME NEW w \in Workers, CancelStopAgain(w) PROVE Paired'
  BY <1>25, PairedKept, LeaseAlone, ReplyMoves
     DEF CancelStopAgain, Owning, Deletes
<1>26. ASSUME NEW w \in Workers, RetainStop(w) PROVE Paired'
  BY <1>26, PairedKept, LeaseAlone, GotoMoves, ReplyMoves
     DEF RetainStop, Owning, AfterUnstop, Deletes, LeaseStep
<1>27. ASSUME NEW w \in Workers, FinishStop(w) PROVE Paired'
  BY <1>27, PairedKept, LeaseAlone, GotoMoves
     DEF FinishStop, Owning, LeaseStep
<1>28. ASSUME NEW w \in Workers, FinishStopFails(w) PROVE Paired'
  BY <1>28, PairedKept, LeaseAlone, GotoMoves
     DEF FinishStopFails, Owning
<1>29. ASSUME NEW w \in Workers, FinishSweep(w) PROVE Paired'
  BY <1>29, PairedKept, LeaseAlone, GotoMoves
     DEF FinishSweep, Owning
<1>30. ASSUME NEW w \in Workers, FinishRelease(w) PROVE Paired'
  BY <1>30, PairedKept, LeaseAlone, ReplyMoves
     DEF FinishRelease, Owning, Deletes, LeaseStep
<1>31. ASSUME NEW w \in Workers, LockForMutation(w) PROVE Paired'
  BY <1>31, PairedKept, LeaseAlone, GotoMoves
     DEF LockForMutation, Owning
<1>32. ASSUME NEW w \in Workers, StillActive(w) PROVE Paired'
  BY <1>32, PairedKept, LeaseAlone, GotoMoves
     DEF StillActive, Owning
<1>33. ASSUME NEW w \in Workers, CloseInactive(w) PROVE Paired'
  BY <1>33, PairedKept, LeaseAlone, GotoMoves
     DEF CloseInactive, Owning
<1>34. ASSUME NEW w \in Workers, StoreSettled(w) PROVE Paired'
  BY <1>34, PairedKept, LeaseAlone, GotoMoves
     DEF StoreSettled, Owning
<1>35. ASSUME NEW w \in Workers, StoreSettledFails(w) PROVE Paired'
  BY <1>35, PairedKept, LeaseAlone, GotoMoves
     DEF StoreSettledFails, Owning
<1>36. ASSUME NEW w \in Workers, KillSessions(w) PROVE Paired'
  BY <1>36, PairedKept, LeaseAlone, GotoMoves
     DEF KillSessions, Owning
<1>37. ASSUME NEW w \in Workers, OpenReadProject(w) PROVE Paired'
  BY <1>37, PairedKept, LeaseAlone, GotoMoves, ReplyMoves
     DEF OpenReadProject, Owning, OpenRefused, Deletes
<1>38. ASSUME NEW w \in Workers, OpenReadThread(w) PROVE Paired'
  BY <1>38, PairedKept, LeaseAlone, GotoMoves, ReplyMoves
     DEF OpenReadThread, Owning, OpenRefused, Deletes
<1>39. ASSUME NEW w \in Workers, OpenReadStore(w) PROVE Paired'
  BY <1>39, PairedKept, LeaseAlone, GotoMoves, ReplyMoves
     DEF OpenReadStore, Owning, OpenRefused, Deletes
<1>40. ASSUME NEW w \in Workers, OpenCreate(w) PROVE Paired'
  BY <1>40, PairedKept, LeaseAlone, GotoMoves
     DEF OpenCreate, Owning
<1>41. ASSUME NEW w \in Workers, FenceReadProject(w) PROVE Paired'
  BY <1>41, PairedKept, LeaseAlone, ReadsMoves
     DEF FenceReadProject, Owning, Observed
<1>42. ASSUME NEW w \in Workers, FenceReadThread(w) PROVE Paired'
  BY <1>42, PairedKept, LeaseAlone, ReplyMoves
     DEF FenceReadThread, Owning, Deletes
<1>43. ASSUME NEW w \in Workers, NEW r \in Refs, StopConflict(w, r) PROVE Paired'
  BY <1>43, PairedKept, LeaseAlone, ReplyMoves
     DEF StopConflict, Owning, Deletes, LeaseStep
<1>44. ASSUME NEW w \in Workers, NEW r \in Refs, ReadThreadMarker(w, r) PROVE Paired'
  BY <1>44, PairedKept, LeaseAlone, RefKept, PhaseLocked
     DEF ReadThreadMarker, Owning, Acquired, Paired, AtAny, At, LeaseStep, procVars
<1>45. ASSUME NEW w \in Workers, NEW r \in Refs, RecoverMarker(w, r) PROVE Paired'
  BY <1>45, PairedKept, LeaseAlone, ReadsMoves
     DEF RecoverMarker, Owning, LeaseStep
<1>46. ASSUME NEW w \in Workers, NEW r \in Refs, SkipMarker(w, r) PROVE Paired'
  BY <1>46, PairedKept, LeaseAlone, ReadsMoves
     DEF SkipMarker, Owning
<1>47. ASSUME NEW w \in Workers, RetainAmbiguous(w) PROVE Paired'
  BY <1>47, PairedKept, LeaseAlone, GotoMoves
     DEF RetainAmbiguous, Owning, EndRecovery, LeaseStep
<1>48. ASSUME NEW w \in Workers, CommitRecovered(w) PROVE Paired'
  BY <1>48, PairedKept, LeaseAlone, GotoMoves
     DEF CommitRecovered, Owning, LeaseStep
<1>49. ASSUME NEW w \in Workers, RecoveryFails(w) PROVE Paired'
  BY <1>49, PairedKept, LeaseAlone, GotoMoves
     DEF RecoveryFails, Owning, EndRecovery, LeaseStep
<1>50. ASSUME NEW w \in Workers, RecoverSweep(w) PROVE Paired'
  BY <1>50, PairedKept, LeaseAlone, GotoMoves
     DEF RecoverSweep, Owning, EndRecovery, LeaseStep
<1>51. ASSUME NEW w \in Workers, Recovered(w) PROVE Paired'
  BY <1>51, PairedKept, LeaseAlone, ReplyMoves
     DEF Recovered, Owning, Deletes
<1>52. ASSUME NEW p \in Processes, Crash(p) PROVE Paired'
  <2>1. ASSUME NEW v \in Workers, v \in Local(p) PROVE job'[v].op \notin Deletes
    BY <1>52, <2>1 DEF Crash, NoJob, Deletes
  <2>2. ASSUME NEW v \in Workers, v \notin Local(p) PROVE job'[v] = job[v] /\ lease'[v] = lease[v]
    BY <1>52, <2>2 DEF Crash, CrashLeases
  <2> QED BY <2>1, <2>2 DEF Paired
<1>53. ASSUME NEW p \in Processes, Boot(p) PROVE Paired'
  <2> DEFINE w == CHOOSE v \in Local(p) : TRUE
             found == {r \in Refs : Found(r)}
  <2>1. /\ Begin(w, "boot", "recover", Project, found) /\ UNCHANGED leaseVars
        /\ w \in Workers
    BY <1>53, TerminalStopAssumption DEF Boot, Local
  <2> HIDE DEF w, found
  <2> QED BY <2>1, LeaseAlone, PairedKept, BeginMoves DEF Deletes
<1> QED
  BY <1>1, <1>2, <1>3, <1>4, <1>5, <1>6, <1>7, <1>8, <1>9, <1>10, <1>11, <1>12, <1>13, <1>14,
     <1>15, <1>16, <1>17, <1>18, <1>19, <1>20, <1>21, <1>22, <1>23, <1>24, <1>25, <1>26, <1>27,
     <1>28, <1>29, <1>30, <1>31, <1>32, <1>33, <1>34, <1>35, <1>36, <1>37, <1>38, <1>39, <1>40,
     <1>41, <1>42, <1>43, <1>44, <1>45, <1>46, <1>47, <1>48, <1>49, <1>50, <1>51, <1>52, <1>53
     DEF Next, Ask, Work

-----------------------------------------------------------------------------
\* What a marker, and a request past the Store deletion, take to be gone is gone.
Truth ==
    /\ CommittedIsGone
    /\ \A w \in Workers :
          /\ job[w].op \in Deletes /\ job[w].at \in {"finish", "sweep"} => job[w].ref \notin stored
          /\ job[w].at = "recoverSweep" => lease[w].phase # "idle" /\ lease[w].ref \notin stored
          /\ job[w].at = "fenceCommitted" => Project \notin stored

CommitsNothing == \A r \in Refs : marker'[r] = "committed" => marker[r] = "committed"

LEMMA OnlyCommitCommits ==
    ASSUME LeaseTypeOK, NEW w \in Workers,
           \/ UNCHANGED leaseVars
           \/ \E t \in Threads : BeginThread(w, t)
           \/ AcquireThread(w) \/ RefusedBusy(w) \/ Rollback(w) \/ Retain(w)
           \/ \E ts \in SUBSET Threads : BeginProject(w, ts) \/ RecheckProjectThreads(w, ts)
           \/ \E r \in Refs : InspectAbsent(w, r) \/ InspectConflict(w, r) \/ AcquireExisting(w, r)
    PROVE  CommitsNothing
<1>1. CASE marker' = marker
  BY <1>1 DEF CommitsNothing
<1>2. CASE AcquireThread(w) \/ \E ts \in SUBSET Threads : BeginProject(w, ts)
  <2>1. PICK r : marker' = [marker EXCEPT ![r] = IF Found(r) THEN @ ELSE "pending"]
    BY <1>2, Zenon DEF AcquireThread, BeginProject, Acquire
  <2> QED BY <2>1 DEF CommitsNothing, LeaseTypeOK
<1>3. CASE RemoveAndDrop(w)
  BY <1>3 DEF RemoveAndDrop, CommitsNothing, LeaseTypeOK
<1>4. \/ marker' = marker \/ RemoveAndDrop(w)
      \/ AcquireThread(w) \/ \E ts \in SUBSET Threads : BeginProject(w, ts)
  BY Zenon DEF leaseVars, BeginThread, RefusedBusy, Rollback, Retain, RecheckProjectThreads,
     InspectAbsent, InspectConflict, AcquireExisting
<1> QED BY <1>1, <1>2, <1>3, <1>4

LEMMA TruthKept ==
    ASSUME DiskTypes, Truth, NEW w \in Workers,
           \A v \in Workers \ {w} : job'[v] = job[v], \A v \in Workers \ {w} : lease'[v] = lease[v],
           stored' \subseteq stored, CommitsNothing,
           job'[w].op \in Deletes /\ job'[w].at \in {"finish", "sweep"} => job'[w].ref \notin stored',
           job'[w].at # "recoverSweep",
           job'[w].at = "fenceCommitted" => Project \notin stored'
    PROVE  Truth'
BY DEF DiskTypes, Truth, CommittedIsGone, CommitsNothing

\* A lease that commits what is gone lies about nothing.
LEMMA TruthCommitted ==
    ASSUME LeaseTypeOK, Truth, NEW w \in Workers,
           \A v \in Workers \ {w} : job'[v] = job[v], stored' = stored,
           Commit(w), lease[w].ref \notin stored,
           job'[w].op \in Deletes /\ job'[w].at \in {"finish", "sweep"} => job'[w].ref \notin stored,
           job'[w].at # "fenceCommitted"
    PROVE  Truth'
BY DEF LeaseTypeOK, Truth, CommittedIsGone, Commit

LEMMA TruthStep ==
    ASSUME ScopeInv, LeaseTypeOK, DiskTypes, Births, Paired, Truth, [Next]_vars
    PROVE  Truth'
<1> USE DEF ScopeInv
<1>1. CASE UNCHANGED vars
  BY <1>1 DEF vars, diskVars, procVars, leaseVars, Truth, CommittedIsGone
<1>2. ASSUME NEW w \in Workers, AskDeleteProject(w) PROVE Truth'
  BY <1>2, TruthKept, OnlyCommitCommits, LeaseAlone, BeginMoves
     DEF AskDeleteProject, diskVars
<1>3. ASSUME NEW w \in Workers, NEW t \in Threads, AskDeleteThread(w, t) PROVE Truth'
  BY <1>3, TruthKept, OnlyCommitCommits, LeaseAlone, BeginMoves
     DEF AskDeleteThread, diskVars
<1>4. ASSUME NEW w \in Workers, NEW t \in Threads, AskClose(w, t) PROVE Truth'
  BY <1>4, TruthKept, OnlyCommitCommits, LeaseAlone, BeginMoves
     DEF AskClose, diskVars
<1>5. ASSUME NEW w \in Workers, NEW t \in Threads, AskSettle(w, t) PROVE Truth'
  BY <1>5, TruthKept, OnlyCommitCommits, LeaseAlone, BeginMoves
     DEF AskSettle, diskVars
<1>6. ASSUME NEW w \in Workers, NEW t \in Threads, Unsettle(w, t) PROVE Truth'
  BY <1>6 DEF Unsettle, procVars, leaseVars, Truth, CommittedIsGone
<1>7. ASSUME NEW w \in Workers, NEW t \in Threads, AskOpen(w, t) PROVE Truth'
  BY <1>7, TruthKept, OnlyCommitCommits, LeaseAlone, BeginMoves
     DEF AskOpen, diskVars
<1>8. ASSUME NEW w \in Workers, NEW t \in Threads, AddThread(w, t) PROVE Truth'
  <2>1. /\ UNCHANGED <<job, lease, marker>> /\ stored' = stored \union {t}
        /\ Project \in stored /\ t \notin born
    BY <1>8 DEF AddThread, procVars, leaseVars
  <2>2. marker[t] = "none" /\ t # Project
    BY <2>1, ProjectAssumption DEF Births, Found
  <2>3. ASSUME NEW v \in Workers PROVE job[v].op \in Deletes => job[v].ref # t
    BY <2>1, <2>2 DEF Deletes, ScopedJobs, Births, ThreadStops
  <2>4. ASSUME NEW v \in Workers PROVE lease[v].phase # "idle" => lease[v].ref # t
    BY <2>1 DEF Births
  <2> QED BY <2>1, <2>2, <2>3, <2>4 DEF Truth, CommittedIsGone
<1>9. ASSUME NEW w \in Workers, StopThreadRefused(w) PROVE Truth'
  BY <1>9, TruthKept, OnlyCommitCommits, LeaseAlone, ReplyMoves
     DEF StopThreadRefused, diskVars
<1>10. ASSUME NEW w \in Workers, StopThread(w) PROVE Truth'
  <2>1. job[w].ref \in Threads
    BY <1>10 DEF StopThread, AtAny, ScopedJobs
  <2> QED BY <1>10, <2>1, TruthKept, OnlyCommitCommits, LeaseAlone, GotoMoves
          DEF StopThread, LeaseStep, diskVars
<1>11. ASSUME NEW w \in Workers, TakeMarker(w) PROVE Truth'
  <2>1. UNCHANGED <<job, stored>> /\ job[w].at \in {"begin", "recheck"}
    BY <1>11 DEF TakeMarker, diskVars, procVars, At, AtAny
  <2> QED BY <1>11, <2>1, TruthKept, OnlyCommitCommits, LeaseAlone DEF TakeMarker, LeaseStep
<1>12. ASSUME NEW w \in Workers, MarkerTaken(w) PROVE Truth'
  BY <1>12, TruthKept, OnlyCommitCommits, LeaseAlone, ReplyMoves
     DEF MarkerTaken, diskVars, LeaseStep
<1>13. ASSUME NEW w \in Workers, ThreadStopGranted(w) PROVE Truth'
  <2>1. Project \in Refs
    BY DEF Refs
  <2> QED BY <1>13, <2>1, TruthKept, OnlyCommitCommits, LeaseAlone, GotoMoves
          DEF ThreadStopGranted, LeaseStep, AfterThreadStop, diskVars
<1>14. ASSUME NEW w \in Workers, StopProjectRefused(w) PROVE Truth'
  BY <1>14, TruthKept, OnlyCommitCommits, LeaseAlone, ReplyMoves
     DEF StopProjectRefused, diskVars
<1>15. ASSUME NEW w \in Workers, StopProject(w) PROVE Truth'
  <2>1. job[w].seen \in SUBSET Threads
    BY <1>15 DEF StopProject, At, ScopedJobs, Reading
  <2> QED BY <1>15, <2>1, TruthKept, OnlyCommitCommits, LeaseAlone, GotoMoves
          DEF StopProject, LeaseStep
<1>16. ASSUME NEW w \in Workers, RefreshProject(w) PROVE Truth'
  <2>1. StoredThreads \in SUBSET Threads
    BY DEF StoredThreads
  <2> QED BY <1>16, <2>1, TruthKept, OnlyCommitCommits, LeaseAlone, ReadsMoves
          DEF RefreshProject, LeaseStep, diskVars
<1>17. ASSUME NEW w \in Workers, RefreshFindsProjectGone(w) PROVE Truth'
  <2>1. CASE Commit(w) /\ Goto(w, "store")
    BY <1>17, <2>1, TruthCommitted, GotoMoves DEF RefreshFindsProjectGone, Granted, diskVars
  <2>2. CASE Retain(w) /\ Reply(w)
    BY <1>17, <2>2, TruthKept, OnlyCommitCommits, LeaseAlone, ReplyMoves
       DEF RefreshFindsProjectGone, LeaseStep, diskVars
  <2> QED BY <1>17, <2>1, <2>2 DEF RefreshFindsProjectGone
<1>18. ASSUME NEW w \in Workers, RefreshFails(w) PROVE Truth'
  BY <1>18, TruthKept, OnlyCommitCommits, LeaseAlone, ReplyMoves
     DEF RefreshFails, diskVars, LeaseStep
<1>19. ASSUME NEW w \in Workers, UpdateCleanupRecipe(w) PROVE Truth'
  <2>1. CASE Rollback(w) /\ Reply(w)
    BY <1>19, <2>1, TruthKept, OnlyCommitCommits, LeaseAlone, ReplyMoves
       DEF UpdateCleanupRecipe, LeaseStep
  <2>2. CASE Goto(w, "store") /\ UNCHANGED leaseVars
    BY <1>19, <2>2, TruthKept, OnlyCommitCommits, LeaseAlone, GotoMoves DEF UpdateCleanupRecipe
  <2> QED BY <1>19, <2>1, <2>2 DEF UpdateCleanupRecipe
<1>20. ASSUME NEW w \in Workers, UpdateCleanupRecipeFails(w) PROVE Truth'
  BY <1>20, TruthKept, OnlyCommitCommits, LeaseAlone, ReplyMoves
     DEF UpdateCleanupRecipeFails, diskVars, LeaseStep
<1>21. ASSUME NEW w \in Workers, StoreDelete(w) PROVE Truth'
  <2>1. stored' \subseteq stored /\ UNCHANGED leaseVars
    BY <1>21 DEF StoreDelete, Removed
  <2>2. CASE stored' = Removed(job[w].ref)
    BY <1>21, <2>1, <2>2, TruthKept, OnlyCommitCommits, LeaseAlone, GotoMoves
       DEF StoreDelete, Removed
  <2>3. CASE Goto(w, "resolve")
    BY <2>1, <2>3, TruthKept, OnlyCommitCommits, LeaseAlone, GotoMoves
  <2> QED BY <1>21, <2>2, <2>3 DEF StoreDelete
<1>22. ASSUME NEW w \in Workers, StoreFindsNothing(w) PROVE Truth'
  BY <1>22, TruthKept, OnlyCommitCommits, LeaseAlone, GotoMoves
     DEF StoreFindsNothing, diskVars
<1>23. ASSUME NEW w \in Workers, ResolveStoreError(w) PROVE Truth'
  BY <1>23, TruthKept, OnlyCommitCommits, LeaseAlone, GotoMoves DEF ResolveStoreError, diskVars
<1>24. ASSUME NEW w \in Workers, CancelStop(w) PROVE Truth'
  BY <1>24, TruthKept, OnlyCommitCommits, LeaseAlone, GotoMoves, ReplyMoves
     DEF CancelStop, diskVars, AfterUnstop, LeaseStep
<1>25. ASSUME NEW w \in Workers, CancelStopAgain(w) PROVE Truth'
  BY <1>25, TruthKept, OnlyCommitCommits, LeaseAlone, ReplyMoves
     DEF CancelStopAgain, diskVars
<1>26. ASSUME NEW w \in Workers, RetainStop(w) PROVE Truth'
  BY <1>26, TruthKept, OnlyCommitCommits, LeaseAlone, GotoMoves, ReplyMoves
     DEF RetainStop, diskVars, AfterUnstop, LeaseStep
<1>27. ASSUME NEW w \in Workers, FinishStop(w) PROVE Truth'
  <2>1. job[w].ref \notin stored /\ lease[w].ref = job[w].ref
    BY <1>27 DEF FinishStop, AtAny, Truth, Paired, Owning
  <2> QED BY <1>27, <2>1, TruthCommitted, GotoMoves DEF FinishStop, diskVars
<1>28. ASSUME NEW w \in Workers, FinishStopFails(w) PROVE Truth'
  BY <1>28, TruthKept, OnlyCommitCommits, LeaseAlone, GotoMoves
     DEF FinishStopFails, diskVars
<1>29. ASSUME NEW w \in Workers, FinishSweep(w) PROVE Truth'
  BY <1>29, TruthKept, OnlyCommitCommits, LeaseAlone, GotoMoves
     DEF FinishSweep, diskVars
<1>30. ASSUME NEW w \in Workers, FinishRelease(w) PROVE Truth'
  BY <1>30, TruthKept, OnlyCommitCommits, LeaseAlone, ReplyMoves
     DEF FinishRelease, diskVars, LeaseStep
<1>31. ASSUME NEW w \in Workers, LockForMutation(w) PROVE Truth'
  BY <1>31, TruthKept, OnlyCommitCommits, LeaseAlone, GotoMoves
     DEF LockForMutation, diskVars
<1>32. ASSUME NEW w \in Workers, StillActive(w) PROVE Truth'
  BY <1>32, TruthKept, OnlyCommitCommits, LeaseAlone, GotoMoves
     DEF StillActive, diskVars
<1>33. ASSUME NEW w \in Workers, CloseInactive(w) PROVE Truth'
  BY <1>33, TruthKept, OnlyCommitCommits, LeaseAlone, GotoMoves
     DEF CloseInactive, diskVars
<1>34. ASSUME NEW w \in Workers, StoreSettled(w) PROVE Truth'
  BY <1>34, TruthKept, OnlyCommitCommits, LeaseAlone, GotoMoves
     DEF StoreSettled, diskVars
<1>35. ASSUME NEW w \in Workers, StoreSettledFails(w) PROVE Truth'
  BY <1>35, TruthKept, OnlyCommitCommits, LeaseAlone, GotoMoves
     DEF StoreSettledFails, diskVars
<1>36. ASSUME NEW w \in Workers, KillSessions(w) PROVE Truth'
  BY <1>36, TruthKept, OnlyCommitCommits, LeaseAlone, GotoMoves
     DEF KillSessions, diskVars
<1>37. ASSUME NEW w \in Workers, OpenReadProject(w) PROVE Truth'
  BY <1>37, TruthKept, OnlyCommitCommits, LeaseAlone, GotoMoves, ReplyMoves
     DEF OpenReadProject, diskVars, OpenRefused
<1>38. ASSUME NEW w \in Workers, OpenReadThread(w) PROVE Truth'
  BY <1>38, TruthKept, OnlyCommitCommits, LeaseAlone, GotoMoves, ReplyMoves
     DEF OpenReadThread, diskVars, OpenRefused
<1>39. ASSUME NEW w \in Workers, OpenReadStore(w) PROVE Truth'
  BY <1>39, TruthKept, OnlyCommitCommits, LeaseAlone, GotoMoves, ReplyMoves
     DEF OpenReadStore, diskVars, OpenRefused
<1>40. ASSUME NEW w \in Workers, OpenCreate(w) PROVE Truth'
  BY <1>40, TruthKept, OnlyCommitCommits, LeaseAlone, GotoMoves
     DEF OpenCreate, diskVars
<1>41. ASSUME NEW w \in Workers, FenceReadProject(w) PROVE Truth'
  <2>1. Observed = "fenceCommitted" => Project \notin stored
    BY DEF Observed, Truth, CommittedIsGone, LeaseTypeOK, MarkerStates, Found, Refs
  <2>2. Observed \in {"fenceNone", "fencePending", "fenceCommitted"}
    BY DEF Observed
  <2> HIDE DEF Observed
  <2> QED BY <1>41, <2>1, <2>2, TruthKept, OnlyCommitCommits, LeaseAlone, ReadsMoves
          DEF FenceReadProject, diskVars
<1>42. ASSUME NEW w \in Workers, FenceReadThread(w) PROVE Truth'
  BY <1>42, TruthKept, OnlyCommitCommits, LeaseAlone, ReplyMoves
     DEF FenceReadThread, diskVars
<1>43. ASSUME NEW w \in Workers, NEW r \in Refs, StopConflict(w, r) PROVE Truth'
  BY <1>43, TruthKept, OnlyCommitCommits, LeaseAlone, ReplyMoves
     DEF StopConflict, diskVars, LeaseStep
<1>44. ASSUME NEW w \in Workers, NEW r \in Refs, ReadThreadMarker(w, r) PROVE Truth'
  <2>1. UNCHANGED <<job, stored>> /\ job[w].at \in {"begin", "recheck"}
    BY <1>44 DEF ReadThreadMarker, diskVars, procVars, At, AtAny
  <2> QED BY <1>44, <2>1, TruthKept, OnlyCommitCommits, LeaseAlone DEF ReadThreadMarker, LeaseStep
<1>45. ASSUME NEW w \in Workers, NEW r \in Refs, RecoverMarker(w, r) PROVE Truth'
  BY <1>45, TruthKept, OnlyCommitCommits, LeaseAlone, ReadsMoves
     DEF RecoverMarker, diskVars, LeaseStep
<1>46. ASSUME NEW w \in Workers, NEW r \in Refs, SkipMarker(w, r) PROVE Truth'
  BY <1>46, TruthKept, OnlyCommitCommits, LeaseAlone, ReadsMoves
     DEF SkipMarker, diskVars
<1>47. ASSUME NEW w \in Workers, RetainAmbiguous(w) PROVE Truth'
  BY <1>47, TruthKept, OnlyCommitCommits, LeaseAlone, GotoMoves
     DEF RetainAmbiguous, diskVars, EndRecovery, LeaseStep
<1>48. ASSUME NEW w \in Workers, CommitRecovered(w) PROVE Truth'
  <2>1. lease[w].ref \notin stored
    BY <1>48 DEF CommitRecovered, Truth, CommittedIsGone
  <2> QED BY <1>48, <2>1, TruthCommitted, GotoMoves DEF CommitRecovered, diskVars
<1>49. ASSUME NEW w \in Workers, RecoveryFails(w) PROVE Truth'
  BY <1>49, TruthKept, OnlyCommitCommits, LeaseAlone, GotoMoves
     DEF RecoveryFails, diskVars, EndRecovery, LeaseStep
<1>50. ASSUME NEW w \in Workers, RecoverSweep(w) PROVE Truth'
  BY <1>50, TruthKept, OnlyCommitCommits, LeaseAlone, GotoMoves
     DEF RecoverSweep, diskVars, EndRecovery, LeaseStep
<1>51. ASSUME NEW w \in Workers, Recovered(w) PROVE Truth'
  BY <1>51, TruthKept, OnlyCommitCommits, LeaseAlone, ReplyMoves
     DEF Recovered, diskVars
<1>52. ASSUME NEW p \in Processes, Crash(p) PROVE Truth'
  <2>1. ASSUME NEW v \in Workers, v \in Local(p)
        PROVE  job'[v].op \notin Deletes /\ job'[v].at = "none"
    BY <1>52, <2>1 DEF Crash, NoJob, Deletes
  <2>2. ASSUME NEW v \in Workers, v \notin Local(p) PROVE job'[v] = job[v] /\ lease'[v] = lease[v]
    BY <1>52, <2>2 DEF Crash, CrashLeases
  <2>3. UNCHANGED <<stored, marker>>
    BY <1>52 DEF Crash, CrashLeases
  <2> QED BY <2>1, <2>2, <2>3 DEF Truth, CommittedIsGone
<1>53. ASSUME NEW p \in Processes, Boot(p) PROVE Truth'
  <2> DEFINE w == CHOOSE v \in Local(p) : TRUE
             found == {r \in Refs : Found(r)}
  <2>1. /\ Begin(w, "boot", "recover", Project, found) /\ UNCHANGED <<leaseVars, stored>>
        /\ w \in Workers
    BY <1>53, TerminalStopAssumption DEF Boot, Local, diskVars
  <2> HIDE DEF w, found
  <2> QED BY <2>1, TruthKept, OnlyCommitCommits, LeaseAlone, BeginMoves
<1> QED
  BY <1>1, <1>2, <1>3, <1>4, <1>5, <1>6, <1>7, <1>8, <1>9, <1>10, <1>11, <1>12, <1>13, <1>14,
     <1>15, <1>16, <1>17, <1>18, <1>19, <1>20, <1>21, <1>22, <1>23, <1>24, <1>25, <1>26, <1>27,
     <1>28, <1>29, <1>30, <1>31, <1>32, <1>33, <1>34, <1>35, <1>36, <1>37, <1>38, <1>39, <1>40,
     <1>41, <1>42, <1>43, <1>44, <1>45, <1>46, <1>47, <1>48, <1>49, <1>50, <1>51, <1>52, <1>53
     DEF Next, Ask, Work

-----------------------------------------------------------------------------
\* Only a deletion that took place, or the holder of the flock, ends a session.
Spared ==
    \A t \in sessions \ sessions' :
        \/ t \notin stored
        \/ mutation[t] # Nobody /\ job[mutation[t]].op \in FenceUsers

LEMMA SweepsWhatIsGone ==
    ASSUME ScopeInv, DiskTypes, NEW r \in Refs, r \notin stored
    PROVE  \A t \in Sweeps(r) : t \notin stored
BY DEF ScopeInv, DiskTypes, StoredThreads, Sweeps, Refs

LEMMA SparedStep ==
    ASSUME ScopeInv, LeaseTypeOK, DiskTypes, Held, Truth, [Next]_vars
    PROVE  Spared
<1>1. CASE UNCHANGED vars
  BY <1>1 DEF vars, diskVars, Spared
<1>2. ASSUME NEW w \in Workers, AskDeleteProject(w) PROVE Spared
  BY <1>2 DEF AskDeleteProject, diskVars, Spared
<1>3. ASSUME NEW w \in Workers, NEW t \in Threads, AskDeleteThread(w, t) PROVE Spared
  BY <1>3 DEF AskDeleteThread, diskVars, Spared
<1>4. ASSUME NEW w \in Workers, NEW t \in Threads, AskClose(w, t) PROVE Spared
  BY <1>4 DEF AskClose, diskVars, Spared
<1>5. ASSUME NEW w \in Workers, NEW t \in Threads, AskSettle(w, t) PROVE Spared
  BY <1>5 DEF AskSettle, diskVars, Spared
<1>6. ASSUME NEW w \in Workers, NEW t \in Threads, Unsettle(w, t) PROVE Spared
  BY <1>6 DEF Unsettle, Spared
<1>7. ASSUME NEW w \in Workers, NEW t \in Threads, AskOpen(w, t) PROVE Spared
  BY <1>7 DEF AskOpen, diskVars, Spared
<1>8. ASSUME NEW w \in Workers, NEW t \in Threads, AddThread(w, t) PROVE Spared
  BY <1>8 DEF AddThread, Spared
<1>9. ASSUME NEW w \in Workers, StopThreadRefused(w) PROVE Spared
  BY <1>9 DEF StopThreadRefused, diskVars, Spared
<1>10. ASSUME NEW w \in Workers, StopThread(w) PROVE Spared
  BY <1>10 DEF StopThread, diskVars, Spared
<1>11. ASSUME NEW w \in Workers, TakeMarker(w) PROVE Spared
  BY <1>11 DEF TakeMarker, diskVars, Spared
<1>12. ASSUME NEW w \in Workers, MarkerTaken(w) PROVE Spared
  BY <1>12 DEF MarkerTaken, diskVars, Spared
<1>13. ASSUME NEW w \in Workers, ThreadStopGranted(w) PROVE Spared
  BY <1>13 DEF ThreadStopGranted, diskVars, Spared
<1>14. ASSUME NEW w \in Workers, StopProjectRefused(w) PROVE Spared
  BY <1>14 DEF StopProjectRefused, diskVars, Spared
<1>15. ASSUME NEW w \in Workers, StopProject(w) PROVE Spared
  BY <1>15 DEF StopProject, Spared
<1>16. ASSUME NEW w \in Workers, RefreshProject(w) PROVE Spared
  BY <1>16 DEF RefreshProject, diskVars, Spared
<1>17. ASSUME NEW w \in Workers, RefreshFindsProjectGone(w) PROVE Spared
  BY <1>17 DEF RefreshFindsProjectGone, diskVars, Spared
<1>18. ASSUME NEW w \in Workers, RefreshFails(w) PROVE Spared
  BY <1>18 DEF RefreshFails, diskVars, Spared
<1>19. ASSUME NEW w \in Workers, UpdateCleanupRecipe(w) PROVE Spared
  BY <1>19 DEF UpdateCleanupRecipe, Spared
<1>20. ASSUME NEW w \in Workers, UpdateCleanupRecipeFails(w) PROVE Spared
  BY <1>20 DEF UpdateCleanupRecipeFails, diskVars, Spared
<1>21. ASSUME NEW w \in Workers, StoreDelete(w) PROVE Spared
  BY <1>21 DEF StoreDelete, Spared
<1>22. ASSUME NEW w \in Workers, StoreFindsNothing(w) PROVE Spared
  BY <1>22 DEF StoreFindsNothing, diskVars, Spared
<1>23. ASSUME NEW w \in Workers, ResolveStoreError(w) PROVE Spared
  BY <1>23 DEF ResolveStoreError, diskVars, Spared
<1>24. ASSUME NEW w \in Workers, CancelStop(w) PROVE Spared
  BY <1>24 DEF CancelStop, diskVars, Spared
<1>25. ASSUME NEW w \in Workers, CancelStopAgain(w) PROVE Spared
  BY <1>25 DEF CancelStopAgain, diskVars, Spared
<1>26. ASSUME NEW w \in Workers, RetainStop(w) PROVE Spared
  BY <1>26 DEF RetainStop, diskVars, Spared
<1>27. ASSUME NEW w \in Workers, FinishStop(w) PROVE Spared
  BY <1>27 DEF FinishStop, diskVars, Spared
<1>28. ASSUME NEW w \in Workers, FinishStopFails(w) PROVE Spared
  BY <1>28 DEF FinishStopFails, diskVars, Spared
<1>29. ASSUME NEW w \in Workers, FinishSweep(w) PROVE Spared
  <2>1. job[w].ref \in Refs /\ job[w].ref \notin stored
    BY <1>29, JobIs DEF FinishSweep, AtAny, Truth, ScopeInv
  <2> QED BY <1>29, <2>1, SweepsWhatIsGone DEF FinishSweep, Sweep, Kill, Spared
<1>30. ASSUME NEW w \in Workers, FinishRelease(w) PROVE Spared
  BY <1>30 DEF FinishRelease, diskVars, Spared
<1>31. ASSUME NEW w \in Workers, LockForMutation(w) PROVE Spared
  BY <1>31 DEF LockForMutation, diskVars, Spared
<1>32. ASSUME NEW w \in Workers, StillActive(w) PROVE Spared
  BY <1>32 DEF StillActive, diskVars, Spared
<1>33. ASSUME NEW w \in Workers, CloseInactive(w) PROVE Spared
  BY <1>33 DEF CloseInactive, Spared
<1>34. ASSUME NEW w \in Workers, StoreSettled(w) PROVE Spared
  BY <1>34 DEF StoreSettled, Spared
<1>35. ASSUME NEW w \in Workers, StoreSettledFails(w) PROVE Spared
  BY <1>35 DEF StoreSettledFails, Spared
<1>36. ASSUME NEW w \in Workers, KillSessions(w) PROVE Spared
  <2>1. mutation[job[w].ref] = w /\ job[w].op \in FenceUsers
    BY <1>36 DEF KillSessions, AtAny, Held, Holding
  <2> QED BY <1>36, <2>1, TerminalStopAssumption DEF KillSessions, Sweep, Kill, Spared
<1>37. ASSUME NEW w \in Workers, OpenReadProject(w) PROVE Spared
  BY <1>37 DEF OpenReadProject, Spared
<1>38. ASSUME NEW w \in Workers, OpenReadThread(w) PROVE Spared
  BY <1>38 DEF OpenReadThread, Spared
<1>39. ASSUME NEW w \in Workers, OpenReadStore(w) PROVE Spared
  BY <1>39 DEF OpenReadStore, Spared
<1>40. ASSUME NEW w \in Workers, OpenCreate(w) PROVE Spared
  BY <1>40 DEF OpenCreate, Spared
<1>41. ASSUME NEW w \in Workers, FenceReadProject(w) PROVE Spared
  BY <1>41 DEF FenceReadProject, diskVars, Spared
<1>42. ASSUME NEW w \in Workers, FenceReadThread(w) PROVE Spared
  <2>1. job[w].ref \in Refs
    BY JobIs DEF ScopeInv
  <2>2. ASSUME NEW t \in sessions, t \in FencedSessions(w) PROVE t \notin stored
    BY <2>1, <2>2 DEF FencedSessions, Truth, CommittedIsGone, DiskTypes, StoredThreads
  <2> QED BY <1>42, <2>2 DEF FenceReadThread, Sweep, Kill, Spared
<1>43. ASSUME NEW w \in Workers, NEW r \in Refs, StopConflict(w, r) PROVE Spared
  BY <1>43 DEF StopConflict, diskVars, Spared
<1>44. ASSUME NEW w \in Workers, NEW r \in Refs, ReadThreadMarker(w, r) PROVE Spared
  BY <1>44 DEF ReadThreadMarker, diskVars, Spared
<1>45. ASSUME NEW w \in Workers, NEW r \in Refs, RecoverMarker(w, r) PROVE Spared
  BY <1>45 DEF RecoverMarker, diskVars, Spared
<1>46. ASSUME NEW w \in Workers, NEW r \in Refs, SkipMarker(w, r) PROVE Spared
  BY <1>46 DEF SkipMarker, diskVars, Spared
<1>47. ASSUME NEW w \in Workers, RetainAmbiguous(w) PROVE Spared
  BY <1>47 DEF RetainAmbiguous, diskVars, Spared
<1>48. ASSUME NEW w \in Workers, CommitRecovered(w) PROVE Spared
  BY <1>48 DEF CommitRecovered, diskVars, Spared
<1>49. ASSUME NEW w \in Workers, RecoveryFails(w) PROVE Spared
  BY <1>49 DEF RecoveryFails, diskVars, Spared
<1>50. ASSUME NEW w \in Workers, RecoverSweep(w) PROVE Spared
  <2>1. lease[w].ref \in Refs /\ lease[w].ref \notin stored
    BY <1>50 DEF RecoverSweep, Truth, LeaseTypeOK, Leases
  <2> QED BY <1>50, <2>1, SweepsWhatIsGone DEF RecoverSweep, Sweep, Kill, Spared
<1>51. ASSUME NEW w \in Workers, Recovered(w) PROVE Spared
  BY <1>51 DEF Recovered, diskVars, Spared
<1>52. ASSUME NEW p \in Processes, Crash(p) PROVE Spared
  BY <1>52 DEF Crash, Spared
<1>53. ASSUME NEW p \in Processes, Boot(p) PROVE Spared
  BY <1>53 DEF Boot, diskVars, Spared
<1> QED
  BY <1>1, <1>2, <1>3, <1>4, <1>5, <1>6, <1>7, <1>8, <1>9, <1>10, <1>11, <1>12, <1>13, <1>14,
     <1>15, <1>16, <1>17, <1>18, <1>19, <1>20, <1>21, <1>22, <1>23, <1>24, <1>25, <1>26, <1>27,
     <1>28, <1>29, <1>30, <1>31, <1>32, <1>33, <1>34, <1>35, <1>36, <1>37, <1>38, <1>39, <1>40,
     <1>41, <1>42, <1>43, <1>44, <1>45, <1>46, <1>47, <1>48, <1>49, <1>50, <1>51, <1>52, <1>53
     DEF Next, Ask, Work

-----------------------------------------------------------------------------
\* Sessions after a deletion or a settlement, as long as nothing fails.

\* A deletion that took place is on disk: its marker says so, or will before its
\* owner does anything else.
GoneMarked(r) ==
    \/ marker[r] = "committed"
    \/ \E v \in Workers : AtAny(v, Deletes, "finish") /\ job[v].ref = r

\* An opening that may still create its session, or has and not looked back.
Entering == {"readThread", "readStore", "create", "fence"}
Opens(v, t) == job[v].op = "open" /\ job[v].at \in Entering /\ job[v].ref = t

\* Who will still end the session of a thread that is gone: the deletion of the
\* thread, the deletion of the project, or the fence of its own opening.
Fences == {"fenceNone", "fencePending", "fenceCommitted"}
ThreadSweeper(v, t) ==
    job[v].op = "deleteThread" /\ job[v].at \in {"finish", "sweep"} /\ job[v].ref = t
ProjectSweeper(v, t) ==
    /\ job[v].op = "deleteProject" /\ job[v].at \in {"finish", "sweep"}
    /\ Project \notin stored /\ t \in recipe
FenceSweeper(v, t) ==
    /\ job[v].op = "open" /\ job[v].ref = t
    /\ \/ job[v].at = "fence"
       \/ job[v].at \in Fences /\ GoneMarked(t)
       \/ job[v].at \in {"fencePending", "fenceCommitted"} /\ Project \notin stored /\ t \in job[v].seen
WillSweep(v, t) == ThreadSweeper(v, t) \/ ProjectSweeper(v, t) \/ FenceSweeper(v, t)
WillKill(v, t) == At(v, "settle", "kill") /\ job[v].ref = t

\* An opening of a thread that is gone finds a marker that tells its fence so, and
\* none creates the session of a settled thread.
Told(v) ==
    job[v].op = "open" /\ job[v].at \in {"create", "fence"} /\ job[v].ref \notin stored =>
        GoneMarked(job[v].ref) \/ (Project \notin stored /\ job[v].ref \in recipe)
Fresh(v) == At(v, "open", "create") => job[v].ref \notin settled

\* Whatever has a session, or may be given one, is in the membership a project
\* stop read after its marker was visible, and so in its recipe.
Gathers(w) == job[w].op = "deleteProject" /\ job[w].at \in {"recheck", "store"}
Gathered(w) == IF job[w].at = "recheck" THEN job[w].seen ELSE recipe
Covers(w) ==
    Gathers(w) =>
        /\ job[w].at = "recheck" => Project \in stored
        /\ Project \in stored =>
              \A t \in StoredThreads :
                 t \in sessions \/ (\E v \in Workers : Opens(v, t)) => t \in Gathered(w)

\* The session of a settled thread is about to be killed, and that of a thread
\* that is gone about to be swept.
Settling == \A t \in sessions \intersect settled \intersect stored : \E v \in Workers : WillKill(v, t)
Sweeping == \A t \in sessions \ stored : \E v \in Workers : WillSweep(v, t)
ProjectTold == Project \notin stored => GoneMarked(Project)
Clean == /\ Settling /\ Sweeping /\ ProjectTold
         /\ \A v \in Workers : Told(v) /\ Fresh(v) /\ Covers(v)

\* The invariants proved so far, of an execution in which nothing has failed yet.
Untroubled ==
    /\ ScopeInv /\ DiskTypes /\ Held /\ Births /\ Paired /\ Truth
    /\ LeaseTypeOK /\ OneOwner
    /\ Clean /\ troubles = 0

\* A marker that says committed goes on saying so.
CommitsLast == \A r \in Refs : marker[r] = "committed" => marker'[r] = "committed"

LEMMA CommitsStay == ASSUME LeaseTypeOK, [LeaseNext]_leaseVars PROVE CommitsLast
<1> USE DEF LeaseTypeOK, CommitsLast
<1>1. CASE marker' = marker
  BY <1>1
<1>2. ASSUME NEW r, marker' = [marker EXCEPT ![r] = IF Found(r) THEN @ ELSE "pending"] PROVE CommitsLast
  BY <1>2 DEF Found
<1>3. ASSUME NEW w \in Workers, RemoveAndDrop(w) PROVE CommitsLast
  BY <1>3 DEF RemoveAndDrop
<1>4. ASSUME NEW w \in Workers, Commit(w) PROVE CommitsLast
  BY <1>4 DEF Commit
<1>5. \/ marker' = marker
      \/ \E r : marker' = [marker EXCEPT ![r] = IF Found(r) THEN @ ELSE "pending"]
      \/ \E w \in Workers : RemoveAndDrop(w) \/ Commit(w)
  <2>1. CASE UNCHANGED leaseVars \/ \E ws \in SUBSET Workers : CrashLeases(ws)
    BY <2>1 DEF leaseVars, CrashLeases
  <2>2. ASSUME NEW w \in Workers, LeaseStep(w)
        PROVE \/ marker' = marker
              \/ \E r : marker' = [marker EXCEPT ![r] = IF Found(r) THEN @ ELSE "pending"]
              \/ RemoveAndDrop(w) \/ Commit(w)
    BY <2>2, Zenon DEF LeaseStep, BeginThread, AcquireThread, RefusedBusy, BeginProject, Acquire,
       RecheckProjectThreads, InspectAbsent, InspectConflict, AcquireExisting, Rollback, Retain
  <2> QED BY <2>1, <2>2 DEF LeaseNext
<1> QED BY <1>1, <1>2, <1>3, <1>4, <1>5

\* So a deletion that is on disk stays there: its owner leaves "finish" only by
\* committing the marker.
GoneLasts == \A r \in Refs : GoneMarked(r) => GoneMarked(r)'

LEMMA GoneStays ==
    ASSUME CommitsLast, NEW w \in Workers, \A v \in Workers \ {w} : job'[v] = job[v],
           AtAny(w, Deletes, "finish") => job'[w] = job[w] \/ marker'[job[w].ref] = "committed"
    PROVE  GoneLasts
<1> SUFFICES ASSUME NEW r \in Refs, GoneMarked(r) PROVE GoneMarked(r)'
  BY DEF GoneLasts
<1>1. CASE marker[r] = "committed"
  BY <1>1 DEF CommitsLast, GoneMarked
<1>2. ASSUME NEW v \in Workers, AtAny(v, Deletes, "finish"), job[v].ref = r PROVE GoneMarked(r)'
  <2>1. CASE job'[v] = job[v]
    BY <1>2, <2>1 DEF GoneMarked, AtAny
  <2> QED BY <1>2, <2>1 DEF GoneMarked
<1> QED BY <1>1, <1>2 DEF GoneMarked

\* Whoever is deciding on a deletion has the marker to itself, and it is there.
LEMMA OwnsMarker ==
    ASSUME Paired, OneOwner, ScopeInv, NEW w \in Workers, job[w].op \in Deletes,
           job[w].at \in {"recheck", "store", "resolve", "finish"}
    PROVE  /\ Holds(w, job[w].ref) /\ Found(job[w].ref)
           /\ \A v \in Workers : Holds(v, job[w].ref) => v = w
<1>1. job[w].ref \in Refs
  BY JobIs DEF ScopeInv
<1>2. Holds(w, job[w].ref)
  BY DEF Paired, Owning, Acquired, Holds
<1> QED BY <1>1, <1>2 DEF OneOwner

\* At most one project stop gathers, and while it does the project marker is there.
LEMMA OneGathers ==
    ASSUME Paired, OneOwner, ScopeInv, NEW w \in Workers, Gathers(w)
    PROVE  Found(Project) /\ \A v \in Workers : Holds(v, Project) => v = w
<1>1. job[w].ref = Project /\ job[w].op \in Deletes
  BY DEF Gathers, ScopeInv, ScopedJobs, Deletes
<1> QED BY <1>1, OwnsMarker DEF Gathers

LEMMA GoneIsFound ==
    ASSUME Paired, OneOwner, ScopeInv, NEW r, GoneMarked(r)
    PROVE  Found(r)
<1>1. CASE marker[r] = "committed"
  BY <1>1 DEF Found
<1>2. ASSUME NEW v \in Workers, AtAny(v, Deletes, "finish"), job[v].ref = r PROVE Found(r)
  BY <1>2, OwnsMarker DEF AtAny
<1> QED BY <1>1, <1>2 DEF GoneMarked

\* A failing call makes trouble.
LEMMA NoFailure == ASSUME troubles = 0, troubles' = 0 PROVE ~Fail
BY DEF Fail

\* A step that leaves the Store and the recipe alone keeps the promises that
\* its worker does not take back.
LEMMA CleanMoved ==
    ASSUME ScopeInv, DiskTypes, Clean, NEW w \in Workers, \A v \in Workers \ {w} : job'[v] = job[v],
           stored' = stored, recipe' = recipe, GoneLasts,
           \A t \in sessions' \intersect settled' \intersect stored :
              (t \in sessions /\ t \in settled /\ ~WillKill(w, t)) \/ WillKill(w, t)',
           \A t \in sessions' \ stored : (t \in sessions /\ ~WillSweep(w, t)) \/ WillSweep(w, t)',
           Told(w)', Fresh(w)', Covers(w)',
           \A v \in Workers \ {w} : At(v, "open", "create") => job[v].ref \notin settled' \ settled,
           \/ \A v \in Workers \ {w} : ~Gathers(v)
           \/ \A t \in StoredThreads : t \in sessions' \/ Opens(w, t)' => t \in sessions \/ Opens(w, t)
    PROVE  Clean'
<1>1. Settling'
  <2> SUFFICES ASSUME NEW t \in sessions' \intersect settled' \intersect stored
               PROVE  \E v \in Workers : WillKill(v, t)'
    BY DEF Settling
  <2>1. CASE t \in sessions /\ t \in settled /\ ~WillKill(w, t)
    <3>1. PICK v \in Workers : WillKill(v, t)
      BY <2>1 DEF Clean, Settling
    <3>2. job'[v] = job[v]
      BY <2>1, <3>1
    <3> QED BY <3>1, <3>2 DEF WillKill, At
  <2> QED BY <2>1
<1>2. ASSUME NEW v \in Workers, NEW t \in Refs, WillSweep(v, t), job'[v] = job[v] PROVE WillSweep(v, t)'
  BY <1>2 DEF WillSweep, ThreadSweeper, ProjectSweeper, FenceSweeper, GoneLasts
<1>3. Sweeping'
  <2> SUFFICES ASSUME NEW t \in sessions' \ stored PROVE \E v \in Workers : WillSweep(v, t)'
    BY DEF Sweeping
  <2>1. CASE t \in sessions /\ ~WillSweep(w, t)
    <3>1. PICK v \in Workers : WillSweep(v, t)
      BY <2>1 DEF Clean, Sweeping
    <3>2. job'[v] = job[v] /\ t \in Refs
      BY <2>1, <3>1 DEF DiskTypes, Refs
    <3> QED BY <1>2, <3>1, <3>2
  <2> QED BY <2>1
<1>4. ProjectTold'
  BY DEF Clean, ProjectTold, GoneLasts, Refs
<1>5. ASSUME NEW v \in Workers PROVE (Told(v) /\ Fresh(v) /\ Covers(v))'
  <2>1. CASE v = w
    BY <2>1
  <2> SUFFICES ASSUME v # w PROVE (Told(v) /\ Fresh(v) /\ Covers(v))'
    BY <2>1
  <2>2. job'[v] = job[v] /\ Told(v) /\ Fresh(v) /\ Covers(v) /\ job[v].ref \in Refs
    BY JobIs DEF Clean, ScopeInv
  <2>3. Told(v)'
    BY <2>2 DEF Told, GoneLasts
  <2>4. Fresh(v)'
    BY <2>2 DEF Fresh, At
  <2>5. Covers(v)'
    <3>1. CASE ~Gathers(v)
      BY <2>2, <3>1 DEF Covers, Gathers
    <3>2. CASE Gathers(v)
      <4>1. \A t \in StoredThreads : t \in sessions' \/ Opens(w, t)' => t \in sessions \/ Opens(w, t)
        BY <3>2
      <4>2. \A u \in Workers \ {w} : \A t : Opens(u, t)' => Opens(u, t)
        BY DEF Opens
      <4>3. \A t \in StoredThreads :
               t \in sessions' \/ (\E u \in Workers : Opens(u, t)') => t \in sessions \/ \E u \in Workers : Opens(u, t)
        BY <4>1, <4>2
      <4>4. /\ Gathered(v)' = Gathered(v) /\ StoredThreads' = StoredThreads
            /\ job[v].at = "recheck" => Project \in stored
        BY <2>2, <3>2 DEF Gathered, StoredThreads, Covers
      <4> QED BY <2>2, <3>2, <4>3, <4>4 DEF Covers
    <3> QED BY <3>1, <3>2
  <2> QED BY <2>3, <2>4, <2>5
<1> QED BY <1>1, <1>3, <1>4, <1>5 DEF Clean

\* What a worker owes a session that must end, and what it may not do before
\* others have looked.
Dutiful(w) ==
    \/ job[w].op \in Deletes /\ job[w].at \in {"finish", "sweep"}
    \/ job[w].op = "open" /\ job[w].at \in {"fence"} \union Fences
    \/ At(w, "settle", "kill")
Burdened(w) == (job[w].op = "open" /\ job[w].at \in Entering) \/ Gathers(w)

\* A step between others, that gives no thread a session and settles none.
LEMMA PlainCleans ==
    ASSUME ScopeInv, DiskTypes, Clean, CommitsLast, NEW w \in Workers,
           \A v \in Workers \ {w} : job'[v] = job[v],
           stored' = stored, recipe' = recipe, sessions' \subseteq sessions, settled' \subseteq settled,
           job'[w] = job[w] \/ (~Dutiful(w) /\ ~Burdened(w)')
    PROVE  Clean'
<1>1. GoneLasts
  BY GoneStays DEF Dutiful, AtAny
<1>2. Told(w) /\ Fresh(w) /\ Covers(w) /\ job[w].ref \in Refs
  BY JobIs DEF Clean, ScopeInv
<1>3. \A t : Opens(w, t)' => Opens(w, t)
  BY DEF Opens, Burdened
<1>4. Told(w)' /\ Fresh(w)'
  <2>1. CASE job'[w] = job[w]
    BY <1>1, <1>2, <2>1 DEF Told, Fresh, At, GoneLasts
  <2>2. CASE ~Burdened(w)'
    BY <2>2 DEF Told, Fresh, At, Burdened, Entering
  <2> QED BY <2>1, <2>2
<1>5. Covers(w)'
  <2>1. CASE job'[w] = job[w]
    <3>1. \A t : (\E v \in Workers : Opens(v, t)') => \E v \in Workers : Opens(v, t)
      BY <1>3 DEF Opens
    <3>2. Gathers(w)' = Gathers(w) /\ Gathered(w)' = Gathered(w) /\ StoredThreads' = StoredThreads
      BY <2>1 DEF Gathers, Gathered, StoredThreads
    <3> QED BY <1>2, <2>1, <3>1, <3>2 DEF Covers
  <2>2. CASE ~Burdened(w)'
    BY <2>2 DEF Burdened, Covers
  <2> QED BY <2>1, <2>2
<1>6. \A t \in sessions' \intersect settled' \intersect stored :
         (t \in sessions /\ t \in settled /\ ~WillKill(w, t)) \/ WillKill(w, t)'
  BY DEF WillKill, At, Dutiful
<1>7. \A t \in sessions' \ stored : (t \in sessions /\ ~WillSweep(w, t)) \/ WillSweep(w, t)'
  <2>1. CASE job'[w] = job[w]
    BY <1>1, <2>1
       DEF WillSweep, ThreadSweeper, ProjectSweeper, FenceSweeper, GoneLasts, DiskTypes,
           Refs
  <2>2. CASE ~Dutiful(w)
    BY <2>2 DEF WillSweep, ThreadSweeper, ProjectSweeper, FenceSweeper, Dutiful, Deletes, Fences
  <2> QED BY <2>1, <2>2
<1> QED BY <1>1, <1>3, <1>4, <1>5, <1>6, <1>7, CleanMoved

\* A thread that is added has never had a session, nor been asked for one.
LEMMA AddThreadCleans ==
    ASSUME Untroubled, NEW w \in Workers, NEW t \in Threads, AddThread(w, t)
    PROVE  Clean'
<1>1. /\ UNCHANGED <<job, marker, settled, recipe, sessions>>
      /\ stored' = stored \union {t} /\ Project \in stored /\ t \notin sessions
      /\ \A v \in Workers : ~Opens(v, t)
  BY DEF AddThread, leaseVars, procVars, Untroubled, Births, Opens
<1>2. ScopeInv /\ DiskTypes /\ Clean
  BY DEF Untroubled
<1>3. \A r : GoneMarked(r)' = GoneMarked(r)
  BY <1>1 DEF GoneMarked, AtAny
<1>4. \A v \in Workers, u \in sessions : WillSweep(v, u)' = WillSweep(v, u)
  BY <1>1, <1>3, ProjectAssumption DEF WillSweep, ThreadSweeper, ProjectSweeper, FenceSweeper
<1>5. Settling' /\ Sweeping' /\ ProjectTold'
  BY <1>1, <1>2, <1>4 DEF Clean, Settling, Sweeping, ProjectTold, WillKill, At
<1>6. ASSUME NEW v \in Workers PROVE (Told(v) /\ Fresh(v) /\ Covers(v))'
  <2>1. Told(v) /\ Fresh(v) /\ Covers(v)
    BY <1>2 DEF Clean
  <2>2. Told(v)' /\ Fresh(v)'
    BY <1>1, <1>3, <2>1 DEF Told, Fresh, At
  <2>3. Covers(v)'
    <3>1. StoredThreads' \subseteq StoredThreads \union {t}
      BY <1>1 DEF StoredThreads
    <3>2. \A u : (\E x \in Workers : Opens(x, u))' = \E x \in Workers : Opens(x, u)
      BY <1>1 DEF Opens
    <3> QED BY <1>1, <2>1, <3>1, <3>2 DEF Covers, Gathers, Gathered
  <2> QED BY <2>2, <2>3
<1> QED BY <1>5, <1>6 DEF Clean

\* A new recipe of a project that is still stored, written by the only stop that
\* gathers, takes nothing from anyone.
LEMMA CleanRecipe ==
    ASSUME Untroubled, CommitsLast, NEW w \in Workers, \A v \in Workers \ {w} : job'[v] = job[v],
           UNCHANGED <<stored, settled, sessions>>, Project \in stored,
           job[w].op = "deleteProject", job[w].at \in {"stop", "recheck"},
           job'[w].op \in {"none", "deleteProject"}, job'[w].at \in {"none", "begin", "store"},
           \A v \in Workers \ {w} : ~Gathers(v),
           job'[w].at = "store" => recipe' = job[w].seen /\ Gathers(w) /\ Covers(w)
    PROVE  Clean'
<1>1. ScopeInv /\ DiskTypes /\ Clean
  BY DEF Untroubled
<1>2. GoneLasts
  BY GoneStays DEF AtAny
<1>3. \A v \in Workers, t \in sessions : WillSweep(v, t) => WillSweep(v, t)'
  BY <1>1, <1>2
     DEF WillSweep, ThreadSweeper, ProjectSweeper, FenceSweeper, GoneLasts, DiskTypes, Refs
<1>4. Settling' /\ Sweeping' /\ ProjectTold'
  BY <1>1, <1>3 DEF Clean, Settling, Sweeping, ProjectTold, WillKill, At
<1>5. ASSUME NEW v \in Workers PROVE (Told(v) /\ Fresh(v))'
  <2>1. Told(v) /\ Fresh(v) /\ job[v].ref \in Refs
    BY <1>1, JobIs DEF Clean, ScopeInv
  <2> QED BY <1>2, <2>1 DEF Told, Fresh, At, GoneLasts
<1>6. ASSUME NEW v \in Workers PROVE Covers(v)'
  <2>1. CASE v # w
    BY <2>1 DEF Covers, Gathers
  <2>2. CASE v = w /\ job'[w].at = "store"
    <3>1. \A u : (\E x \in Workers : Opens(x, u)') => \E x \in Workers : Opens(x, u)
      BY DEF Opens
    <3>2. Gathered(w)' = Gathered(w) /\ StoredThreads' = StoredThreads
      BY <2>2 DEF Gathered, StoredThreads, Gathers
    <3> QED BY <2>2, <3>1, <3>2 DEF Covers
  <2>3. CASE v = w /\ job'[w].at # "store"
    BY <2>3 DEF Covers, Gathers
  <2> QED BY <2>1, <2>2, <2>3
<1> QED BY <1>4, <1>5, <1>6 DEF Clean

\* A project stop writes a recipe with its marker only when there was none: then
\* no deletion of the project has taken place and nobody else decides on one.
LEMMA StopProjectCleans ==
    ASSUME Untroubled, CommitsLast, NEW w \in Workers, StopProject(w)
    PROVE  Clean'
<1>1. ScopeInv /\ ScopedJobs /\ DiskTypes /\ Clean /\ Paired /\ OneOwner
  BY DEF Untroubled, ScopeInv
<1>2. /\ \A v \in Workers \ {w} : job'[v] = job[v]
      /\ UNCHANGED <<stored, settled, sessions>> /\ ~Busy(Project)
      /\ job[w].op = "deleteProject" /\ job[w].at = "stop"
      /\ job'[w].op = "deleteProject" /\ job'[w].at = "begin"
      /\ recipe' = IF Found(Project) THEN recipe ELSE job[w].seen
  BY <1>1, GotoMoves DEF StopProject, At, BeginProject, Acquire
<1>3. \A v \in Workers : ~Gathers(v)
  BY <1>1, <1>2, OneGathers
     DEF Busy, Gathers, Paired, Owning, Acquired, Deletes, Holds, ScopeInv, ScopedJobs
<1>4. CASE Found(Project)
  BY <1>1, <1>2, <1>4, PlainCleans DEF Dutiful, Burdened, Gathers, Deletes, At
<1>5. CASE ~Found(Project)
  <2>1. Project \in stored
    BY <1>1, <1>5, GoneIsFound DEF Clean, ProjectTold
  <2> QED BY <1>2, <1>3, <2>1, CleanRecipe
<1> QED BY <1>4, <1>5

\* A membership that is written is the one whose markers were read, and covers
\* what was open meanwhile.
LEMMA UpdateCleanupRecipeCleans ==
    ASSUME Untroubled, CommitsLast, NEW w \in Workers, UpdateCleanupRecipe(w)
    PROVE  Clean'
<1>1. ScopeInv /\ ScopedJobs /\ DiskTypes /\ Clean /\ Paired /\ OneOwner
  BY DEF Untroubled, ScopeInv
<1>2. /\ \A v \in Workers \ {w} : job'[v] = job[v]
      /\ UNCHANGED <<stored, settled, sessions>>
      /\ job[w].op = "deleteProject" /\ job[w].at = "recheck"
      /\ job'[w].op \in {"none", "deleteProject"} /\ job'[w].at \in {"none", "store"}
      /\ recipe' = job[w].seen
  BY <1>1, GotoMoves, ReplyMoves DEF UpdateCleanupRecipe, At
<1>3. Gathers(w) /\ Covers(w) /\ Project \in stored
  BY <1>1, <1>2 DEF Clean, Covers, Gathers
<1>4. \A v \in Workers \ {w} : ~Gathers(v)
  <2>1. ASSUME NEW v \in Workers, Gathers(v) PROVE Holds(v, Project)
    <3>1. job[v].ref = Project /\ job[v].op \in Deletes
      BY <1>1, <2>1 DEF Gathers, ScopedJobs, Deletes
    <3> QED BY <1>1, <2>1, <3>1, OwnsMarker DEF Gathers
  <2> QED BY <1>1, <1>3, <2>1, OneGathers
<1> QED BY <1>2, <1>3, <1>4, CleanRecipe

LEMMA RefreshProjectCleans ==
    ASSUME Untroubled, CommitsLast, NEW w \in Workers, RefreshProject(w)
    PROVE  Clean'
<1>1. ScopeInv /\ ScopedJobs /\ DiskTypes /\ Clean
  BY DEF Untroubled, ScopeInv
<1>2. /\ \A v \in Workers \ {w} : job'[v] = job[v]
      /\ UNCHANGED <<stored, recipe, settled, sessions>> /\ Project \in stored
      /\ job[w].op = "deleteProject" /\ job[w].at = "begin"
      /\ job'[w].op = "deleteProject" /\ job'[w].at = "recheck" /\ job'[w].seen = StoredThreads
  BY <1>1, ReadsMoves DEF RefreshProject, At, diskVars
<1>3. GoneLasts
  BY <1>2, GoneStays DEF AtAny
<1>4. Covers(w)' /\ Told(w)' /\ Fresh(w)'
  BY <1>2 DEF Covers, Gathered, StoredThreads, Told, Fresh, At
<1>5. \A t : ~WillKill(w, t) /\ ~WillSweep(w, t) /\ ~Opens(w, t)'
  BY <1>2 DEF WillKill, At, WillSweep, ThreadSweeper, ProjectSweeper, FenceSweeper, Opens
<1> QED BY <1>1, <1>2, <1>3, <1>4, <1>5, CleanMoved

LEMMA RefreshFindsProjectGoneCleans ==
    ASSUME Untroubled, CommitsLast, ~Fail, NEW w \in Workers, RefreshFindsProjectGone(w)
    PROVE  Clean'
<1>1. ScopeInv /\ ScopedJobs /\ DiskTypes /\ Clean
  BY DEF Untroubled, ScopeInv
<1>2. /\ \A v \in Workers \ {w} : job'[v] = job[v]
      /\ UNCHANGED <<stored, recipe, settled, sessions>> /\ Project \notin stored
      /\ job[w].op = "deleteProject" /\ job[w].at = "begin"
      /\ job'[w].op = "deleteProject" /\ job'[w].at = "store"
  BY <1>1, GotoMoves DEF RefreshFindsProjectGone, At, diskVars
<1>3. GoneLasts
  BY <1>2, GoneStays DEF AtAny
<1>4. Covers(w)' /\ Told(w)' /\ Fresh(w)'
  BY <1>2 DEF Covers, Told, Fresh, At
<1>5. \A t : ~WillKill(w, t) /\ ~WillSweep(w, t) /\ ~Opens(w, t)'
  BY <1>2 DEF WillKill, At, WillSweep, ThreadSweeper, ProjectSweeper, FenceSweeper, Opens
<1> QED BY <1>1, <1>2, <1>3, <1>4, <1>5, CleanMoved

\* A deletion from the Store: whoever deletes a thread sweeps it, and whoever
\* deletes the project sweeps what it gathered.
LEMMA StoreDeleteCleans ==
    ASSUME Untroubled, CommitsLast, ~Fail, NEW w \in Workers, StoreDelete(w)
    PROVE  Clean'
<1> DEFINE r == job[w].ref
<1>1. ScopeInv /\ ScopedJobs /\ DiskTypes /\ Clean /\ Paired /\ OneOwner
  BY DEF Untroubled, ScopeInv
<1>2. /\ \A v \in Workers \ {w} : job'[v] = job[v]
      /\ UNCHANGED <<recipe, settled, sessions>> /\ r \in stored /\ stored' = Removed(r)
      /\ job[w].op \in Deletes /\ job[w].at = "store"
      /\ job'[w].op = job[w].op /\ job'[w].at = "finish" /\ job'[w].ref = r
  BY <1>1, GotoMoves DEF StoreDelete, AtAny
<1>3. GoneLasts /\ \A u : u = r => GoneMarked(u)'
  BY <1>2, GoneStays DEF AtAny, GoneMarked
<1>4. /\ \A t : ~WillKill(w, t) /\ ~WillSweep(w, t) /\ ~Opens(w, t) /\ ~Opens(w, t)'
      /\ Told(w)' /\ Fresh(w)' /\ Covers(w)'
  BY <1>2
     DEF WillKill, At, WillSweep, ThreadSweeper, ProjectSweeper, FenceSweeper, Opens, Told,
         Fresh,
     Covers, Gathers, Deletes
<1>5. stored' \subseteq stored /\ recipe' = recipe
  BY <1>2 DEF Removed
<1>6. Settling'
  BY <1>1, <1>2, <1>4, <1>5 DEF Clean, Settling, WillKill, At
<1>7. ASSUME NEW v \in Workers PROVE Fresh(v)'
  BY <1>1, <1>2, <1>4 DEF Clean, Fresh, At
<1>8. ASSUME NEW t \in sessions \ stored PROVE \E v \in Workers : WillSweep(v, t)'
  <2>1. PICK v \in Workers : WillSweep(v, t)
    BY <1>1, <1>8 DEF Clean, Sweeping
  <2>2. job'[v] = job[v] /\ t \in Refs
    BY <1>1, <1>2, <1>4, <2>1 DEF DiskTypes, Refs
  <2> QED BY <1>3, <1>5, <2>1, <2>2
             DEF WillSweep, ThreadSweeper, ProjectSweeper, FenceSweeper, GoneLasts
<1>9. CASE job[w].op = "deleteThread"
  <2>1. r \in Threads /\ r # Project /\ stored' = stored \ {r}
    BY <1>1, <1>2, <1>9, ProjectAssumption DEF ScopedJobs, ThreadStops, Removed
  <2>2. Sweeping'
    <3>1. ThreadSweeper(w, r)'
      BY <1>2, <1>9 DEF ThreadSweeper
    <3> QED BY <1>2, <1>8, <2>1, <3>1 DEF Sweeping, WillSweep
  <2>3. ProjectTold'
    BY <1>1, <1>3, <2>1 DEF Clean, ProjectTold, GoneLasts, Refs
  <2>4. ASSUME NEW v \in Workers PROVE Told(v)'
    <3> SUFFICES ASSUME v # w PROVE Told(v)'
      BY <1>4
    <3>1. Told(v) /\ job[v].ref \in Refs /\ job'[v] = job[v]
      BY <1>1, <1>2, JobIs DEF Clean, ScopeInv
    <3> QED BY <1>2, <1>3, <2>1, <3>1 DEF Told, GoneLasts
  <2>5. ASSUME NEW v \in Workers PROVE Covers(v)'
    <3> SUFFICES ASSUME v # w PROVE Covers(v)'
      BY <1>4
    <3>1. Covers(v) /\ job'[v] = job[v]
      BY <1>1, <1>2 DEF Clean
    <3>2. \A t : (\E u \in Workers : Opens(u, t)') => \E u \in Workers : Opens(u, t)
      BY <1>2, <1>4 DEF Opens
    <3>3. StoredThreads' \subseteq StoredThreads /\ (Project \in stored' <=> Project \in stored)
      BY <2>1 DEF StoredThreads
    <3> QED BY <1>2, <3>1, <3>2, <3>3 DEF Covers, Gathers, Gathered
  <2> QED BY <1>6, <1>7, <2>2, <2>3, <2>4, <2>5 DEF Clean
<1>10. CASE job[w].op = "deleteProject"
  <2>1. r = Project /\ Project \in stored /\ stored' = {}
    BY <1>1, <1>2, <1>10 DEF ScopedJobs, Removed
  <2>2. Gathers(w) /\ Covers(w) /\ Gathered(w) = recipe
    BY <1>1, <1>2, <1>10 DEF Clean, Gathers, Gathered
  <2>3. \A t \in StoredThreads : t \in sessions \/ (\E v \in Workers : Opens(v, t)) => t \in recipe
    BY <2>1, <2>2 DEF Covers
  <2>4. Sweeping'
    <3>1. ASSUME NEW t \in sessions \intersect stored PROVE ProjectSweeper(w, t)'
      <4>1. t \in recipe
        BY <1>1, <2>3, <3>1 DEF StoredThreads, DiskTypes
      <4> QED BY <1>2, <1>10, <2>1, <4>1 DEF ProjectSweeper
    <3> QED BY <1>2, <1>8, <2>1, <3>1 DEF Sweeping, WillSweep
  <2>5. ProjectTold'
    BY <1>3, <2>1 DEF ProjectTold
  <2>6. ASSUME NEW v \in Workers PROVE Told(v)'
    <3> SUFFICES ASSUME v # w, job[v].op = "open", job[v].at \in {"create", "fence"}
                 PROVE  GoneMarked(job[v].ref)' \/ job[v].ref \in recipe
      BY <1>2, <1>4, <2>1 DEF Told
    <3>1. Told(v) /\ job[v].ref \in Threads /\ job'[v] = job[v]
      BY <1>1, <1>2 DEF Clean, ScopedJobs
    <3>2. CASE job[v].ref \in stored
      BY <2>3, <3>1, <3>2 DEF StoredThreads, Opens, Entering
    <3>3. CASE job[v].ref \notin stored
      BY <1>3, <2>1, <3>1, <3>3 DEF Told, GoneLasts, Refs
    <3> QED BY <3>2, <3>3
  <2>7. ASSUME NEW v \in Workers PROVE Covers(v)'
    <3> SUFFICES ASSUME v # w, Gathers(v) PROVE Covers(v)'
      BY <1>2, <1>4 DEF Covers, Gathers
    <3>1. Holds(v, Project) /\ \A u \in Workers : Holds(u, Project) => u = w
      <4>1. job[v].ref = Project /\ job[v].op \in Deletes
        BY <1>1 DEF Gathers, ScopedJobs, Deletes
      <4> QED BY <1>1, <2>2, <4>1, OneGathers, OwnsMarker DEF Gathers
    <3> QED BY <3>1
  <2> QED BY <1>6, <1>7, <2>4, <2>5, <2>6, <2>7 DEF Clean
<1> QED BY <1>2, <1>9, <1>10 DEF Deletes

LEMMA FinishStopCleans ==
    ASSUME Untroubled, CommitsLast, NEW w \in Workers, FinishStop(w)
    PROVE  Clean'
<1>1. ScopeInv /\ ScopedJobs /\ DiskTypes /\ Clean /\ Paired
  BY DEF Untroubled, ScopeInv
<1>2. /\ \A v \in Workers \ {w} : job'[v] = job[v]
      /\ UNCHANGED <<stored, recipe, settled, sessions>>
      /\ job[w].op \in Deletes /\ job[w].at = "finish"
      /\ job'[w].op = job[w].op /\ job'[w].at = "sweep" /\ job'[w].ref = job[w].ref
  BY <1>1, GotoMoves DEF FinishStop, AtAny, diskVars
<1>3. marker'[job[w].ref] = "committed"
  BY <1>1, <1>2, JobIs DEF FinishStop, Commit, Paired, Owning, Untroubled, LeaseTypeOK
<1>4. GoneLasts
  BY <1>2, <1>3, GoneStays
<1>5. Covers(w)' /\ Told(w)' /\ Fresh(w)'
  BY <1>2 DEF Covers, Gathers, Told, Fresh, At
<1>6. \A t : ~WillKill(w, t) /\ (WillSweep(w, t) => WillSweep(w, t)') /\ ~Opens(w, t)'
  BY <1>2 DEF WillKill, At, WillSweep, ThreadSweeper, ProjectSweeper, FenceSweeper, Opens,
     Deletes
<1> QED BY <1>1, <1>2, <1>4, <1>5, <1>6, CleanMoved

LEMMA FinishSweepCleans ==
    ASSUME Untroubled, CommitsLast, ~Fail, NEW w \in Workers, FinishSweep(w)
    PROVE  Clean'
<1>1. ScopeInv /\ ScopedJobs /\ DiskTypes /\ Clean
  BY DEF Untroubled, ScopeInv
<1>2. /\ \A v \in Workers \ {w} : job'[v] = job[v]
      /\ UNCHANGED <<stored, recipe, settled>> /\ sessions' = sessions \ Sweeps(job[w].ref)
      /\ job[w].op \in Deletes /\ job[w].at = "sweep"
      /\ job'[w].op = job[w].op /\ job'[w].at = "release" /\ job'[w].ref = job[w].ref
  BY <1>1, GotoMoves DEF FinishSweep, AtAny, Sweep, Kill
<1>3. GoneLasts
  BY <1>2, GoneStays DEF AtAny
<1>4. Covers(w)' /\ Told(w)' /\ Fresh(w)'
  BY <1>2 DEF Covers, Gathers, Told, Fresh, At
<1>5. \A t : ~WillKill(w, t) /\ ~Opens(w, t)'
  BY <1>2 DEF WillKill, At, Opens, Deletes
<1>6. \A t \in sessions : WillSweep(w, t) => t \in Sweeps(job[w].ref)
  BY <1>1, <1>2, ProjectAssumption
     DEF WillSweep, ThreadSweeper, ProjectSweeper, FenceSweeper, Sweeps, ScopedJobs, DiskTypes, Deletes
<1> QED BY <1>1, <1>2, <1>3, <1>4, <1>5, <1>6, CleanMoved

\* Nobody is about to create a session of a thread whose flock a settlement takes.
LEMMA StoreSettledCleans ==
    ASSUME Untroubled, CommitsLast, NEW w \in Workers, StoreSettled(w)
    PROVE  Clean'
<1>1. ScopeInv /\ ScopedJobs /\ DiskTypes /\ Clean /\ Held
  BY DEF Untroubled, ScopeInv
<1>2. /\ \A v \in Workers \ {w} : job'[v] = job[v]
      /\ UNCHANGED <<stored, recipe, sessions>> /\ settled' = settled \union {job[w].ref}
      /\ job[w].op = "settle" /\ job[w].at = "wait" /\ mutation[job[w].ref] = Nobody
      /\ job'[w].op = "settle" /\ job'[w].at = "kill" /\ job'[w].ref = job[w].ref
  BY <1>1, GotoMoves DEF StoreSettled, At, TakeMutation
<1>3. GoneLasts
  BY <1>2, GoneStays DEF AtAny
<1>4. Covers(w)' /\ Told(w)' /\ Fresh(w)'
  BY <1>2 DEF Covers, Gathers, Told, Fresh, At
<1>5. \A t : ~WillKill(w, t) /\ ~WillSweep(w, t) /\ ~Opens(w, t)' /\ WillKill(w, job[w].ref)'
  BY <1>2 DEF WillKill, At, Opens, WillSweep, ThreadSweeper, ProjectSweeper, FenceSweeper
<1>6. \A v \in Workers : At(v, "open", "create") => job[v].ref # job[w].ref
  BY <1>1, <1>2, TerminalStopAssumption DEF Held, Holding, At
<1> QED BY <1>1, <1>2, <1>3, <1>4, <1>5, <1>6, CleanMoved

LEMMA KillSessionsCleans ==
    ASSUME Untroubled, CommitsLast, ~Fail, NEW w \in Workers, KillSessions(w)
    PROVE  Clean'
<1>1. ScopeInv /\ ScopedJobs /\ DiskTypes /\ Clean
  BY DEF Untroubled, ScopeInv
<1>2. /\ \A v \in Workers \ {w} : job'[v] = job[v]
      /\ UNCHANGED <<stored, recipe, settled>> /\ sessions' = sessions \ {job[w].ref}
      /\ job[w].op \in FenceUsers /\ job[w].at = "kill"
      /\ job'[w].op = job[w].op /\ job'[w].at = "cancel" /\ job'[w].ref = job[w].ref
  BY <1>1, GotoMoves DEF KillSessions, AtAny, Sweep, Kill
<1>3. GoneLasts
  BY <1>2, GoneStays DEF AtAny
<1>4. Covers(w)' /\ Told(w)' /\ Fresh(w)'
  BY <1>2 DEF Covers, Gathers, Told, Fresh, At
<1>5. \A t : ~WillSweep(w, t) /\ ~Opens(w, t)' /\ (WillKill(w, t) => t \notin sessions')
  BY <1>2
     DEF WillKill, At, Opens, WillSweep, ThreadSweeper, ProjectSweeper, FenceSweeper,
         FenceUsers
<1> QED BY <1>1, <1>2, <1>3, <1>4, <1>5, CleanMoved

\* An opening that goes on saw no project marker, so no project stop gathers.
LEMMA OpenReadProjectCleans ==
    ASSUME Untroubled, CommitsLast, NEW w \in Workers, OpenReadProject(w)
    PROVE  Clean'
<1>1. ScopeInv /\ ScopedJobs /\ DiskTypes /\ Clean /\ Paired /\ OneOwner
  BY DEF Untroubled, ScopeInv
<1>2. /\ UNCHANGED <<stored, recipe, settled, sessions>>
      /\ job[w].op = "open" /\ job[w].at = "wait"
  BY DEF OpenReadProject, At
<1>3. CASE Reply(w)
  BY <1>1, <1>2, <1>3, ReplyMoves, PlainCleans DEF Dutiful, Burdened, Gathers, Deletes, At, Fences
<1>4. CASE ~Found(Project) /\ Goto(w, "readThread")
  <2>1. /\ \A v \in Workers \ {w} : job'[v] = job[v]
        /\ job'[w].op = "open" /\ job'[w].at = "readThread" /\ job'[w].ref = job[w].ref
    BY <1>1, <1>2, <1>4, GotoMoves
  <2>2. GoneLasts
    BY <1>2, <2>1, GoneStays DEF AtAny
  <2>3. Covers(w)' /\ Told(w)' /\ Fresh(w)'
    BY <2>1 DEF Covers, Gathers, Told, Fresh, At
  <2>4. \A t : ~WillKill(w, t) /\ ~WillSweep(w, t)
    BY <1>2 DEF WillKill, At, WillSweep, ThreadSweeper, ProjectSweeper, FenceSweeper, Fences
  <2>5. \A v \in Workers : ~Gathers(v)
    BY <1>1, <1>4, OneGathers
  <2> QED BY <1>1, <1>2, <2>1, <2>2, <2>3, <2>4, <2>5, CleanMoved
<1> QED BY <1>3, <1>4 DEF OpenReadProject, OpenRefused

LEMMA OpenReadThreadCleans ==
    ASSUME Untroubled, CommitsLast, NEW w \in Workers, OpenReadThread(w)
    PROVE  Clean'
<1>1. ScopeInv /\ ScopedJobs /\ DiskTypes /\ Clean
  BY DEF Untroubled, ScopeInv
<1>2. /\ UNCHANGED <<stored, recipe, settled, sessions>>
      /\ job[w].op = "open" /\ job[w].at = "readThread"
  BY DEF OpenReadThread, At
<1>3. CASE Reply(w)
  BY <1>1, <1>2, <1>3, ReplyMoves, PlainCleans DEF Dutiful, Burdened, Gathers, Deletes, At, Fences
<1>4. CASE Goto(w, "readStore")
  <2>1. /\ \A v \in Workers \ {w} : job'[v] = job[v]
        /\ job'[w].op = "open" /\ job'[w].at = "readStore" /\ job'[w].ref = job[w].ref
    BY <1>1, <1>2, <1>4, GotoMoves
  <2>2. GoneLasts
    BY <1>2, <2>1, GoneStays DEF AtAny
  <2>3. Covers(w)' /\ Told(w)' /\ Fresh(w)'
    BY <2>1 DEF Covers, Gathers, Told, Fresh, At
  <2>4. \A t : ~WillKill(w, t) /\ ~WillSweep(w, t) /\ (Opens(w, t)' => Opens(w, t))
    BY <1>2, <2>1 DEF WillKill, At, WillSweep, ThreadSweeper, ProjectSweeper, FenceSweeper, Fences,
       Opens, Entering
  <2> QED BY <1>1, <1>2, <2>1, <2>2, <2>3, <2>4, CleanMoved
<1> QED BY <1>3, <1>4 DEF OpenReadThread, OpenRefused

LEMMA OpenReadStoreCleans ==
    ASSUME Untroubled, CommitsLast, NEW w \in Workers, OpenReadStore(w)
    PROVE  Clean'
<1>1. ScopeInv /\ ScopedJobs /\ DiskTypes /\ Clean
  BY DEF Untroubled, ScopeInv
<1>2. /\ UNCHANGED <<stored, recipe, settled, sessions>>
      /\ job[w].op = "open" /\ job[w].at = "readStore"
  BY DEF OpenReadStore, At
<1>3. CASE Reply(w)
  BY <1>1, <1>2, <1>3, ReplyMoves, PlainCleans DEF Dutiful, Burdened, Gathers, Deletes, At, Fences
<1>4. CASE job[w].ref \in stored \ settled /\ Goto(w, "create")
  <2>1. /\ \A v \in Workers \ {w} : job'[v] = job[v]
        /\ job'[w].op = "open" /\ job'[w].at = "create" /\ job'[w].ref = job[w].ref
    BY <1>1, <1>2, <1>4, GotoMoves
  <2>2. GoneLasts
    BY <1>2, <2>1, GoneStays DEF AtAny
  <2>3. Covers(w)' /\ Told(w)' /\ Fresh(w)'
    BY <1>2, <1>4, <2>1 DEF Covers, Gathers, Told, Fresh, At
  <2>4. \A t : ~WillKill(w, t) /\ ~WillSweep(w, t) /\ (Opens(w, t)' => Opens(w, t))
    BY <1>2, <2>1 DEF WillKill, At, WillSweep, ThreadSweeper, ProjectSweeper, FenceSweeper, Fences,
       Opens, Entering
  <2> QED BY <1>1, <1>2, <2>1, <2>2, <2>3, <2>4, CleanMoved
<1> QED BY <1>3, <1>4 DEF OpenReadStore, OpenRefused

\* The session that is created is that of a thread that was not settled, and its
\* opening looks back at the markers.
LEMMA OpenCreateCleans ==
    ASSUME Untroubled, CommitsLast, ~Fail, NEW w \in Workers, OpenCreate(w)
    PROVE  Clean'
<1>1. ScopeInv /\ ScopedJobs /\ DiskTypes /\ Clean
  BY DEF Untroubled, ScopeInv
<1>2. /\ \A v \in Workers \ {w} : job'[v] = job[v]
      /\ UNCHANGED <<stored, recipe, settled>> /\ sessions' = sessions \union {job[w].ref}
      /\ job[w].op = "open" /\ job[w].at = "create"
      /\ job'[w].op = "open" /\ job'[w].at = "fence" /\ job'[w].ref = job[w].ref
  BY <1>1, GotoMoves DEF OpenCreate, At
<1>3. GoneLasts
  BY <1>2, GoneStays DEF AtAny
<1>4. Told(w) /\ Fresh(w) /\ job[w].ref \in Refs
  BY <1>1, JobIs DEF Clean
<1>5. Covers(w)' /\ Told(w)' /\ Fresh(w)'
  BY <1>2, <1>3, <1>4 DEF Covers, Gathers, Told, Fresh, At, GoneLasts
<1>6. \A t : /\ ~WillKill(w, t) /\ (WillSweep(w, t) => t = job[w].ref)
             /\ Opens(w, t)' => Opens(w, t)
             /\ t = job[w].ref => Opens(w, t) /\ WillSweep(w, t)' /\ t \notin settled
  BY <1>2, <1>4 DEF WillKill, At, WillSweep, ThreadSweeper, ProjectSweeper, FenceSweeper, Fences,
     Opens, Entering, Fresh
<1> QED BY <1>1, <1>2, <1>3, <1>5, <1>6, CleanMoved

\* A fence that reads the project marker after the project is gone finds it, and
\* in it what the deletion gathered.
LEMMA FenceReadProjectCleans ==
    ASSUME Untroubled, CommitsLast, NEW w \in Workers, FenceReadProject(w)
    PROVE  Clean'
<1>1. ScopeInv /\ ScopedJobs /\ DiskTypes /\ Clean /\ Paired /\ OneOwner
  BY DEF Untroubled, ScopeInv
<1>2. /\ \A v \in Workers \ {w} : job'[v] = job[v]
      /\ UNCHANGED <<stored, recipe, settled, sessions>>
      /\ job[w].op = "open" /\ job[w].at = "fence"
      /\ job'[w].op = "open" /\ job'[w].at = Observed /\ job'[w].ref = job[w].ref
      /\ job'[w].seen = IF Found(Project) THEN recipe ELSE {}
  BY <1>1, ReadsMoves DEF FenceReadProject, At, diskVars
<1>3. GoneLasts
  BY <1>2, GoneStays DEF AtAny
<1>4. Observed \in Fences /\ (Found(Project) => Observed \in {"fencePending", "fenceCommitted"})
  BY DEF Observed, Fences
<1>5. Covers(w)' /\ Told(w)' /\ Fresh(w)'
  BY <1>2, <1>4 DEF Covers, Gathers, Told, Fresh, At, Fences
<1>6. \A t : ~WillKill(w, t) /\ ~Opens(w, t)' /\ (WillSweep(w, t) => t = job[w].ref)
  BY <1>2, <1>4 DEF WillKill, At, Opens, Entering, Fences, WillSweep, ThreadSweeper, ProjectSweeper,
     FenceSweeper
<1>7. ASSUME NEW t \in sessions \ stored, t = job[w].ref PROVE WillSweep(w, t)'
  <2>1. GoneMarked(t) \/ (Project \notin stored /\ t \in recipe)
    BY <1>1, <1>2, <1>7 DEF Clean, Told
  <2>2. CASE GoneMarked(t)
    <3>1. GoneMarked(t)'
      BY <1>1, <1>3, <1>7, <2>2, JobIs DEF GoneLasts
    <3> QED BY <1>2, <1>4, <1>7, <3>1 DEF WillSweep, FenceSweeper
  <2>3. CASE Project \notin stored /\ t \in recipe
    <3>1. Found(Project)
      BY <1>1, <2>3, GoneIsFound DEF Clean, ProjectTold
    <3> QED BY <1>2, <1>4, <1>7, <2>3, <3>1 DEF WillSweep, FenceSweeper
  <2> QED BY <2>1, <2>2, <2>3
<1> QED BY <1>1, <1>2, <1>3, <1>5, <1>6, <1>7, CleanMoved

\* The fence then kills the session of a thread that is gone.
LEMMA FenceReadThreadCleans ==
    ASSUME Untroubled, CommitsLast, ~Fail, NEW w \in Workers, FenceReadThread(w)
    PROVE  Clean'
<1>1. ScopeInv /\ ScopedJobs /\ DiskTypes /\ Clean /\ Paired /\ OneOwner
  BY DEF Untroubled, ScopeInv
<1>2. /\ \A v \in Workers \ {w} : job'[v] = job[v]
      /\ UNCHANGED <<stored, recipe, settled>> /\ sessions' = sessions \ FencedSessions(w)
      /\ job[w].at \in Fences /\ job'[w].op = "none" /\ job'[w].at = "none"
  BY <1>1, ReplyMoves DEF FenceReadThread, Fences, Sweep, Kill
<1>3. GoneLasts
  BY <1>2, GoneStays DEF AtAny, Fences
<1>4. Covers(w)' /\ Told(w)' /\ Fresh(w)'
  BY <1>2 DEF Covers, Gathers, Told, Fresh, At
<1>5. \A t : ~WillKill(w, t) /\ ~Opens(w, t)'
  BY <1>2 DEF WillKill, At, Opens, Fences
<1>6. ASSUME NEW t \in sessions \ stored, WillSweep(w, t) PROVE t \in FencedSessions(w)
  <2>1. job[w].ref = t /\ FenceSweeper(w, t)
    BY <1>2, <1>6 DEF WillSweep, ThreadSweeper, ProjectSweeper, FenceSweeper, Fences
  <2>2. CASE GoneMarked(t)
    <3>1. Found(t)
      BY <1>1, <2>2, GoneIsFound
    <3> QED BY <1>6, <2>1, <3>1 DEF FencedSessions
  <2>3. CASE job[w].at \in {"fencePending", "fenceCommitted"} /\ Project \notin stored /\ t \in job[w].seen
    BY <2>3 DEF FencedSessions
  <2> QED BY <1>2, <2>1, <2>2, <2>3 DEF FenceSweeper, Fences
<1> QED BY <1>1, <1>2, <1>3, <1>4, <1>5, <1>6, CleanMoved

\* Every step keeps the promises, as long as nothing fails.
LEMMA CleanStep == ASSUME Untroubled, [Next]_vars, troubles' = 0 PROVE Clean'
<1>0. ScopeInv /\ ScopedJobs /\ DiskTypes /\ Clean /\ CommitsLast
  BY LeaseRefines, CommitsStay DEF Untroubled, ScopeInv
<1>1. CASE UNCHANGED vars
  BY <1>1
     DEF Untroubled, vars, leaseVars, diskVars, procVars, Clean, Settling, Sweeping,
         ProjectTold,
     WillKill, At, WillSweep, ThreadSweeper, ProjectSweeper, FenceSweeper, GoneMarked, AtAny, Told,
     Fresh, Covers, Gathers, Gathered, Opens, StoredThreads
<1>2. ASSUME NEW w \in Workers, AskDeleteProject(w) PROVE Clean'
  BY <1>0, <1>2, PlainCleans, BeginMoves DEF AskDeleteProject, diskVars, Ready, Dutiful, Burdened,
     Gathers, Entering, Fences, Deletes, At, AtAny
<1>3. ASSUME NEW w \in Workers, NEW t \in Threads, AskDeleteThread(w, t) PROVE Clean'
  BY <1>0, <1>3, PlainCleans, BeginMoves DEF AskDeleteThread, diskVars, Ready, Dutiful, Burdened,
     Gathers, Entering, Fences, Deletes, At, AtAny
<1>4. ASSUME NEW w \in Workers, NEW t \in Threads, AskClose(w, t) PROVE Clean'
  BY <1>0, <1>4, PlainCleans, BeginMoves DEF AskClose, diskVars, Ready, Dutiful, Burdened,
     Gathers, Entering, Fences, Deletes, At, AtAny
<1>5. ASSUME NEW w \in Workers, NEW t \in Threads, AskSettle(w, t) PROVE Clean'
  BY <1>0, <1>5, PlainCleans, BeginMoves DEF AskSettle, diskVars, Ready, Dutiful, Burdened,
     Gathers, Entering, Fences, Deletes, At, AtAny
<1>6. ASSUME NEW w \in Workers, NEW t \in Threads, Unsettle(w, t) PROVE Clean'
  BY <1>0, <1>6, PlainCleans DEF Unsettle, procVars
<1>7. ASSUME NEW w \in Workers, NEW t \in Threads, AskOpen(w, t) PROVE Clean'
  BY <1>0, <1>7, PlainCleans, BeginMoves DEF AskOpen, diskVars, Ready, Dutiful, Burdened, Gathers,
     Entering, Fences, Deletes, At, AtAny
<1>8. ASSUME NEW w \in Workers, NEW t \in Threads, AddThread(w, t) PROVE Clean'
  BY <1>0, <1>8, AddThreadCleans, NoFailure DEF Untroubled
<1>9. ASSUME NEW w \in Workers, StopThreadRefused(w) PROVE Clean'
  BY <1>0, <1>9, PlainCleans, ReplyMoves DEF StopThreadRefused, diskVars, ThreadStops, Dutiful,
     Burdened, Gathers, Entering, Fences, Deletes, At, AtAny
<1>10. ASSUME NEW w \in Workers, StopThread(w) PROVE Clean'
  BY <1>0, <1>10, PlainCleans, GotoMoves DEF StopThread, diskVars, ThreadStops, Dutiful, Burdened,
     Gathers, Entering, Fences, Deletes, At, AtAny
<1>11. ASSUME NEW w \in Workers, TakeMarker(w) PROVE Clean'
  BY <1>0, <1>11, PlainCleans DEF TakeMarker, diskVars, procVars
<1>12. ASSUME NEW w \in Workers, MarkerTaken(w) PROVE Clean'
  BY <1>0, <1>12, PlainCleans, ReplyMoves DEF MarkerTaken, diskVars, ThreadStops, Dutiful,
     Burdened, Gathers, Entering, Fences, Deletes, At, AtAny
<1>13. ASSUME NEW w \in Workers, ThreadStopGranted(w) PROVE Clean'
  BY <1>0, <1>13, PlainCleans, GotoMoves DEF ThreadStopGranted, diskVars, AfterThreadStop,
     ThreadStops, Dutiful, Burdened, Gathers, Entering, Fences, Deletes, At, AtAny
<1>14. ASSUME NEW w \in Workers, StopProjectRefused(w) PROVE Clean'
  BY <1>0, <1>14, PlainCleans, ReplyMoves DEF StopProjectRefused, diskVars, Dutiful, Burdened,
     Gathers, Entering, Fences, Deletes, At, AtAny
<1>15. ASSUME NEW w \in Workers, StopProject(w) PROVE Clean'
  BY <1>0, <1>15, StopProjectCleans, NoFailure DEF Untroubled
<1>16. ASSUME NEW w \in Workers, RefreshProject(w) PROVE Clean'
  BY <1>0, <1>16, RefreshProjectCleans, NoFailure DEF Untroubled
<1>17. ASSUME NEW w \in Workers, RefreshFindsProjectGone(w) PROVE Clean'
  BY <1>0, <1>17, RefreshFindsProjectGoneCleans, NoFailure DEF Untroubled
<1>18. ASSUME NEW w \in Workers, RefreshFails(w) PROVE Clean'
  BY <1>18, NoFailure DEF RefreshFails, Untroubled
<1>19. ASSUME NEW w \in Workers, UpdateCleanupRecipe(w) PROVE Clean'
  BY <1>0, <1>19, UpdateCleanupRecipeCleans, NoFailure DEF Untroubled
<1>20. ASSUME NEW w \in Workers, UpdateCleanupRecipeFails(w) PROVE Clean'
  BY <1>20, NoFailure DEF UpdateCleanupRecipeFails, Untroubled
<1>21. ASSUME NEW w \in Workers, StoreDelete(w) PROVE Clean'
  BY <1>0, <1>21, StoreDeleteCleans, NoFailure DEF Untroubled
<1>22. ASSUME NEW w \in Workers, StoreFindsNothing(w) PROVE Clean'
  BY <1>0, <1>22, PlainCleans, GotoMoves DEF StoreFindsNothing, diskVars, Dutiful, Burdened,
     Gathers, Entering, Fences, Deletes, At, AtAny
<1>23. ASSUME NEW w \in Workers, ResolveStoreError(w) PROVE Clean'
  <2>1. /\ job[w].op \in Deletes /\ job[w].at = "resolve" /\ UNCHANGED diskVars
        /\ Goto(w, "cancel") \/ Goto(w, "finish") \/ Goto(w, "retain")
    BY <1>23 DEF ResolveStoreError, AtAny
  <2> QED BY <1>0, <2>1, PlainCleans, GotoMoves
          DEF diskVars, Dutiful, Burdened, Gathers, Entering, Fences, Deletes, At
<1>24. ASSUME NEW w \in Workers, CancelStop(w) PROVE Clean'
  BY <1>0, <1>24, PlainCleans, GotoMoves, ReplyMoves DEF CancelStop, diskVars, AfterUnstop,
     Dutiful, Burdened, Gathers, Entering, Fences, Deletes, At, AtAny
<1>25. ASSUME NEW w \in Workers, CancelStopAgain(w) PROVE Clean'
  BY <1>0, <1>25, PlainCleans, ReplyMoves DEF CancelStopAgain, diskVars, Dutiful, Burdened,
     Gathers, Entering, Fences, Deletes, At, AtAny
<1>26. ASSUME NEW w \in Workers, RetainStop(w) PROVE Clean'
  BY <1>0, <1>26, PlainCleans, GotoMoves, ReplyMoves DEF RetainStop, diskVars, AfterUnstop,
     Dutiful, Burdened, Gathers, Entering, Fences, Deletes, At, AtAny
<1>27. ASSUME NEW w \in Workers, FinishStop(w) PROVE Clean'
  BY <1>0, <1>27, FinishStopCleans, NoFailure DEF Untroubled
<1>28. ASSUME NEW w \in Workers, FinishStopFails(w) PROVE Clean'
  BY <1>28, NoFailure DEF FinishStopFails, Untroubled
<1>29. ASSUME NEW w \in Workers, FinishSweep(w) PROVE Clean'
  BY <1>0, <1>29, FinishSweepCleans, NoFailure DEF Untroubled
<1>30. ASSUME NEW w \in Workers, FinishRelease(w) PROVE Clean'
  BY <1>0, <1>30, PlainCleans, ReplyMoves DEF FinishRelease, diskVars, Dutiful, Burdened, Gathers,
     Entering, Fences, Deletes, At, AtAny
<1>31. ASSUME NEW w \in Workers, LockForMutation(w) PROVE Clean'
  BY <1>0, <1>31, PlainCleans, GotoMoves DEF LockForMutation, diskVars, FenceUsers, Dutiful,
     Burdened, Gathers, Entering, Fences, Deletes, At, AtAny
<1>32. ASSUME NEW w \in Workers, StillActive(w) PROVE Clean'
  BY <1>0, <1>32, PlainCleans, GotoMoves DEF StillActive, diskVars, FenceUsers, Dutiful, Burdened,
     Gathers, Entering, Fences, Deletes, At, AtAny
<1>33. ASSUME NEW w \in Workers, CloseInactive(w) PROVE Clean'
  BY <1>0, <1>33, PlainCleans, GotoMoves DEF CloseInactive, Dutiful, Burdened, Gathers, Entering,
     Fences, Deletes, At, AtAny
<1>34. ASSUME NEW w \in Workers, StoreSettled(w) PROVE Clean'
  BY <1>0, <1>34, StoreSettledCleans, NoFailure DEF Untroubled
<1>35. ASSUME NEW w \in Workers, StoreSettledFails(w) PROVE Clean'
  BY <1>35, NoFailure DEF StoreSettledFails, Untroubled
<1>36. ASSUME NEW w \in Workers, KillSessions(w) PROVE Clean'
  BY <1>0, <1>36, KillSessionsCleans, NoFailure DEF Untroubled
<1>37. ASSUME NEW w \in Workers, OpenReadProject(w) PROVE Clean'
  BY <1>0, <1>37, OpenReadProjectCleans, NoFailure DEF Untroubled
<1>38. ASSUME NEW w \in Workers, OpenReadThread(w) PROVE Clean'
  BY <1>0, <1>38, OpenReadThreadCleans, NoFailure DEF Untroubled
<1>39. ASSUME NEW w \in Workers, OpenReadStore(w) PROVE Clean'
  BY <1>0, <1>39, OpenReadStoreCleans, NoFailure DEF Untroubled
<1>40. ASSUME NEW w \in Workers, OpenCreate(w) PROVE Clean'
  BY <1>0, <1>40, OpenCreateCleans, NoFailure DEF Untroubled
<1>41. ASSUME NEW w \in Workers, FenceReadProject(w) PROVE Clean'
  BY <1>0, <1>41, FenceReadProjectCleans, NoFailure DEF Untroubled
<1>42. ASSUME NEW w \in Workers, FenceReadThread(w) PROVE Clean'
  BY <1>0, <1>42, FenceReadThreadCleans, NoFailure DEF Untroubled
<1>43. ASSUME NEW w \in Workers, NEW r \in Refs, StopConflict(w, r) PROVE Clean'
  BY <1>0, <1>43, PlainCleans, ReplyMoves DEF StopConflict, diskVars, Dutiful, Burdened, Gathers,
     Entering, Fences, Deletes, At, AtAny
<1>44. ASSUME NEW w \in Workers, NEW r \in Refs, ReadThreadMarker(w, r) PROVE Clean'
  BY <1>0, <1>44, PlainCleans DEF ReadThreadMarker, diskVars, procVars
<1>45. ASSUME NEW w \in Workers, NEW r \in Refs, RecoverMarker(w, r) PROVE Clean'
  BY <1>0, <1>45, PlainCleans, ReadsMoves DEF RecoverMarker, diskVars, Dutiful, Burdened, Gathers,
     Entering, Fences, Deletes, At, AtAny
<1>46. ASSUME NEW w \in Workers, NEW r \in Refs, SkipMarker(w, r) PROVE Clean'
  BY <1>0, <1>46, PlainCleans, ReadsMoves DEF SkipMarker, diskVars, Dutiful, Burdened, Gathers,
     Entering, Fences, Deletes, At, AtAny
<1>47. ASSUME NEW w \in Workers, RetainAmbiguous(w) PROVE Clean'
  BY <1>0, <1>47, PlainCleans, GotoMoves DEF RetainAmbiguous, diskVars, EndRecovery, Dutiful,
     Burdened, Gathers, Entering, Fences, Deletes, At, AtAny
<1>48. ASSUME NEW w \in Workers, CommitRecovered(w) PROVE Clean'
  BY <1>0, <1>48, PlainCleans, GotoMoves DEF CommitRecovered, diskVars, Dutiful, Burdened,
     Gathers, Entering, Fences, Deletes, At, AtAny
<1>49. ASSUME NEW w \in Workers, RecoveryFails(w) PROVE Clean'
  BY <1>49, NoFailure DEF RecoveryFails, Untroubled
<1>50. ASSUME NEW w \in Workers, RecoverSweep(w) PROVE Clean'
  BY <1>0, <1>50, PlainCleans, GotoMoves DEF RecoverSweep, EndRecovery, Sweep, Kill, Dutiful,
     Burdened, Gathers, Entering, Fences, Deletes, At, AtAny
<1>51. ASSUME NEW w \in Workers, Recovered(w) PROVE Clean'
  BY <1>0, <1>51, PlainCleans, ReplyMoves DEF Recovered, diskVars, Dutiful, Burdened, Gathers,
     Entering, Fences, Deletes, At, AtAny
<1>52. ASSUME NEW p \in Processes, Crash(p) PROVE Clean'
  BY <1>52, NoFailure DEF Crash, Untroubled
<1>53. ASSUME NEW p \in Processes, Boot(p) PROVE Clean'
  <2> DEFINE w == CHOOSE v \in Local(p) : TRUE
             found == {r \in Refs : Found(r)}
  <2>1. /\ Begin(w, "boot", "recover", Project, found) /\ UNCHANGED diskVars
        /\ w \in Workers /\ job[w].op = "none"
    BY <1>53, TerminalStopAssumption DEF Boot, Local
  <2> HIDE DEF w, found
  <2> QED BY <1>0, <2>1, PlainCleans, BeginMoves
          DEF diskVars, Dutiful, Burdened, Gathers, Entering, Fences, Deletes, At
<1> QED
  BY <1>1, <1>2, <1>3, <1>4, <1>5, <1>6, <1>7, <1>8, <1>9, <1>10, <1>11, <1>12, <1>13, <1>14,
     <1>15, <1>16, <1>17, <1>18, <1>19, <1>20, <1>21, <1>22, <1>23, <1>24, <1>25, <1>26, <1>27,
     <1>28, <1>29, <1>30, <1>31, <1>32, <1>33, <1>34, <1>35, <1>36, <1>37, <1>38, <1>39, <1>40,
     <1>41, <1>42, <1>43, <1>44, <1>45, <1>46, <1>47, <1>48, <1>49, <1>50, <1>51, <1>52, <1>53
     DEF Next, Ask, Work

\* Troubles only add up.
LEMMA TroublesGrow == ASSUME [Next]_vars PROVE UNCHANGED troubles \/ Fail
<1>1. CASE UNCHANGED vars
  BY <1>1 DEF vars, boundVars
<1>2. ASSUME NEW w \in Workers, AskDeleteProject(w) PROVE UNCHANGED troubles \/ Fail
  BY <1>2 DEF AskDeleteProject
<1>3. ASSUME NEW w \in Workers, NEW t \in Threads, AskDeleteThread(w, t) PROVE UNCHANGED troubles \/ Fail
  BY <1>3 DEF AskDeleteThread
<1>4. ASSUME NEW w \in Workers, NEW t \in Threads, AskClose(w, t) PROVE UNCHANGED troubles \/ Fail
  BY <1>4 DEF AskClose
<1>5. ASSUME NEW w \in Workers, NEW t \in Threads, AskSettle(w, t) PROVE UNCHANGED troubles \/ Fail
  BY <1>5 DEF AskSettle
<1>6. ASSUME NEW w \in Workers, NEW t \in Threads, Unsettle(w, t) PROVE UNCHANGED troubles \/ Fail
  BY <1>6 DEF Unsettle
<1>7. ASSUME NEW w \in Workers, NEW t \in Threads, AskOpen(w, t) PROVE UNCHANGED troubles \/ Fail
  BY <1>7 DEF AskOpen
<1>8. ASSUME NEW w \in Workers, NEW t \in Threads, AddThread(w, t) PROVE UNCHANGED troubles \/ Fail
  BY <1>8 DEF AddThread
<1>9. ASSUME NEW w \in Workers, StopThreadRefused(w) PROVE UNCHANGED troubles \/ Fail
  BY <1>9 DEF StopThreadRefused, boundVars
<1>10. ASSUME NEW w \in Workers, StopThread(w) PROVE UNCHANGED troubles \/ Fail
  BY <1>10 DEF StopThread, boundVars
<1>11. ASSUME NEW w \in Workers, TakeMarker(w) PROVE UNCHANGED troubles \/ Fail
  BY <1>11 DEF TakeMarker, boundVars
<1>12. ASSUME NEW w \in Workers, MarkerTaken(w) PROVE UNCHANGED troubles \/ Fail
  BY <1>12 DEF MarkerTaken, boundVars
<1>13. ASSUME NEW w \in Workers, ThreadStopGranted(w) PROVE UNCHANGED troubles \/ Fail
  BY <1>13 DEF ThreadStopGranted, boundVars
<1>14. ASSUME NEW w \in Workers, StopProjectRefused(w) PROVE UNCHANGED troubles \/ Fail
  BY <1>14 DEF StopProjectRefused, boundVars
<1>15. ASSUME NEW w \in Workers, StopProject(w) PROVE UNCHANGED troubles \/ Fail
  BY <1>15 DEF StopProject, boundVars
<1>16. ASSUME NEW w \in Workers, RefreshProject(w) PROVE UNCHANGED troubles \/ Fail
  BY <1>16 DEF RefreshProject, boundVars
<1>17. ASSUME NEW w \in Workers, RefreshFindsProjectGone(w) PROVE UNCHANGED troubles \/ Fail
  BY <1>17 DEF RefreshFindsProjectGone
<1>18. ASSUME NEW w \in Workers, RefreshFails(w) PROVE UNCHANGED troubles \/ Fail
  BY <1>18 DEF RefreshFails
<1>19. ASSUME NEW w \in Workers, UpdateCleanupRecipe(w) PROVE UNCHANGED troubles \/ Fail
  BY <1>19 DEF UpdateCleanupRecipe, boundVars
<1>20. ASSUME NEW w \in Workers, UpdateCleanupRecipeFails(w) PROVE UNCHANGED troubles \/ Fail
  BY <1>20 DEF UpdateCleanupRecipeFails
<1>21. ASSUME NEW w \in Workers, StoreDelete(w) PROVE UNCHANGED troubles \/ Fail
  BY <1>21 DEF StoreDelete
<1>22. ASSUME NEW w \in Workers, StoreFindsNothing(w) PROVE UNCHANGED troubles \/ Fail
  BY <1>22 DEF StoreFindsNothing, boundVars
<1>23. ASSUME NEW w \in Workers, ResolveStoreError(w) PROVE UNCHANGED troubles \/ Fail
  BY <1>23 DEF ResolveStoreError
<1>24. ASSUME NEW w \in Workers, CancelStop(w) PROVE UNCHANGED troubles \/ Fail
  BY <1>24 DEF CancelStop
<1>25. ASSUME NEW w \in Workers, CancelStopAgain(w) PROVE UNCHANGED troubles \/ Fail
  BY <1>25 DEF CancelStopAgain, boundVars
<1>26. ASSUME NEW w \in Workers, RetainStop(w) PROVE UNCHANGED troubles \/ Fail
  BY <1>26 DEF RetainStop, boundVars
<1>27. ASSUME NEW w \in Workers, FinishStop(w) PROVE UNCHANGED troubles \/ Fail
  BY <1>27 DEF FinishStop, boundVars
<1>28. ASSUME NEW w \in Workers, FinishStopFails(w) PROVE UNCHANGED troubles \/ Fail
  BY <1>28 DEF FinishStopFails
<1>29. ASSUME NEW w \in Workers, FinishSweep(w) PROVE UNCHANGED troubles \/ Fail
  BY <1>29 DEF FinishSweep, Sweep
<1>30. ASSUME NEW w \in Workers, FinishRelease(w) PROVE UNCHANGED troubles \/ Fail
  BY <1>30 DEF FinishRelease, boundVars
<1>31. ASSUME NEW w \in Workers, LockForMutation(w) PROVE UNCHANGED troubles \/ Fail
  BY <1>31 DEF LockForMutation, boundVars
<1>32. ASSUME NEW w \in Workers, StillActive(w) PROVE UNCHANGED troubles \/ Fail
  BY <1>32 DEF StillActive, boundVars
<1>33. ASSUME NEW w \in Workers, CloseInactive(w) PROVE UNCHANGED troubles \/ Fail
  BY <1>33 DEF CloseInactive, boundVars
<1>34. ASSUME NEW w \in Workers, StoreSettled(w) PROVE UNCHANGED troubles \/ Fail
  BY <1>34 DEF StoreSettled, boundVars
<1>35. ASSUME NEW w \in Workers, StoreSettledFails(w) PROVE UNCHANGED troubles \/ Fail
  BY <1>35 DEF StoreSettledFails
<1>36. ASSUME NEW w \in Workers, KillSessions(w) PROVE UNCHANGED troubles \/ Fail
  BY <1>36 DEF KillSessions, Sweep
<1>37. ASSUME NEW w \in Workers, OpenReadProject(w) PROVE UNCHANGED troubles \/ Fail
  BY <1>37 DEF OpenReadProject, boundVars
<1>38. ASSUME NEW w \in Workers, OpenReadThread(w) PROVE UNCHANGED troubles \/ Fail
  BY <1>38 DEF OpenReadThread, boundVars
<1>39. ASSUME NEW w \in Workers, OpenReadStore(w) PROVE UNCHANGED troubles \/ Fail
  BY <1>39 DEF OpenReadStore, boundVars
<1>40. ASSUME NEW w \in Workers, OpenCreate(w) PROVE UNCHANGED troubles \/ Fail
  BY <1>40 DEF OpenCreate
<1>41. ASSUME NEW w \in Workers, FenceReadProject(w) PROVE UNCHANGED troubles \/ Fail
  BY <1>41 DEF FenceReadProject, boundVars
<1>42. ASSUME NEW w \in Workers, FenceReadThread(w) PROVE UNCHANGED troubles \/ Fail
  BY <1>42 DEF FenceReadThread, Sweep
<1>43. ASSUME NEW w \in Workers, NEW r \in Refs, StopConflict(w, r) PROVE UNCHANGED troubles \/ Fail
  BY <1>43 DEF StopConflict, boundVars
<1>44. ASSUME NEW w \in Workers, NEW r \in Refs, ReadThreadMarker(w, r) PROVE UNCHANGED troubles \/ Fail
  BY <1>44 DEF ReadThreadMarker, boundVars
<1>45. ASSUME NEW w \in Workers, NEW r \in Refs, RecoverMarker(w, r) PROVE UNCHANGED troubles \/ Fail
  BY <1>45 DEF RecoverMarker, boundVars
<1>46. ASSUME NEW w \in Workers, NEW r \in Refs, SkipMarker(w, r) PROVE UNCHANGED troubles \/ Fail
  BY <1>46 DEF SkipMarker, boundVars
<1>47. ASSUME NEW w \in Workers, RetainAmbiguous(w) PROVE UNCHANGED troubles \/ Fail
  BY <1>47 DEF RetainAmbiguous, boundVars
<1>48. ASSUME NEW w \in Workers, CommitRecovered(w) PROVE UNCHANGED troubles \/ Fail
  BY <1>48 DEF CommitRecovered, boundVars
<1>49. ASSUME NEW w \in Workers, RecoveryFails(w) PROVE UNCHANGED troubles \/ Fail
  BY <1>49 DEF RecoveryFails
<1>50. ASSUME NEW w \in Workers, RecoverSweep(w) PROVE UNCHANGED troubles \/ Fail
  BY <1>50 DEF RecoverSweep, Sweep
<1>51. ASSUME NEW w \in Workers, Recovered(w) PROVE UNCHANGED troubles \/ Fail
  BY <1>51 DEF Recovered, boundVars
<1>52. ASSUME NEW p \in Processes, Crash(p) PROVE UNCHANGED troubles \/ Fail
  BY <1>52 DEF Crash
<1>53. ASSUME NEW p \in Processes, Boot(p) PROVE UNCHANGED troubles \/ Fail
  BY <1>53 DEF Boot, boundVars
<1> QED
  BY <1>1, <1>2, <1>3, <1>4, <1>5, <1>6, <1>7, <1>8, <1>9, <1>10, <1>11, <1>12, <1>13, <1>14,
     <1>15, <1>16, <1>17, <1>18, <1>19, <1>20, <1>21, <1>22, <1>23, <1>24, <1>25, <1>26, <1>27,
     <1>28, <1>29, <1>30, <1>31, <1>32, <1>33, <1>34, <1>35, <1>36, <1>37, <1>38, <1>39, <1>40,
     <1>41, <1>42, <1>43, <1>44, <1>45, <1>46, <1>47, <1>48, <1>49, <1>50, <1>51, <1>52, <1>53
     DEF Next, Ask, Work

-----------------------------------------------------------------------------
\* What a deletion owes the sessions it has not swept yet.

\* The request keeps its marker whatever happens next: it has made, or found, the
\* deletion; or it found the marker and still decides.
Final == {"resolve", "retain", "finish", "sweep", "release", "recovered", "recoverSweep"}
KeepsMarker(w) == job[w].at \in Final \/ (lease[w].adopted /\ job[w].at \in {"begin", "store"})
Kept(r) == Found(r) /\ \A w \in Workers : Holds(w, r) => KeepsMarker(w)

\* A thread that has a session, or that an opening may still give one.
Creating == {"readThread", "readStore", "create"}
GetsSession(v, t) == job[v].op = "open" /\ job[v].at \in Creating /\ job[v].ref = t
Live(t) == t \in sessions \/ \E v \in Workers : GetsSession(v, t)

\* What a project deletion has gathered is every thread that may need a sweep.
Gathering(p) ==
    Gathers(p) /\ Project \in stored =>
        /\ \A t \in StoredThreads : Live(t) => t \in job[p].seen
        /\ job[p].at = "store" => recipe = job[p].seen

\* The marker of whatever has been deleted is kept: that of the thread itself, or
\* that of the project it went with, whose recipe has it.
Remembered ==
    /\ Project \notin stored => Kept(Project)
    /\ \A t \in born \ stored : Kept(t) \/ (Project \notin stored /\ (Live(t) => t \in recipe))
    /\ \A p \in Workers : Gathering(p)

\* The invariants proved so far, with this one.
Mindful ==
    /\ ScopeInv /\ DiskTypes /\ Births /\ Paired /\ LeaseTypeOK /\ OneOwner
    /\ Remembered

KeptLast == \A r \in Refs \ stored : Kept(r) => Kept(r)'

\* A step that deletes nothing, and after which every marker kept still is.
LEMMA RememberedMoved ==
    ASSUME Mindful, NEW w \in Workers, \A v \in Workers \ {w} : job'[v] = job[v],
           stored' = stored, born' = born, KeptLast,
           recipe' = recipe \/ (Project \in stored /\ \A v \in Workers \ {w} : ~Gathers(v)),
           \A t \in Threads : Live(t)' => Live(t) \/ ~Found(Project),
           Gathering(w)'
    PROVE  Remembered'
<1>1. (Project \notin stored => Kept(Project))'
  BY DEF Mindful, Remembered, KeptLast, Refs
<1>2. ASSUME NEW t \in born \ stored
      PROVE  Kept(t)' \/ (Project \notin stored /\ (Live(t)' => t \in recipe'))
  <2>1. t \in Threads /\ t \in Refs \ stored
    BY DEF Mindful, DiskTypes, Refs
  <2>2. CASE Kept(t)
    BY <2>1, <2>2 DEF KeptLast
  <2>3. CASE Project \notin stored /\ (Live(t) => t \in recipe)
    <3>1. Found(Project) /\ recipe' = recipe
      BY <2>3 DEF Mindful, Remembered, Kept
    <3> QED BY <2>1, <2>3, <3>1
  <2> QED BY <2>2, <2>3 DEF Mindful, Remembered
<1>3. ASSUME NEW p \in Workers \ {w} PROVE Gathering(p)'
  <2> SUFFICES ASSUME Gathers(p), Project \in stored
               PROVE  Gathering(p)'
    BY DEF Gathering, Gathers
  <2>1. Found(Project) /\ recipe' = recipe /\ job'[p] = job[p]
    BY OneGathers DEF Mindful
  <2>2. Gathering(p) /\ StoredThreads' = StoredThreads /\ StoredThreads \subseteq Threads
    BY DEF Mindful, Remembered, StoredThreads
  <2> QED BY <2>1, <2>2 DEF Gathering
<1> QED BY <1>1, <1>2, <1>3 DEF Remembered

LEMMA NobodyComesAlive ==
    ASSUME NEW w \in Workers, \A v \in Workers \ {w} : job'[v] = job[v],
           sessions' \subseteq sessions,
           \A t \in Threads : GetsSession(w, t)' => GetsSession(w, t)
    PROVE  \A t \in Threads : Live(t)' => Live(t)
BY DEF Live, GetsSession

\* A step that opens nothing and gathers nothing.
LEMMA PlainRemembers ==
    ASSUME Mindful, NEW w \in Workers, \A v \in Workers \ {w} : job'[v] = job[v],
           stored' = stored, born' = born, recipe' = recipe, sessions' \subseteq sessions,
           job'[w].at \notin Creating,
           job'[w].op = "deleteProject" => job'[w].at \notin {"recheck", "store"},
           KeptLast
    PROVE  Remembered'
<1>1. \A t \in Threads : Live(t)' => Live(t)
  BY NobodyComesAlive DEF GetsSession
<1>2. Gathering(w)'
  BY DEF Gathering, Gathers
<1> QED BY <1>1, <1>2, RememberedMoved

\* A step that leaves the leases alone, of a request that keeps no marker or goes
\* on keeping it.
LEMMA KeptAside ==
    ASSUME LeaseTypeOK, NEW w \in Workers, \A v \in Workers \ {w} : job'[v] = job[v],
           UNCHANGED leaseVars,
           job[w].at \notin Final \union {"begin", "store"} \/ job'[w].at \in Final
    PROVE  KeptLast
<1> SUFFICES ASSUME NEW r \in Refs \ stored, Kept(r) PROVE Kept(r)'
  BY DEF KeptLast
<1>1. Found(r)' /\ \A v \in Workers : lease'[v] = lease[v] /\ (Holds(v, r)' <=> Holds(v, r))
  BY DEF Kept, Found, Holds, leaseVars
<1>2. ASSUME NEW v \in Workers, Holds(v, r) PROVE KeepsMarker(v)'
  <2>1. KeepsMarker(v)
    BY <1>2 DEF Kept
  <2> QED BY <1>1, <2>1 DEF KeepsMarker
<1> QED BY <1>1, <1>2 DEF Kept

LEMMA AsideRemembers ==
    ASSUME Mindful, NEW w \in Workers, \A v \in Workers \ {w} : job'[v] = job[v],
           stored' = stored, born' = born, recipe' = recipe, sessions' \subseteq sessions,
           job'[w].at \notin Creating,
           job'[w].op = "deleteProject" => job'[w].at \notin {"recheck", "store"},
           UNCHANGED leaseVars,
           job[w].at \notin Final \union {"begin", "store"} \/ job'[w].at \in Final
    PROVE  Remembered'
BY KeptAside, PlainRemembers DEF Mindful

\* A step of a lease: it must leave the marker of what is gone, and if its worker
\* then holds it, the worker must keep it.
LEMMA KeptByAll ==
    ASSUME LeaseTypeOK, NEW w \in Workers, \A v \in Workers \ {w} : job'[v] = job[v],
           UNCHANGED leaseVars \/ LeaseStep(w),
           \A r \in Refs \ stored : Found(r) /\ (Holds(w, r) => KeepsMarker(w)) =>
              Found(r)' /\ (Holds(w, r)' => KeepsMarker(w)')
    PROVE  KeptLast
<1> SUFFICES ASSUME NEW r \in Refs \ stored, Kept(r) PROVE Kept(r)'
  BY DEF KeptLast
<1>1. Found(r) /\ (Holds(w, r) => KeepsMarker(w))
  BY DEF Kept
<1>2. Found(r)' /\ (Holds(w, r)' => KeepsMarker(w)')
  BY <1>1
<1>3. ASSUME NEW v \in Workers \ {w}, Holds(v, r)' PROVE KeepsMarker(v)'
  <2>1. lease'[v] = lease[v] /\ job'[v] = job[v]
    BY LeaseAlone
  <2>2. KeepsMarker(v)
    BY <1>3, <2>1 DEF Kept, Holds
  <2> QED BY <2>1, <2>2 DEF KeepsMarker
<1> QED BY <1>2, <1>3 DEF Kept

\* What the operations on a lease do to a marker that is on disk.
LEMMA LeaseReads ==
    ASSUME LeaseTypeOK, NEW w \in Workers, NEW r \in Refs, Found(r),
           \/ Commit(w)
           \/ \E u \in Refs : InspectAbsent(w, u)
           \/ \E ts \in SUBSET Threads : RecheckProjectThreads(w, ts)
    PROVE  /\ Found(r)' /\ lease'[w].ref = lease[w].ref /\ lease'[w].adopted = lease[w].adopted
           /\ Holds(w, r)' => Holds(w, r)
<1> USE DEF LeaseTypeOK, Leases
<1>1. CASE Commit(w)
  BY <1>1 DEF Commit, Found, Holds
<1>2. ASSUME NEW u \in Refs, InspectAbsent(w, u)
      PROVE  /\ Found(r)' /\ lease'[w].ref = lease[w].ref /\ lease'[w].adopted = lease[w].adopted
             /\ Holds(w, r)' => Holds(w, r)
  <2> DEFINE l == [lease[w] EXCEPT !.todo = lease[w].todo \ {u},
                                   !.checked = lease[w].checked \union {u},
                                   !.phase = PhaseAfter(lease[w].todo \ {u})]
  <2>1. lease' = [lease EXCEPT ![w] = l] /\ marker' = marker /\ lease[w].phase = "checking"
    BY <1>2, Zenon DEF InspectAbsent
  <2>2. l.ref = lease[w].ref /\ l.adopted = lease[w].adopted
    OBVIOUS
  <2> HIDE DEF l
  <2> QED BY <2>1, <2>2 DEF Found, Holds
<1>3. ASSUME NEW ts \in SUBSET Threads, RecheckProjectThreads(w, ts)
      PROVE  /\ Found(r)' /\ lease'[w].ref = lease[w].ref /\ lease'[w].adopted = lease[w].adopted
             /\ Holds(w, r)' => Holds(w, r)
  <2> DEFINE l == [lease[w] EXCEPT !.todo = ts, !.phase = PhaseAfter(ts)]
  <2>1. lease' = [lease EXCEPT ![w] = l] /\ marker' = marker /\ lease[w].phase = "granted"
    BY <1>3, Zenon DEF RecheckProjectThreads, Granted
  <2>2. l.ref = lease[w].ref /\ l.adopted = lease[w].adopted
    OBVIOUS
  <2> HIDE DEF l
  <2> QED BY <2>1, <2>2 DEF Found, Holds
<1> QED BY <1>1, <1>2, <1>3

LEMMA LeaseAdopts ==
    ASSUME LeaseTypeOK, NEW w \in Workers, NEW r \in Refs, Found(r),
           \/ AcquireThread(w)
           \/ \E ts \in SUBSET Threads : BeginProject(w, ts)
           \/ \E u \in Refs : AcquireExisting(w, u)
    PROVE  Found(r)' /\ (Holds(w, r)' => lease'[w].adopted)
<1>1. ASSUME NEW u \in Refs, NEW ts, Acquire(w, u, ts) PROVE Found(r)' /\ (Holds(w, r)' => lease'[w].adopted)
  BY <1>1 DEF Acquire, LeaseTypeOK, Found, Holds
<1>2. CASE AcquireThread(w) \/ \E ts \in SUBSET Threads : BeginProject(w, ts)
  BY <1>1, <1>2, ProjectAssumption DEF AcquireThread, BeginProject, LeaseTypeOK, Leases, Refs
<1>3. ASSUME NEW u \in Refs, AcquireExisting(w, u) PROVE Found(r)' /\ (Holds(w, r)' => lease'[w].adopted)
  <2> DEFINE l == [NoLease EXCEPT !.ref = u, !.phase = "recovered", !.adopted = TRUE]
  <2>1. lease' = [lease EXCEPT ![w] = l] /\ marker' = marker
    BY <1>3, Zenon DEF AcquireExisting
  <2>2. l.adopted = TRUE
    BY DEF NoLease
  <2> HIDE DEF l
  <2> QED BY <2>1, <2>2 DEF Found, LeaseTypeOK
<1> QED BY <1>2, <1>3

LEMMA LeaseLetsGo ==
    ASSUME LeaseTypeOK, NEW w \in Workers, NEW r \in Refs, Found(r),
           Retain(w) \/ RefusedBusy(w) \/ \E t \in Threads : BeginThread(w, t)
    PROVE  Found(r)' /\ ~Holds(w, r)'
<1>1. CASE Retain(w) \/ RefusedBusy(w)
  BY <1>1 DEF Retain, RefusedBusy, Drop, NoLease, LeaseTypeOK, Found, Holds
<1>2. ASSUME NEW t \in Threads, BeginThread(w, t) PROVE Found(r)' /\ ~Holds(w, r)'
  <2> DEFINE l == [NoLease EXCEPT !.ref = t, !.phase = "wanted"]
  <2>1. lease' = [lease EXCEPT ![w] = l] /\ marker' = marker
    BY <1>2, Zenon DEF BeginThread
  <2>2. l.phase = "wanted"
    BY DEF NoLease
  <2> HIDE DEF l
  <2> QED BY <2>1, <2>2 DEF Found, Holds, LeaseTypeOK
<1> QED BY <1>1, <1>2

LEMMA LeaseGivesBack ==
    ASSUME LeaseTypeOK, NEW w \in Workers, NEW r \in Refs, Found(r),
           Rollback(w) \/ \E u \in Refs : InspectConflict(w, u)
    PROVE  /\ ~Holds(w, r)'
           /\ ~Holds(w, r) \/ (lease[w].adopted /\ ~Rollback(w)) => Found(r)'
<1>1. ASSUME RemoveAndDrop(w) PROVE ~Holds(w, r)' /\ (lease[w].ref # r => Found(r)')
  BY <1>1 DEF RemoveAndDrop, Drop, NoLease, LeaseTypeOK, Found, Holds
<1>2. ASSUME Drop(w), marker' = marker PROVE ~Holds(w, r)' /\ Found(r)'
  BY <1>2 DEF Drop, NoLease, LeaseTypeOK, Found, Holds
<1>3. CASE Rollback(w)
  BY <1>1, <1>3 DEF Rollback, Holds
<1>4. ASSUME NEW u \in Refs, InspectConflict(w, u), ~Rollback(w)
      PROVE  /\ ~Holds(w, r)'
             /\ ~Holds(w, r) \/ lease[w].adopted => Found(r)'
  BY <1>1, <1>2, <1>4 DEF InspectConflict, Holds
<1> QED BY <1>3, <1>4

\* Every step remembers, but for the one that gives back a marker it adopted.
LEMMA RememberedStep ==
    ASSUME Mindful, [Next]_vars, \A w \in Workers : RefreshFails(w) => ~lease[w].adopted
    PROVE  Remembered'
<1> USE DEF Mindful, ScopeInv
<1>1. CASE UNCHANGED vars
  BY <1>1 DEF vars, diskVars, procVars, leaseVars, Remembered, Kept, KeepsMarker, Holds, Found,
     Live, GetsSession, Gathering, Gathers, StoredThreads
<1>2. ASSUME NEW w \in Workers, AskDeleteProject(w) PROVE Remembered'
  BY <1>2, AsideRemembers, BeginMoves, JobIs
     DEF AskDeleteProject, Creating, Final, Ready, diskVars
<1>3. ASSUME NEW w \in Workers, NEW t \in Threads, AskDeleteThread(w, t) PROVE Remembered'
  BY <1>3, AsideRemembers, BeginMoves, JobIs
     DEF AskDeleteThread, Creating, Final, Ready, diskVars
<1>4. ASSUME NEW w \in Workers, NEW t \in Threads, AskClose(w, t) PROVE Remembered'
  BY <1>4, AsideRemembers, BeginMoves, JobIs
     DEF AskClose, Creating, Final, Ready, diskVars
<1>5. ASSUME NEW w \in Workers, NEW t \in Threads, AskSettle(w, t) PROVE Remembered'
  BY <1>5, AsideRemembers, BeginMoves, JobIs
     DEF AskSettle, Creating, Final, Ready, diskVars
<1>6. ASSUME NEW w \in Workers, NEW t \in Threads, Unsettle(w, t) PROVE Remembered'
  BY <1>6 DEF Unsettle, procVars, leaseVars, Remembered, Kept, KeepsMarker, Holds, Found, Live,
     GetsSession, Gathering, Gathers, StoredThreads
<1>7. ASSUME NEW w \in Workers, NEW t \in Threads, AskOpen(w, t) PROVE Remembered'
  BY <1>7, AsideRemembers, BeginMoves, JobIs
     DEF AskOpen, Creating, Final, Ready, diskVars
<1>8. ASSUME NEW w \in Workers, NEW t \in Threads, AddThread(w, t) PROVE Remembered'
  <2>1. /\ t \notin born /\ Project \in stored /\ stored' = stored \union {t} /\ born' = born \union {t}
        /\ UNCHANGED <<marker, lease, job, sessions, recipe>>
    BY <1>8 DEF AddThread, procVars, leaseVars
  <2>2. \A r \in Refs : Kept(r)' <=> Kept(r)
    BY <2>1 DEF Kept, KeepsMarker, Holds, Found
  <2>3. \A u \in Threads : Live(u)' <=> Live(u)
    BY <2>1 DEF Live, GetsSession
  <2>4. ~Live(t)
    BY <2>1 DEF Live, GetsSession, Births, ThreadStops
  <2>5. \A u \in born' \ stored' : Kept(u)'
    BY <2>1, <2>2 DEF Remembered, DiskTypes, Refs
  <2>6. ASSUME NEW p \in Workers PROVE Gathering(p)'
    <3>1. StoredThreads' = StoredThreads \union {t}
      BY <2>1 DEF StoredThreads
    <3>2. StoredThreads \subseteq Threads /\ (Gathers(p)' <=> Gathers(p))
      BY <2>1 DEF StoredThreads, Gathers
    <3> QED BY <2>1, <2>3, <2>4, <3>1, <3>2 DEF Remembered, Gathering
  <2> QED BY <2>1, <2>5, <2>6 DEF Remembered
<1>9. ASSUME NEW w \in Workers, StopThreadRefused(w) PROVE Remembered'
  BY <1>9, AsideRemembers, ReplyMoves
     DEF StopThreadRefused, Creating, Final, AtAny, diskVars
<1>10. ASSUME NEW w \in Workers, StopThread(w) PROVE Remembered'
  <2>1. BeginThread(w, job[w].ref) /\ job[w].ref \in Threads
    BY <1>10, JobIs DEF StopThread, AtAny, ScopedJobs
  <2>2. /\ \A v \in Workers \ {w} : job'[v] = job[v]
        /\ stored' = stored /\ born' = born /\ recipe' = recipe /\ sessions' \subseteq sessions
        /\ job'[w].at \notin Creating
        /\ job'[w].op = "deleteProject" => job'[w].at \notin {"recheck", "store"}
    BY <1>10, GotoMoves DEF StopThread, Creating, AtAny, diskVars
  <2>3. LeaseStep(w)
    BY <2>1 DEF LeaseStep
  <2>4. KeptLast
    BY <2>1, <2>2, <2>3, LeaseLetsGo, KeptByAll
  <2> QED BY <2>2, <2>4, PlainRemembers
<1>11. ASSUME NEW w \in Workers, TakeMarker(w) PROVE Remembered'
  <2>1. /\ AcquireThread(w) /\ LeaseStep(w) /\ job' = job /\ job[w].at = "begin"
        /\ UNCHANGED <<stored, born, recipe, sessions>>
    BY <1>11 DEF TakeMarker, AtAny, LeaseStep, diskVars, procVars
  <2>2. KeptLast
    BY <2>1, LeaseAdopts, KeptByAll DEF KeepsMarker
  <2> QED BY <2>1, <2>2, PlainRemembers DEF Creating
<1>12. ASSUME NEW w \in Workers, MarkerTaken(w) PROVE Remembered'
  <2>1. RefusedBusy(w)
    BY <1>12 DEF MarkerTaken
  <2>2. /\ \A v \in Workers \ {w} : job'[v] = job[v]
        /\ stored' = stored /\ born' = born /\ recipe' = recipe /\ sessions' \subseteq sessions
        /\ job'[w].at \notin Creating
        /\ job'[w].op = "deleteProject" => job'[w].at \notin {"recheck", "store"}
    BY <1>12, ReplyMoves DEF MarkerTaken, Creating, AtAny, diskVars
  <2>3. LeaseStep(w)
    BY <2>1 DEF LeaseStep
  <2>4. KeptLast
    BY <2>1, <2>2, <2>3, LeaseLetsGo, KeptByAll
  <2> QED BY <2>2, <2>4, PlainRemembers
<1>13. ASSUME NEW w \in Workers, ThreadStopGranted(w) PROVE Remembered'
  <2>1. /\ InspectAbsent(w, Project) /\ LeaseStep(w)
        /\ job[w].op \in ThreadStops /\ job[w].at = "begin"
    BY <1>13 DEF ThreadStopGranted, AtAny, LeaseStep, Refs
  <2>2. /\ \A v \in Workers \ {w} : job'[v] = job[v]
        /\ job'[w].op = job[w].op /\ job'[w].at = AfterThreadStop(w)
        /\ UNCHANGED <<stored, born, recipe, sessions>>
    BY <1>13, GotoMoves DEF ThreadStopGranted, diskVars
  <2>3. lease[w].adopted => job'[w].at \in {"store", "retain"}
    BY <2>2 DEF AfterThreadStop
  <2>4. KeptLast
    BY <2>1, <2>2, <2>3, LeaseReads, KeptByAll DEF KeepsMarker, Refs, Final
  <2> QED BY <2>1, <2>2, <2>4, PlainRemembers DEF AfterThreadStop, ThreadStops, Creating
<1>14. ASSUME NEW w \in Workers, StopProjectRefused(w) PROVE Remembered'
  BY <1>14, AsideRemembers, ReplyMoves
     DEF StopProjectRefused, Creating, Final, At, diskVars
<1>15. ASSUME NEW w \in Workers, StopProject(w) PROVE Remembered'
  <2>1. /\ BeginProject(w, job[w].seen) /\ job[w].seen \in SUBSET Threads
        /\ recipe' = IF Found(Project) THEN recipe ELSE job[w].seen
        /\ UNCHANGED <<stored, born, sessions>>
    BY <1>15 DEF StopProject, At, ScopedJobs, Reading
  <2>2. /\ \A v \in Workers \ {w} : job'[v] = job[v]
        /\ job'[w].op = job[w].op /\ job'[w].at = "begin"
    BY <1>15, GotoMoves DEF StopProject
  <2>3. LeaseStep(w)
    BY <2>1 DEF LeaseStep
  <2>4. KeptLast
    BY <2>1, <2>2, <2>3, LeaseAdopts, KeptByAll DEF KeepsMarker
  <2>5. recipe' = recipe \/ (Project \in stored /\ \A v \in Workers \ {w} : ~Gathers(v))
    BY <2>1, OneGathers DEF Remembered, Kept
  <2>6. \A t \in Threads : Live(t)' => Live(t)
    BY <2>1, <2>2, NobodyComesAlive DEF GetsSession, Creating
  <2>7. Gathering(w)'
    BY <2>2 DEF Gathering, Gathers
  <2> QED BY <2>1, <2>2, <2>4, <2>5, <2>6, <2>7, RememberedMoved
<1>16. ASSUME NEW w \in Workers, RefreshProject(w) PROVE Remembered'
  <2>1. /\ RecheckProjectThreads(w, StoredThreads) /\ LeaseStep(w) /\ lease[w].ref = Project
        /\ Project \in stored /\ UNCHANGED <<stored, born, recipe, sessions>>
        /\ StoredThreads \in SUBSET Threads
    BY <1>16 DEF RefreshProject, Granted, LeaseStep, diskVars, StoredThreads
  <2>2. /\ \A v \in Workers \ {w} : job'[v] = job[v]
        /\ job'[w].at = "recheck" /\ job'[w].seen = StoredThreads
    BY <1>16, ReadsMoves DEF RefreshProject
  <2>3. KeptLast
    BY <2>1, <2>2, LeaseReads, KeptByAll DEF Holds
  <2>4. \A t \in Threads : Live(t)' => Live(t)
    BY <2>1, <2>2, NobodyComesAlive DEF GetsSession, Creating
  <2>5. Gathering(w)'
    BY <2>1, <2>2 DEF Gathering, StoredThreads
  <2> QED BY <2>1, <2>2, <2>3, <2>4, <2>5, RememberedMoved
<1>17. ASSUME NEW w \in Workers, RefreshFindsProjectGone(w) PROVE Remembered'
  <2>1. /\ job[w].at = "begin" /\ Project \notin stored /\ UNCHANGED <<stored, born, recipe, sessions>>
        /\ (Commit(w) /\ Goto(w, "store")) \/ (Retain(w) /\ Reply(w))
    BY <1>17 DEF RefreshFindsProjectGone, At, diskVars
  <2>2. /\ \A v \in Workers \ {w} : job'[v] = job[v]
        /\ job'[w].at \notin Creating /\ LeaseStep(w)
    BY <2>1, GotoMoves, ReplyMoves DEF Creating, LeaseStep
  <2>3. CASE Commit(w) /\ Goto(w, "store")
    <3>1. job'[w].at = "store"
      BY <2>3, GotoMoves
    <3>2. KeptLast
      BY <2>1, <2>2, <2>3, <3>1, LeaseReads, KeptByAll DEF KeepsMarker, Final
    <3>3. \A t \in Threads : Live(t)' => Live(t)
      BY <2>1, <2>2, NobodyComesAlive DEF GetsSession
    <3> QED BY <2>1, <2>2, <3>2, <3>3, RememberedMoved DEF Gathering
  <2>4. CASE Retain(w) /\ Reply(w)
    <3>1. KeptLast
      BY <2>2, <2>4, LeaseLetsGo, KeptByAll
    <3> QED BY <2>1, <2>2, <2>4, <3>1, ReplyMoves, PlainRemembers
  <2> QED BY <2>1, <2>3, <2>4
<1>18. ASSUME NEW w \in Workers, RefreshFails(w) PROVE Remembered'
  <2>1. /\ Rollback(w) /\ LeaseStep(w) /\ job[w].at = "begin" /\ ~lease[w].adopted
        /\ UNCHANGED <<stored, born, recipe, sessions>>
    BY <1>18 DEF RefreshFails, At, LeaseStep, diskVars
  <2>2. (\A v \in Workers \ {w} : job'[v] = job[v]) /\ job'[w].at = "none"
    BY <1>18, ReplyMoves DEF RefreshFails
  <2>3. ~KeepsMarker(w)
    BY <2>1 DEF KeepsMarker, Final
  <2>4. KeptLast
    BY <2>1, <2>2, <2>3, LeaseGivesBack, KeptByAll
  <2> QED BY <2>1, <2>2, <2>4, PlainRemembers DEF Creating
<1>19. ASSUME NEW w \in Workers, UpdateCleanupRecipe(w) PROVE Remembered'
  <2>1. /\ At(w, "deleteProject", "recheck") /\ Granted(w, Project) /\ recipe' = job[w].seen
        /\ UNCHANGED <<stored, born, sessions>>
        /\ (Rollback(w) /\ Reply(w)) \/ (Goto(w, "store") /\ UNCHANGED leaseVars)
    BY <1>19 DEF UpdateCleanupRecipe
  <2>2. (\A v \in Workers \ {w} : job'[v] = job[v]) /\ job'[w].at \in {"none", "store"}
    BY <2>1, GotoMoves, ReplyMoves
  <2>3. Holds(w, Project) /\ ~KeepsMarker(w) /\ Gathers(w)
    BY <2>1 DEF Granted, Holds, KeepsMarker, Final, At, Gathers
  <2>4. Project \in stored
    BY <2>3 DEF Remembered, Kept
  <2>5. \A v \in Workers \ {w} : ~Gathers(v)
    BY <2>3, OneGathers
  <2>6. KeptLast
    <3>1. CASE Rollback(w)
      BY <2>2, <2>3, <3>1, LeaseGivesBack, KeptByAll DEF LeaseStep
    <3>2. CASE UNCHANGED leaseVars
      BY <2>1, <2>2, <3>2, KeptAside DEF At, Final
    <3> QED BY <2>1, <3>1, <3>2
  <2>7. \A t \in Threads : Live(t)' => Live(t)
    BY <2>1, <2>2, NobodyComesAlive DEF GetsSession, Creating
  <2>8. Gathering(w)'
    <3>1. CASE Reply(w)
      BY <3>1, ReplyMoves DEF Gathering, Gathers
    <3>2. CASE Goto(w, "store")
      <4>1. job'[w].seen = job[w].seen
        BY <3>2, GotoMoves
      <4>2. StoredThreads' = StoredThreads /\ StoredThreads \subseteq Threads
        BY <2>1 DEF StoredThreads
      <4> QED BY <2>1, <2>3, <2>4, <2>7, <4>1, <4>2 DEF Gathering, Remembered
    <3> QED BY <2>1, <3>1, <3>2
  <2> QED BY <2>1, <2>2, <2>4, <2>5, <2>6, <2>7, <2>8, RememberedMoved
<1>20. ASSUME NEW w \in Workers, UpdateCleanupRecipeFails(w) PROVE Remembered'
  <2>1. Retain(w)
    BY <1>20 DEF UpdateCleanupRecipeFails
  <2>2. /\ \A v \in Workers \ {w} : job'[v] = job[v]
        /\ stored' = stored /\ born' = born /\ recipe' = recipe /\ sessions' \subseteq sessions
        /\ job'[w].at \notin Creating
        /\ job'[w].op = "deleteProject" => job'[w].at \notin {"recheck", "store"}
    BY <1>20, ReplyMoves DEF UpdateCleanupRecipeFails, Creating, At, diskVars
  <2>3. LeaseStep(w)
    BY <2>1 DEF LeaseStep
  <2>4. KeptLast
    BY <2>1, <2>2, <2>3, LeaseLetsGo, KeptByAll
  <2> QED BY <2>2, <2>4, PlainRemembers
<1>21. ASSUME NEW w \in Workers, StoreDelete(w) PROVE Remembered'
  <2>1. /\ job[w].op \in Deletes /\ job[w].at = "store" /\ job[w].ref \in stored
        /\ stored' = stored \/ stored' = Removed(job[w].ref)
        /\ UNCHANGED <<leaseVars, born, recipe, sessions>>
    BY <1>21 DEF StoreDelete, AtAny
  <2>2. /\ \A v \in Workers \ {w} : job'[v] = job[v]
        /\ job'[w].op = job[w].op /\ job'[w].at \in {"finish", "resolve"}
    BY <1>21, GotoMoves DEF StoreDelete
  <2>3. KeptLast
    BY <2>1, <2>2, KeptAside DEF Final
  <2>4. \A t \in Threads : Live(t)' => Live(t)
    BY <2>1, <2>2, NobodyComesAlive DEF GetsSession, Creating
  <2>5. ASSUME NEW r, r = job[w].ref PROVE Kept(r)'
    BY <2>1, <2>2, <2>5, OwnsMarker DEF Kept, KeepsMarker, Final, Holds, Found, leaseVars
  <2>6. CASE stored' = stored
    BY <2>1, <2>2, <2>3, <2>6, PlainRemembers DEF Creating
  <2>7. CASE job[w].ref = Project /\ stored' = {}
    <3>1. ASSUME NEW t \in born, t \notin stored PROVE Kept(t)'
      <4>1. t \in Refs \ stored /\ Kept(t)
        BY <2>1, <2>7, <3>1 DEF Remembered, DiskTypes, Refs
      <4> QED BY <2>3, <4>1 DEF KeptLast
    <3>2. ASSUME NEW t \in born, t \in stored, Live(t)' PROVE t \in recipe
      <4>1. t \in StoredThreads /\ Live(t)
        BY <2>4, <3>2 DEF DiskTypes, StoredThreads
      <4>2. job[w].op = "deleteProject"
        BY <2>1, <2>7, ProjectAssumption DEF Deletes, ThreadStops, ScopedJobs
      <4>3. Gathering(w) /\ Gathers(w)
        BY <2>1, <4>2 DEF Remembered, Gathers
      <4> QED BY <2>1, <2>7, <4>1, <4>3 DEF Gathering
    <3> QED BY <2>1, <2>5, <2>7, <3>1, <3>2 DEF Remembered, Gathering
  <2>8. CASE job[w].ref # Project /\ stored' = stored \ {job[w].ref}
    <3>1. Project \in stored' <=> Project \in stored
      BY <2>8
    <3>2. (Project \notin stored => Kept(Project))'
      BY <2>3, <3>1 DEF Remembered, KeptLast, Refs
    <3>3. ASSUME NEW t \in born, t \notin stored'
          PROVE  Kept(t)' \/ (Project \notin stored' /\ (Live(t)' => t \in recipe'))
      <4>1. CASE t = job[w].ref
        BY <2>5, <4>1
      <4>2. CASE t \notin stored
        <5>1. t \in Threads /\ t \in Refs \ stored
          BY <4>2 DEF DiskTypes, Refs
        <5> QED BY <2>1, <2>3, <2>4, <3>1, <4>2, <5>1 DEF Remembered, KeptLast
      <4> QED BY <2>8, <3>3, <4>1, <4>2
    <3>4. ASSUME NEW p \in Workers PROVE Gathering(p)'
      <4>1. StoredThreads' \subseteq StoredThreads /\ StoredThreads \subseteq Threads
        BY <2>8 DEF StoredThreads
      <4>2. CASE p = w
        BY <2>2, <4>2 DEF Gathering, Gathers
      <4>3. CASE p # w
        <5>1. job'[p] = job[p] /\ Gathering(p)
          BY <2>2, <4>3 DEF Remembered
        <5> QED BY <2>1, <2>4, <3>1, <4>1, <5>1 DEF Gathering, Gathers
      <4> QED BY <4>2, <4>3
    <3> QED BY <2>1, <3>2, <3>3, <3>4 DEF Remembered
  <2> QED BY <2>1, <2>6, <2>7, <2>8 DEF Removed
<1>22. ASSUME NEW w \in Workers, StoreFindsNothing(w) PROVE Remembered'
  BY <1>22, AsideRemembers, GotoMoves
     DEF StoreFindsNothing, Creating, Final, AtAny, diskVars
<1>23. ASSUME NEW w \in Workers, ResolveStoreError(w) PROVE Remembered'
  <2>1. /\ job[w].op \in Deletes /\ job[w].at = "resolve"
        /\ UNCHANGED <<leaseVars, stored, born, recipe, sessions>>
    BY <1>23 DEF ResolveStoreError, AtAny, diskVars
  <2>2. /\ \A v \in Workers \ {w} : job'[v] = job[v]
        /\ job'[w].at \in {"cancel", "finish", "retain"}
        /\ job'[w].at = "cancel" => job[w].ref \in stored
    BY <1>23, GotoMoves DEF ResolveStoreError
  <2>3. lease[w].ref = job[w].ref
    BY <2>1 DEF Paired, Owning
  <2>4. ASSUME NEW r \in Refs \ stored, Found(r) PROVE Found(r)' /\ (Holds(w, r)' => KeepsMarker(w)')
    BY <2>1, <2>2, <2>3, <2>4 DEF leaseVars, Found, Holds, KeepsMarker, Final
  <2>5. KeptLast
    BY <2>1, <2>2, <2>4, KeptByAll
  <2> QED BY <2>1, <2>2, <2>5, PlainRemembers DEF Creating
<1>24. ASSUME NEW w \in Workers, CancelStop(w) PROVE Remembered'
  <2>1. /\ job[w].at = "cancel" /\ UNCHANGED <<stored, born, recipe, sessions>>
        /\ Rollback(w) \/ Retain(w)
    BY <1>24 DEF CancelStop, diskVars
  <2>2. (\A v \in Workers \ {w} : job'[v] = job[v]) /\ job'[w].at \in {"none", "cancelAgain"}
    BY <1>24, GotoMoves, ReplyMoves DEF CancelStop, AfterUnstop
  <2>3. LeaseStep(w) /\ ~KeepsMarker(w)
    BY <2>1 DEF LeaseStep, KeepsMarker, Final
  <2>4. KeptLast
    BY <2>1, <2>2, <2>3, LeaseGivesBack, LeaseLetsGo, KeptByAll
  <2> QED BY <2>1, <2>2, <2>4, PlainRemembers DEF Creating
<1>25. ASSUME NEW w \in Workers, CancelStopAgain(w) PROVE Remembered'
  BY <1>25, AsideRemembers, ReplyMoves
     DEF CancelStopAgain, Creating, Final, diskVars
<1>26. ASSUME NEW w \in Workers, RetainStop(w) PROVE Remembered'
  <2>1. Retain(w)
    BY <1>26 DEF RetainStop
  <2>2. /\ \A v \in Workers \ {w} : job'[v] = job[v]
        /\ stored' = stored /\ born' = born /\ recipe' = recipe /\ sessions' \subseteq sessions
        /\ job'[w].at \notin Creating
        /\ job'[w].op = "deleteProject" => job'[w].at \notin {"recheck", "store"}
    BY <1>26, GotoMoves, ReplyMoves DEF RetainStop, Creating, AfterUnstop, diskVars
  <2>3. LeaseStep(w)
    BY <2>1 DEF LeaseStep
  <2>4. KeptLast
    BY <2>1, <2>2, <2>3, LeaseLetsGo, KeptByAll
  <2> QED BY <2>2, <2>4, PlainRemembers
<1>27. ASSUME NEW w \in Workers, FinishStop(w) PROVE Remembered'
  <2>1. Commit(w)
    BY <1>27 DEF FinishStop
  <2>2. /\ \A v \in Workers \ {w} : job'[v] = job[v]
        /\ stored' = stored /\ born' = born /\ recipe' = recipe /\ sessions' \subseteq sessions
        /\ job'[w].at \notin Creating
        /\ job'[w].op = "deleteProject" => job'[w].at \notin {"recheck", "store"}
    BY <1>27, GotoMoves DEF FinishStop, Creating, AtAny, diskVars
  <2>3. LeaseStep(w)
    BY <2>1 DEF LeaseStep
  <2>4. job'[w].at \in Final
    BY <1>27, GotoMoves DEF FinishStop, Final
  <2>5. KeptLast
    BY <2>1, <2>2, <2>3, <2>4, LeaseReads, KeptByAll DEF KeepsMarker
  <2> QED BY <2>2, <2>5, PlainRemembers
<1>28. ASSUME NEW w \in Workers, FinishStopFails(w) PROVE Remembered'
  BY <1>28, AsideRemembers, GotoMoves
     DEF FinishStopFails, Creating, Final, AtAny, diskVars
<1>29. ASSUME NEW w \in Workers, FinishSweep(w) PROVE Remembered'
  BY <1>29, AsideRemembers, GotoMoves
     DEF FinishSweep, Creating, Final, AtAny, Sweep, Kill
<1>30. ASSUME NEW w \in Workers, FinishRelease(w) PROVE Remembered'
  <2>1. Retain(w)
    BY <1>30 DEF FinishRelease
  <2>2. /\ \A v \in Workers \ {w} : job'[v] = job[v]
        /\ stored' = stored /\ born' = born /\ recipe' = recipe /\ sessions' \subseteq sessions
        /\ job'[w].at \notin Creating
        /\ job'[w].op = "deleteProject" => job'[w].at \notin {"recheck", "store"}
    BY <1>30, ReplyMoves DEF FinishRelease, Creating, AtAny, diskVars
  <2>3. LeaseStep(w)
    BY <2>1 DEF LeaseStep
  <2>4. KeptLast
    BY <2>1, <2>2, <2>3, LeaseLetsGo, KeptByAll
  <2> QED BY <2>2, <2>4, PlainRemembers
<1>31. ASSUME NEW w \in Workers, LockForMutation(w) PROVE Remembered'
  BY <1>31, AsideRemembers, GotoMoves
     DEF LockForMutation, Creating, Final, At, AtAny, diskVars
<1>32. ASSUME NEW w \in Workers, StillActive(w) PROVE Remembered'
  BY <1>32, AsideRemembers, GotoMoves
     DEF StillActive, Creating, Final, AtAny, diskVars
<1>33. ASSUME NEW w \in Workers, CloseInactive(w) PROVE Remembered'
  BY <1>33, AsideRemembers, GotoMoves
     DEF CloseInactive, Creating, Final, At
<1>34. ASSUME NEW w \in Workers, StoreSettled(w) PROVE Remembered'
  BY <1>34, AsideRemembers, GotoMoves
     DEF StoreSettled, Creating, Final, At
<1>35. ASSUME NEW w \in Workers, StoreSettledFails(w) PROVE Remembered'
  BY <1>35, AsideRemembers, GotoMoves
     DEF StoreSettledFails, Creating, Final, At
<1>36. ASSUME NEW w \in Workers, KillSessions(w) PROVE Remembered'
  BY <1>36, AsideRemembers, GotoMoves
     DEF KillSessions, Creating, Final, AtAny, DropMutation, Sweep, Kill
<1>37. ASSUME NEW w \in Workers, OpenReadProject(w) PROVE Remembered'
  <2>1. /\ job[w].at = "wait" /\ UNCHANGED <<leaseVars, stored, born, recipe, sessions>>
        /\ Reply(w) \/ (Goto(w, "readThread") /\ ~Found(Project))
    BY <1>37 DEF OpenReadProject, OpenRefused, At
  <2>2. CASE Reply(w)
    BY <2>1, <2>2, AsideRemembers, ReplyMoves DEF Creating, Final
  <2>3. CASE Goto(w, "readThread") /\ ~Found(Project)
    <3>1. (\A v \in Workers \ {w} : job'[v] = job[v]) /\ job'[w].at = "readThread"
      BY <2>3, GotoMoves
    <3>2. KeptLast /\ Gathering(w)'
      BY <2>1, <3>1, KeptAside DEF Final, Gathering, Gathers
    <3> QED BY <2>1, <2>3, <3>1, <3>2, RememberedMoved
  <2> QED BY <2>1, <2>2, <2>3
<1>38. ASSUME NEW w \in Workers, OpenReadThread(w) PROVE Remembered'
  <2>1. /\ job[w].op = "open" /\ job[w].at = "readThread" /\ UNCHANGED <<leaseVars, stored, born, recipe, sessions>>
        /\ Reply(w) \/ Goto(w, "readStore")
    BY <1>38 DEF OpenReadThread, OpenRefused, At
  <2>2. /\ \A v \in Workers \ {w} : job'[v] = job[v]
        /\ job'[w].at \in {"none", "readStore"}
        /\ job'[w].at = "readStore" => job'[w].ref = job[w].ref
    BY <2>1, GotoMoves, ReplyMoves
  <2>3. KeptLast /\ Gathering(w)'
    BY <2>1, <2>2, KeptAside DEF Final, Gathering, Gathers
  <2>4. \A t \in Threads : Live(t)' => Live(t)
    BY <2>1, <2>2, NobodyComesAlive DEF GetsSession, Creating
  <2> QED BY <2>1, <2>2, <2>3, <2>4, RememberedMoved
<1>39. ASSUME NEW w \in Workers, OpenReadStore(w) PROVE Remembered'
  <2>1. /\ job[w].op = "open" /\ job[w].at = "readStore" /\ UNCHANGED <<leaseVars, stored, born, recipe, sessions>>
        /\ Reply(w) \/ Goto(w, "create")
    BY <1>39 DEF OpenReadStore, OpenRefused, At
  <2>2. /\ \A v \in Workers \ {w} : job'[v] = job[v]
        /\ job'[w].at \in {"none", "create"}
        /\ job'[w].at = "create" => job'[w].ref = job[w].ref
    BY <2>1, GotoMoves, ReplyMoves
  <2>3. KeptLast /\ Gathering(w)'
    BY <2>1, <2>2, KeptAside DEF Final, Gathering, Gathers
  <2>4. \A t \in Threads : Live(t)' => Live(t)
    BY <2>1, <2>2, NobodyComesAlive DEF GetsSession, Creating
  <2> QED BY <2>1, <2>2, <2>3, <2>4, RememberedMoved
<1>40. ASSUME NEW w \in Workers, OpenCreate(w) PROVE Remembered'
  <2>1. /\ job[w].op = "open" /\ job[w].at = "create" /\ UNCHANGED <<leaseVars, stored, born, recipe>>
        /\ sessions' \subseteq sessions \union {job[w].ref}
    BY <1>40 DEF OpenCreate, At
  <2>2. (\A v \in Workers \ {w} : job'[v] = job[v]) /\ job'[w].at = "fence"
    BY <1>40, GotoMoves DEF OpenCreate
  <2>3. KeptLast /\ Gathering(w)'
    BY <2>1, <2>2, KeptAside DEF Final, Gathering, Gathers
  <2>4. \A t \in Threads : Live(t)' => Live(t)
    BY <2>1, <2>2 DEF Live, GetsSession, Creating
  <2> QED BY <2>1, <2>2, <2>3, <2>4, RememberedMoved
<1>41. ASSUME NEW w \in Workers, FenceReadProject(w) PROVE Remembered'
  BY <1>41, AsideRemembers, ReadsMoves
     DEF FenceReadProject, Creating, Final, At, Observed, diskVars
<1>42. ASSUME NEW w \in Workers, FenceReadThread(w) PROVE Remembered'
  BY <1>42, AsideRemembers, ReplyMoves
     DEF FenceReadThread, Creating, Final, Sweep, Kill
<1>43. ASSUME NEW w \in Workers, NEW r \in Refs, StopConflict(w, r) PROVE Remembered'
  <2>1. /\ job[w].at \in {"begin", "recheck"} /\ InspectConflict(w, r) /\ ~Rollback(w) /\ LeaseStep(w)
        /\ UNCHANGED <<stored, born, recipe, sessions>>
    BY <1>43 DEF StopConflict, diskVars, InspectConflict, Rollback, LeaseStep
  <2>2. (\A v \in Workers \ {w} : job'[v] = job[v]) /\ job'[w].at = "none"
    BY <1>43, ReplyMoves DEF StopConflict
  <2>3. KeepsMarker(w) => lease[w].adopted
    BY <2>1 DEF KeepsMarker, Final
  <2>4. KeptLast
    BY <2>1, <2>2, <2>3, LeaseGivesBack, KeptByAll
  <2> QED BY <2>1, <2>2, <2>4, PlainRemembers DEF Creating
<1>44. ASSUME NEW w \in Workers, NEW r \in Refs, ReadThreadMarker(w, r) PROVE Remembered'
  <2>1. /\ InspectAbsent(w, r) /\ LeaseStep(w) /\ job' = job
        /\ UNCHANGED <<stored, born, recipe, sessions>>
    BY <1>44 DEF ReadThreadMarker, diskVars, procVars, LeaseStep
  <2>2. KeptLast
    BY <2>1, LeaseReads, KeptByAll DEF KeepsMarker
  <2>3. \A t \in Threads : Live(t)' => Live(t)
    BY <2>1 DEF Live, GetsSession
  <2>4. Gathering(w)'
    <3>1. StoredThreads' = StoredThreads /\ StoredThreads \subseteq Threads
      BY <2>1 DEF StoredThreads
    <3> QED BY <2>1, <2>3, <3>1 DEF Remembered, Gathering, Gathers
  <2> QED BY <2>1, <2>2, <2>3, <2>4, RememberedMoved
<1>45. ASSUME NEW w \in Workers, NEW r \in Refs, RecoverMarker(w, r) PROVE Remembered'
  <2>1. /\ AcquireExisting(w, r) /\ LeaseStep(w) /\ UNCHANGED <<stored, born, recipe, sessions>>
    BY <1>45 DEF RecoverMarker, diskVars, LeaseStep
  <2>2. (\A v \in Workers \ {w} : job'[v] = job[v]) /\ job'[w].at = "recovered"
    BY <1>45, ReadsMoves DEF RecoverMarker
  <2>3. KeptLast
    BY <2>1, <2>2, LeaseAdopts, KeptByAll DEF KeepsMarker, Final
  <2> QED BY <2>1, <2>2, <2>3, PlainRemembers DEF Creating
<1>46. ASSUME NEW w \in Workers, NEW r \in Refs, SkipMarker(w, r) PROVE Remembered'
  BY <1>46, AsideRemembers, ReadsMoves
     DEF SkipMarker, Creating, Final, diskVars
<1>47. ASSUME NEW w \in Workers, RetainAmbiguous(w) PROVE Remembered'
  <2>1. Retain(w)
    BY <1>47 DEF RetainAmbiguous, EndRecovery
  <2>2. /\ \A v \in Workers \ {w} : job'[v] = job[v]
        /\ stored' = stored /\ born' = born /\ recipe' = recipe /\ sessions' \subseteq sessions
        /\ job'[w].at \notin Creating
        /\ job'[w].op = "deleteProject" => job'[w].at \notin {"recheck", "store"}
    BY <1>47, GotoMoves DEF RetainAmbiguous, Creating, EndRecovery, diskVars
  <2>3. LeaseStep(w)
    BY <2>1 DEF LeaseStep
  <2>4. KeptLast
    BY <2>1, <2>2, <2>3, LeaseLetsGo, KeptByAll
  <2> QED BY <2>2, <2>4, PlainRemembers
<1>48. ASSUME NEW w \in Workers, CommitRecovered(w) PROVE Remembered'
  <2>1. Commit(w)
    BY <1>48 DEF CommitRecovered
  <2>2. /\ \A v \in Workers \ {w} : job'[v] = job[v]
        /\ stored' = stored /\ born' = born /\ recipe' = recipe /\ sessions' \subseteq sessions
        /\ job'[w].at \notin Creating
        /\ job'[w].op = "deleteProject" => job'[w].at \notin {"recheck", "store"}
    BY <1>48, GotoMoves DEF CommitRecovered, Creating, diskVars
  <2>3. LeaseStep(w)
    BY <2>1 DEF LeaseStep
  <2>4. job'[w].at \in Final
    BY <1>48, GotoMoves DEF CommitRecovered, Final
  <2>5. KeptLast
    BY <2>1, <2>2, <2>3, <2>4, LeaseReads, KeptByAll DEF KeepsMarker
  <2> QED BY <2>2, <2>5, PlainRemembers
<1>49. ASSUME NEW w \in Workers, RecoveryFails(w) PROVE Remembered'
  <2>1. Retain(w)
    BY <1>49 DEF RecoveryFails, EndRecovery
  <2>2. /\ \A v \in Workers \ {w} : job'[v] = job[v]
        /\ stored' = stored /\ born' = born /\ recipe' = recipe /\ sessions' \subseteq sessions
        /\ job'[w].at \notin Creating
        /\ job'[w].op = "deleteProject" => job'[w].at \notin {"recheck", "store"}
    BY <1>49, GotoMoves DEF RecoveryFails, Creating, EndRecovery, diskVars
  <2>3. LeaseStep(w)
    BY <2>1 DEF LeaseStep
  <2>4. KeptLast
    BY <2>1, <2>2, <2>3, LeaseLetsGo, KeptByAll
  <2> QED BY <2>2, <2>4, PlainRemembers
<1>50. ASSUME NEW w \in Workers, RecoverSweep(w) PROVE Remembered'
  <2>1. Retain(w)
    BY <1>50 DEF RecoverSweep, EndRecovery
  <2>2. /\ \A v \in Workers \ {w} : job'[v] = job[v]
        /\ stored' = stored /\ born' = born /\ recipe' = recipe /\ sessions' \subseteq sessions
        /\ job'[w].at \notin Creating
        /\ job'[w].op = "deleteProject" => job'[w].at \notin {"recheck", "store"}
    BY <1>50, GotoMoves DEF RecoverSweep, Creating, EndRecovery, Sweep, Kill
  <2>3. LeaseStep(w)
    BY <2>1 DEF LeaseStep
  <2>4. KeptLast
    BY <2>1, <2>2, <2>3, LeaseLetsGo, KeptByAll
  <2> QED BY <2>2, <2>4, PlainRemembers
<1>51. ASSUME NEW w \in Workers, Recovered(w) PROVE Remembered'
  BY <1>51, AsideRemembers, ReplyMoves
     DEF Recovered, Creating, Final, diskVars
<1>52. ASSUME NEW p \in Processes, Crash(p) PROVE Remembered'
  <2>1. /\ \A v \in Workers : job'[v] = IF v \in Local(p) THEN NoJob ELSE job[v]
        /\ \A v \in Workers : lease'[v] = IF v \in Local(p) THEN NoLease ELSE lease[v]
        /\ UNCHANGED <<marker, stored, born, recipe, sessions>>
    BY <1>52 DEF Crash, CrashLeases
  <2>2. /\ NoJob.op \notin {"open", "deleteProject"} /\ NoLease.phase = "idle"
    BY DEF NoJob, NoLease
  <2>3. ASSUME NEW r, Kept(r) PROVE Kept(r)'
    BY <2>1, <2>2, <2>3 DEF Kept, KeepsMarker, Holds, Found
  <2>4. \A t : Live(t)' => Live(t)
    BY <2>1, <2>2 DEF Live, GetsSession
  <2>5. ASSUME NEW v \in Workers PROVE Gathering(v)'
    <3>1. CASE v \in Local(p)
      BY <2>1, <2>2, <3>1 DEF Gathering, Gathers
    <3>2. CASE v \notin Local(p)
      BY <2>1, <2>4, <3>2 DEF Remembered, Gathering, Gathers, StoredThreads
    <3> QED BY <3>1, <3>2
  <2> QED BY <2>1, <2>3, <2>4, <2>5 DEF Remembered
<1>53. ASSUME NEW p \in Processes, Boot(p) PROVE Remembered'
  <2> DEFINE w == CHOOSE v \in Local(p) : TRUE
             found == {r \in Refs : Found(r)}
  <2>1. /\ Begin(w, "boot", "recover", Project, found) /\ UNCHANGED <<leaseVars, diskVars>>
        /\ w \in Workers /\ job[w].op = "none"
    BY <1>53, TerminalStopAssumption DEF Boot, Local
  <2> HIDE DEF w, found
  <2> QED BY <2>1, JobIs, AsideRemembers, BeginMoves DEF diskVars, Creating, Final
<1> QED
  BY <1>1, <1>2, <1>3, <1>4, <1>5, <1>6, <1>7, <1>8, <1>9, <1>10, <1>11, <1>12, <1>13, <1>14,
     <1>15, <1>16, <1>17, <1>18, <1>19, <1>20, <1>21, <1>22, <1>23, <1>24, <1>25, <1>26, <1>27,
     <1>28, <1>29, <1>30, <1>31, <1>32, <1>33, <1>34, <1>35, <1>36, <1>37, <1>38, <1>39, <1>40,
     <1>41, <1>42, <1>43, <1>44, <1>45, <1>46, <1>47, <1>48, <1>49, <1>50, <1>51, <1>52, <1>53
     DEF Next, Ask, Work

-----------------------------------------------------------------------------
\* Every job names something its operation is about: threads are never asked to
\* be deleted as projects, and a project's recipe has only threads.
THEOREM JobsInScope == Spec => []ScopeInv
<1>1. Init => ScopeInv
  BY NoJobShape DEF Init, ScopeInv, ScopedJobs, ThreadStops
<1>2. ScopeInv /\ [Next]_vars => ScopeInv'
  BY ScopeStep
<1> QED
  BY <1>1, <1>2, PTL DEF Spec

\* The backends implement the lease layer.
THEOREM ImplementsStopLease == Spec => LeaseSpec
<1>1. Init => LeaseInit
  BY DEF Init
<1>2. ScopeInv /\ [Next]_vars => [LeaseNext]_leaseVars
  BY LeaseRefines
<1> QED
  BY <1>1, <1>2, JobsInScope, PTL DEF Spec, LeaseSpec

\* No backend stops a project while another stops a thread it looked at.
THEOREM BackendsKeepOneScope == Spec => []OneScope
BY ImplementsStopLease, ScopesExclude, PTL

\* The inductive invariant of the backends, next to that of the leases.
BackendsInv == ScopeInv /\ DiskTypes /\ ProcTypes /\ Held /\ Births /\ Paired /\ Truth

\* It holds of every behaviour.
THEOREM BackendsInvariant == Spec => [](LeaseTypeOK /\ BackendsInv)
<1>1. Init => BackendsInv
  <2> SUFFICES ASSUME Init PROVE BackendsInv
    OBVIOUS
  <2>1. /\ \A w \in Workers : job[w].op = "none" /\ job[w].at = "none"
        /\ job \in [Workers -> Jobs \union {NoJob}]
    BY NoJobShape DEF Init
  <2>2. /\ \A r \in Refs : marker[r] = "none"
        /\ \A w \in Workers : lease[w].phase = "idle"
    BY DEF Init, LeaseInit, NoLease
  <2>3. ScopeInv
    BY <2>1 DEF Init, ScopeInv, ScopedJobs, ThreadStops
  <2>4. DiskTypes
    BY TerminalStopAssumption DEF Init, DiskTypes, StoredThreads, Refs
  <2>5. ProcTypes
    BY TerminalStopAssumption DEF Init, ProcTypes
  <2>6. Held
    BY <2>1 DEF Init, Held, Holding
  <2>7. Births
    BY <2>1, <2>2 DEF Init, Births, Found, ThreadStops, Refs
  <2>8. Paired
    BY <2>1 DEF Paired, Deletes
  <2>9. Truth
    BY <2>1, <2>2, <2>4 DEF Truth, CommittedIsGone, Deletes, DiskTypes
  <2> QED BY <2>3, <2>4, <2>5, <2>6, <2>7, <2>8, <2>9 DEF BackendsInv
<1>2. LeaseTypeOK /\ BackendsInv /\ [Next]_vars => BackendsInv'
  <2> SUFFICES ASSUME LeaseTypeOK, BackendsInv, [Next]_vars PROVE BackendsInv'
    OBVIOUS
  <2>1. ScopeInv /\ DiskTypes /\ ProcTypes /\ Held /\ Births /\ Paired /\ Truth
    BY DEF BackendsInv
  <2>2. ScopeInv'
    BY <2>1, ScopeStep
  <2>3. DiskTypes' /\ ProcTypes'
    BY <2>1, TypesStep DEF AllTypes
  <2>4. Held'
    BY <2>1, HeldStep
  <2>5. Births'
    BY <2>1, BirthsStep
  <2>6. Paired'
    BY <2>1, PairedStep
  <2>7. Truth'
    BY <2>1, TruthStep
  <2> QED BY <2>2, <2>3, <2>4, <2>5, <2>6, <2>7 DEF BackendsInv
<1>3. LeaseInv => LeaseTypeOK
  BY DEF LeaseInv
<1> QED
  BY <1>1, <1>2, <1>3, ImplementsStopLease, LeaseInvariant, PTL DEF Spec

\* The state stays well formed, and a marker says committed only once its
\* resource has left the Store, whichever of the requests, retries and
\* recoveries of all processes wrote it, after whatever crash or failure.
THEOREM MarkersTellTheTruth == Spec => []StopsInv
<1>1. LeaseTypeOK /\ BackendsInv => StopsInv
  BY DEF BackendsInv, ScopeInv, ScopedJobs, DiskTypes, ProcTypes, Held, Truth, StopsInv, TypeOK
<1> QED
  BY <1>1, BackendsInvariant, PTL

\* A pending stop destroys nothing: a session ends only when its thread has left
\* the Store, or by the close or settlement that holds the thread's flock.
THEOREM PendingStopsSpareSessions == Spec => NonDestructive
<1>1. LeaseTypeOK /\ BackendsInv /\ [Next]_vars => Spared
  BY SparedStep DEF BackendsInv
<1>2. Spared => [\A t \in sessions \ sessions' :
          \/ t \notin stored
          \/ mutation[t] # Nobody /\ job[mutation[t]].op \in FenceUsers]_vars
  BY DEF Spared
<1> QED
  BY <1>1, <1>2, BackendsInvariant, PTL DEF Spec, NonDestructive

\* As long as nothing has failed, whoever deletes or settles a thread, and whoever
\* opens one meanwhile, ends its session before replying: so once every request
\* has been answered, no deleted or settled thread has a session left.
THEOREM QuietMeansClean == Spec => []QuietAndClean
<1> DEFINE Inv == troubles = 0 => Clean
<1>1. Init => Inv
  BY NoJobShape DEF Init, Clean, Settling, Sweeping, ProjectTold, Told, Fresh, Covers, Gathers, At
<1>2. LeaseTypeOK /\ BackendsInv /\ OneOwner /\ Inv /\ [Next]_vars => Inv'
  <2> SUFFICES ASSUME LeaseTypeOK, BackendsInv, OneOwner, Inv, [Next]_vars, troubles' = 0 PROVE Clean'
    OBVIOUS
  <2>1. troubles = 0
    BY TroublesGrow DEF Fail, BackendsInv, ProcTypes
  <2> QED BY <2>1, CleanStep DEF Untroubled, BackendsInv
<1>3. Inv => QuietAndClean
  <2> SUFFICES ASSUME Clean, \A w \in Workers : job[w].op = "none", NEW t \in sessions
               PROVE  t \in stored \ settled
    BY DEF QuietAndClean
  <2>1. \A v \in Workers : ~WillSweep(v, t) /\ ~WillKill(v, t)
    BY DEF WillSweep, ThreadSweeper, ProjectSweeper, FenceSweeper, WillKill, At
  <2> QED BY <2>1 DEF Clean, Settling, Sweeping
<1>4. LeaseInv => OneOwner
  BY DEF LeaseInv
<1> HIDE DEF Inv
<1> QED
  BY <1>1, <1>2, <1>3, <1>4, BackendsInvariant, ImplementsStopLease, LeaseInvariant, PTL DEF Spec

\* A request takes sessionMu before the flock of its thread, and nobody who holds
\* the flock ever asks for sessionMu: so following whom a waiting request waits
\* for ends, after at most two requests, at one that waits for nothing.
THEOREM RequestsDoNotBlockEachOther == Spec => []NobodyStuck
<1>1. Init => Entered
  BY NoJobShape, TerminalStopAssumption DEF Init, Entered, UnderMu
<1>2. ScopeInv /\ Entered /\ [Next]_vars => Entered'
  BY EnteredStep
<1>3. ScopeInv /\ Held /\ Entered => NobodyStuck
  <2> SUFFICES ASSUME ScopeInv, Held, Entered, NEW w \in Workers, job[w].op # "none"
               PROVE  \E u \in Workers : job[u].op # "none" /\ ~Waits(u)
    BY DEF NobodyStuck
  <2>1. \A t \in Threads : mutation[t] # Nobody =>
           \E u \in Workers : job[u].op # "none" /\ ~Waits(u)
    <3> SUFFICES ASSUME NEW t \in Threads, mutation[t] # Nobody
                 PROVE  \E u \in Workers : job[u].op # "none" /\ ~Waits(u)
      OBVIOUS
    <3> DEFINE holder == mutation[t]
    <3>1. holder \in Workers /\ job[holder].at \in Holding
      BY DEF Held
    <3>2. job[holder].op # "none"
      BY <3>1, JobIs DEF Holding, ScopeInv
    <3>3. ~Waits(holder)
      BY <3>1 DEF Waits, Holding, Locking
    <3> QED BY <3>1, <3>2, <3>3
  <2>2. ASSUME NEW v \in Workers, job[v].at = "wait", mutation[job[v].ref] # Nobody
        PROVE  \E u \in Workers : job[u].op # "none" /\ ~Waits(u)
    BY <2>1, <2>2 DEF Entered
  <2>3. ASSUME ~LockFree(w)
        PROVE  \E u \in Workers : job[u].op # "none" /\ ~Waits(u)
    <3> DEFINE owner == sessionMu[Home[w]]
    <3>1. owner \in Workers /\ job[owner].at \in UnderMu
      BY <2>3, TerminalStopAssumption DEF LockFree, Entered
    <3>2. job[owner].op # "none"
      BY <3>1, JobIs DEF UnderMu, ScopeInv
    <3>3. Waits(owner) => job[owner].at = "wait" /\ mutation[job[owner].ref] # Nobody
      BY <3>1 DEF Waits, UnderMu, Locking
    <3> QED BY <2>2, <3>1, <3>2, <3>3
  <2>4. Waits(w) => ~LockFree(w) \/ (job[w].at = "wait" /\ mutation[job[w].ref] # Nobody)
    BY DEF Waits
  <2> QED BY <2>2, <2>3, <2>4
<1>4. LeaseTypeOK /\ BackendsInv => ScopeInv /\ Held
  BY DEF BackendsInv
<1> QED
  BY <1>1, <1>2, <1>3, <1>4, BackendsInvariant, PTL DEF Spec

\* RecoverableOrphan fails in one way only: a project deletion that adopted the
\* marker of another, cannot read the Store again, and gives that marker back
\* (terminal.go:4166-4193).  Any number of other failing calls, crashes, retries
\* and recoveries leave the session of a deleted thread a marker that has it.
NoAdoptedMarkerGivenBack == [][\A w \in Workers : RefreshFails(w) => ~lease[w].adopted]_vars

THEOREM OrphansStayRecoverable == Spec /\ NoAdoptedMarkerGivenBack => []RecoverableOrphan
<1> DEFINE Inv == ScopeInv /\ DiskTypes /\ Births /\ Paired /\ LeaseTypeOK /\ OneOwner
<1>1. Init => Remembered
  <2> SUFFICES ASSUME Init PROVE Remembered
    OBVIOUS
  <2>1. Project \in stored /\ born \ stored = {} /\ \A w \in Workers : job[w].op = "none"
    BY NoJobShape DEF Init
  <2> QED BY <2>1 DEF Remembered, Gathering, Gathers
<1>2. Inv /\ Remembered /\ [Next]_vars /\ [\A w \in Workers : RefreshFails(w) => ~lease[w].adopted]_vars
         => Remembered'
  <2> SUFFICES ASSUME Mindful, [Next]_vars,
                      (\A w \in Workers : RefreshFails(w) => ~lease[w].adopted) \/ UNCHANGED vars
               PROVE  Remembered'
    BY DEF Mindful
  <2>1. CASE \A w \in Workers : RefreshFails(w) => ~lease[w].adopted
    BY <2>1, RememberedStep
  <2>2. CASE UNCHANGED vars
    BY <2>2 DEF Mindful, vars, diskVars, procVars, leaseVars, Remembered, Kept, KeepsMarker, Holds, Found,
       Live, GetsSession, Gathering, Gathers, StoredThreads
  <2> QED BY <2>1, <2>2
<1>3. Inv /\ Remembered => RecoverableOrphan
  <2> SUFFICES ASSUME DiskTypes, Births, Remembered, NEW t \in sessions \ stored
               PROVE  \E r \in {Project, t} : Found(r) /\ t \in Sweeps(r)
    BY DEF RecoverableOrphan
  <2>1. CASE Kept(t)
    BY <2>1, ProjectAssumption DEF Kept, Sweeps, DiskTypes
  <2>2. CASE Project \notin stored /\ (Live(t) => t \in recipe)
    BY <2>2 DEF Remembered, Kept, Live, Sweeps
  <2> QED BY <2>1, <2>2 DEF Births, Remembered
<1>4. BackendsInv /\ LeaseInv => Inv
  BY DEF BackendsInv, LeaseInv
<1> HIDE DEF Inv
<1> QED
  BY <1>1, <1>2, <1>3, <1>4, BackendsInvariant, ImplementsStopLease, LeaseInvariant, PTL
     DEF Spec, NoAdoptedMarkerGivenBack

=============================================================================
