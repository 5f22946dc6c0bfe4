---------------------------- MODULE TerminalStop ----------------------------
(***************************************************************************)
(* How the backends of one data directory delete, close, settle and open    *)
(* the terminals of a project's threads (internal/server/terminal.go,       *)
(* server.go, settlement.go, session_cleanup.go).  Backend processes share  *)
(* the persisted Store, the stop markers of StopLease, one mutation flock   *)
(* per thread and the tmux server; each has its own sessionMu and its own   *)
(* set of resources it is stopping.  A crash loses what a process keeps in  *)
(* memory and the locks it holds, never a file or a tmux session.           *)
(*                                                                         *)
(* A step is one access to state that another process can change.  Taking   *)
(* a lock is one step with the access that follows it and dropping a lock   *)
(* with the one before.  A thread's terminals are one session; native       *)
(* agents, browser sessions, usage and activity records are left out, and   *)
(* so are the failing reads and marker writes on the way into a request,    *)
(* where the request simply ends.                                           *)
(***************************************************************************)
EXTENDS StopLease, FiniteSets, Naturals

CONSTANTS
    Processes,      \* backend processes
    Home,           \* the process of each worker
    Nobody,         \* the owner of a free lock
    InitialThreads, \* the threads that exist at the start
    MayRun,         \* the operations each worker may be asked for
    MaxActs,        \* bound: requests per worker
    MaxTroubles     \* bound: crashes of a process, and failing Store, marker and tmux calls

VARIABLES
    stored,     \* the project and threads in the persisted Store
    born,       \* threads that have been created at some time
    settled,    \* threads whose stored record says settled
    recipe,     \* the threads whose sessions the project marker lists
    sessions,   \* threads with a live tmux session
    mutation,   \* the owner of each thread's mutation flock
    up,         \* processes that serve requests
    sessionMu,  \* the owner of each process's sessionMu
    stopping,   \* what each process is stopping: stoppingProjects, stoppingThreads
    job,        \* what each worker is doing
    acts,       \* requests each worker may still be given
    troubles    \* calls that have failed and crashes that have happened

diskVars == <<stored, born, settled, recipe, sessions, mutation>>
procVars == <<up, sessionMu, stopping, job>>
boundVars == <<acts, troubles>>
vars == <<leaseVars, diskVars, procVars, boundVars>>

ASSUME TerminalStopAssumption ==
    /\ Home \in [Workers -> Processes]
    /\ \A p \in Processes : \E w \in Workers : Home[w] = p
    /\ Nobody \notin Workers
    /\ InitialThreads \subseteq Threads
    /\ MaxActs \in Nat /\ MaxTroubles \in Nat

Ops == {"deleteThread", "deleteProject", "close", "settle", "open", "boot"}
Requests == Ops \union {"unsettle", "addThread"}
Steps == {"stop", "begin", "recheck", "store", "resolve", "cancel", "cancelAgain", "retain",
          "finish", "sweep", "release", "mutate", "wait", "kill",
          "lock", "readThread", "readStore", "create", "fence",
          "fenceNone", "fencePending", "fenceCommitted", "recover", "recovered", "recoverSweep"}

\* seen: the threads, or the markers, the request has read from shared state
Jobs == [op: Ops, at: Steps, ref: Refs, seen: SUBSET Refs]
NoJob == [op |-> "none", at |-> "none", ref |-> Project, seen |-> {}]

StoredThreads == stored \intersect Threads

TypeOK ==
    /\ LeaseTypeOK
    /\ stored \subseteq Refs /\ born \subseteq Threads /\ settled \subseteq Threads
    /\ recipe \subseteq Threads /\ sessions \subseteq Threads
    /\ mutation \in [Threads -> Workers \union {Nobody}]
    /\ up \subseteq Processes
    /\ sessionMu \in [Processes -> Workers \union {Nobody}]
    /\ stopping \in [Processes -> SUBSET Refs]
    /\ job \in [Workers -> Jobs \union {NoJob}]
    /\ StoredThreads # {} => Project \in stored
    /\ \A t \in Threads : mutation[t] # Nobody => job[mutation[t]].ref = t
    /\ acts \in [Workers -> 0..MaxActs] /\ troubles \in 0..MaxTroubles

Init ==
    /\ LeaseInit
    /\ stored = InitialThreads \union {Project}
    /\ born = InitialThreads
    /\ settled = {}
    /\ recipe = {}
    /\ sessions \in SUBSET InitialThreads
    /\ mutation = [t \in Threads |-> Nobody]
    /\ up = Processes
    /\ sessionMu = [p \in Processes |-> Nobody]
    /\ stopping = [p \in Processes |-> {}]
    /\ job = [w \in Workers |-> NoJob]
    /\ acts = [w \in Workers |-> MaxActs]
    /\ troubles = 0

-----------------------------------------------------------------------------
\* Helpers

At(w, op, step) == job[w].op = op /\ job[w].at = step
AtAny(w, ops, step) == job[w].op \in ops /\ job[w].at = step
Begin(w, op, step, r, seen) ==
    job' = [job EXCEPT ![w] = [op |-> op, at |-> step, ref |-> r, seen |-> seen]]
Reads(w, step, seen) == Begin(w, job[w].op, step, job[w].ref, seen)
Goto(w, step) == Reads(w, step, job[w].seen)
Reply(w) == job' = [job EXCEPT ![w] = NoJob]

LockFree(w) == sessionMu[Home[w]] = Nobody
Lock(w) == LockFree(w) /\ sessionMu' = [sessionMu EXCEPT ![Home[w]] = w]
Unlock(w) == sessionMu' = [sessionMu EXCEPT ![Home[w]] = Nobody]

Stopping(w, rs) == stopping[Home[w]] \intersect rs # {}
Mark(w, rs) == stopping' = [stopping EXCEPT ![Home[w]] = @ \union rs]
Unmark(w, rs) == stopping' = [stopping EXCEPT ![Home[w]] = @ \ rs]

\* What a stop marks in its process, once granted.
Scope(w) == IF job[w].ref = Project THEN {Project} \union job[w].seen ELSE {job[w].ref}

\* The sessions a marker tells its owner to sweep.
Sweeps(r) == IF r = Project THEN recipe ELSE {r}

Fail == troubles < MaxTroubles /\ troubles' = troubles + 1

Kill(ts) == sessions' = sessions \ ts

\* Kill the sessions, or fail to: tmux may not answer.
Sweep(ts) ==
    \/ Kill(ts) /\ UNCHANGED troubles
    \/ Fail /\ UNCHANGED sessions

Ready(w, op) ==
    /\ job[w].op = "none"
    /\ Home[w] \in up
    /\ op \in MayRun[w]
    /\ acts[w] > 0
    /\ acts' = [acts EXCEPT ![w] = @ - 1]

\* settlementMu: one settlement at a time in a process
SettlementFree(w) == \A v \in Workers : job[v].op = "settle" => Home[v] # Home[w]

-----------------------------------------------------------------------------
\* Requests.  Each one first loads the thread or project it names.

\* deleteThreadRecord: an absent thread is a retry of its deletion, which
\* goes through the markers of the project's threads.
AskDeleteThread(w, t) ==
    /\ Ready(w, "deleteThread")
    /\ t \in born
    /\ IF t \in stored
       THEN Begin(w, "deleteThread", "stop", t, {})
       ELSE Begin(w, "deleteThread", "recover", t, {u \in Threads : Found(u)})
    /\ UNCHANGED <<leaseVars, diskVars, up, sessionMu, stopping, troubles>>

\* deleteProject
AskDeleteProject(w) ==
    /\ Ready(w, "deleteProject")
    /\ IF Project \in stored
       THEN Begin(w, "deleteProject", "stop", Project, StoredThreads)
       ELSE Begin(w, "deleteProject", "recover", Project, {Project})
    /\ UNCHANGED <<leaseVars, diskVars, up, sessionMu, stopping, troubles>>

\* closeInactiveThreadSessions, of a thread on the cleanup pass's list
AskClose(w, t) ==
    /\ Ready(w, "close")
    /\ t \in stored
    /\ Begin(w, "close", "stop", t, {})
    /\ UNCHANGED <<leaseVars, diskVars, up, sessionMu, stopping, troubles>>

\* setThreadSettlementLocked, under settlementMu from here to the reply
AskSettle(w, t) ==
    /\ Ready(w, "settle")
    /\ SettlementFree(w)
    /\ t \in stored
    /\ Begin(w, "settle", "stop", t, {})
    /\ UNCHANGED <<leaseVars, diskVars, up, sessionMu, stopping, troubles>>

Unsettle(w, t) ==
    /\ Ready(w, "unsettle")
    /\ SettlementFree(w)
    /\ t \in settled \intersect stored
    /\ settled' = settled \ {t}
    /\ UNCHANGED <<leaseVars, stored, born, recipe, sessions, mutation, procVars, troubles>>

AskOpen(w, t) ==
    /\ Ready(w, "open")
    /\ t \in stored
    /\ Begin(w, "open", "lock", t, {})
    /\ UNCHANGED <<leaseVars, diskVars, up, sessionMu, stopping, troubles>>

\* The Store adds a thread whatever is being stopped; ids are never reused.
AddThread(w, t) ==
    /\ Ready(w, "addThread")
    /\ Project \in stored
    /\ t \notin born
    /\ stored' = stored \union {t}
    /\ born' = born \union {t}
    /\ UNCHANGED <<leaseVars, settled, recipe, sessions, mutation, procVars, troubles>>

-----------------------------------------------------------------------------
\* stopThreadSessions, for a deletion, a close and a settlement.  sessionMu is
\* held from the first local check to the local mark.

ThreadStops == {"deleteThread", "close", "settle"}

StopThreadRefused(w) ==
    /\ AtAny(w, ThreadStops, "stop")
    /\ LockFree(w)
    /\ Stopping(w, {Project, job[w].ref}) \/ Found(Project)
    /\ Reply(w)
    /\ UNCHANGED <<leaseVars, diskVars, up, sessionMu, stopping, boundVars>>

StopThread(w) ==
    /\ AtAny(w, ThreadStops, "stop")
    /\ ~Stopping(w, {Project, job[w].ref})
    /\ Lock(w)
    /\ BeginThread(w, job[w].ref)
    /\ Goto(w, "begin")
    /\ UNCHANGED <<diskVars, up, stopping, boundVars>>

TakeMarker(w) ==
    /\ AtAny(w, ThreadStops, "begin")
    /\ AcquireThread(w)
    /\ UNCHANGED <<diskVars, procVars, boundVars>>

MarkerTaken(w) ==
    /\ AtAny(w, ThreadStops, "begin")
    /\ RefusedBusy(w)
    /\ Unlock(w)
    /\ Reply(w)
    /\ UNCHANGED <<diskVars, up, stopping, boundVars>>

\* A close or a settlement never goes on with a marker it did not create.
AfterThreadStop(w) ==
    IF job[w].op = "deleteThread" THEN "store"
    ELSE IF lease[w].adopted THEN "retain" ELSE "mutate"

ThreadStopGranted(w) ==
    /\ AtAny(w, ThreadStops, "begin")
    /\ InspectAbsent(w, Project)
    /\ Mark(w, {job[w].ref})
    /\ Unlock(w)
    /\ Goto(w, AfterThreadStop(w))
    /\ UNCHANGED <<diskVars, up, boundVars>>

\* A conflicting marker refuses a thread stop, or a project stop in its first
\* look at the threads or in the second one.
StopConflict(w, r) ==
    /\ job[w].at \in {"begin", "recheck"}
    /\ InspectConflict(w, r)
    /\ Unmark(w, IF job[w].at = "recheck" THEN {Project} ELSE {})
    /\ Unlock(w)
    /\ Reply(w)
    /\ UNCHANGED <<diskVars, up, boundVars>>

-----------------------------------------------------------------------------
\* stopProjectSessions, under sessionMu throughout

StopProjectRefused(w) ==
    /\ At(w, "deleteProject", "stop")
    /\ LockFree(w)
    /\ Stopping(w, Scope(w)) \/ Busy(Project)
    /\ Reply(w)
    /\ UNCHANGED <<leaseVars, diskVars, up, sessionMu, stopping, boundVars>>

StopProject(w) ==
    /\ At(w, "deleteProject", "stop")
    /\ ~Stopping(w, Scope(w))
    /\ Lock(w)
    /\ BeginProject(w, job[w].seen)
    /\ recipe' = IF Found(Project) THEN recipe ELSE job[w].seen
    /\ Goto(w, "begin")
    /\ UNCHANGED <<stored, born, settled, sessions, mutation, up, stopping, boundVars>>

ReadThreadMarker(w, t) ==
    /\ AtAny(w, {"deleteProject"}, "begin") \/ At(w, "deleteProject", "recheck")
    /\ InspectAbsent(w, t)
    /\ UNCHANGED <<diskVars, procVars, boundVars>>

\* The project marker is visible: read the membership again, and look at the
\* marker of every thread of it.
RefreshProject(w) ==
    /\ At(w, "deleteProject", "begin")
    /\ Granted(w, Project)
    /\ Project \in stored
    /\ RecheckProjectThreads(w, StoredThreads)
    /\ Mark(w, {Project})
    /\ Reads(w, "recheck", StoredThreads)
    /\ UNCHANGED <<diskVars, up, sessionMu, boundVars>>

\* The Store deletion of an earlier owner won: commit its marker, and go on
\* with the recipe it holds.
RefreshFindsProjectGone(w) ==
    /\ At(w, "deleteProject", "begin")
    /\ Granted(w, Project)
    /\ Project \notin stored
    /\ \/ /\ Commit(w)
          /\ Mark(w, Scope(w))
          /\ Goto(w, "store")
          /\ UNCHANGED troubles
       \/ /\ Fail
          /\ Retain(w)
          /\ Reply(w)
          /\ UNCHANGED stopping
    /\ Unlock(w)
    /\ UNCHANGED <<diskVars, up, acts>>

\* The membership cannot be read.  A committed marker survives the rollback; a
\* pending one is removed, and unlike a conflict this does not ask whether the
\* marker was adopted.
RefreshFails(w) ==
    /\ At(w, "deleteProject", "begin")
    /\ Granted(w, Project)
    /\ Fail
    /\ Rollback(w)
    /\ Unlock(w)
    /\ Reply(w)
    /\ UNCHANGED <<diskVars, up, stopping, acts>>

\* UpdateCleanupRecipe, and the last look at this process's own stops
UpdateCleanupRecipe(w) ==
    /\ At(w, "deleteProject", "recheck")
    /\ Granted(w, Project)
    /\ recipe' = job[w].seen
    /\ IF Stopping(w, job[w].seen)
       THEN Rollback(w) /\ Unmark(w, {Project}) /\ Reply(w)
       ELSE Mark(w, job[w].seen) /\ Goto(w, "store") /\ UNCHANGED leaseVars
    /\ Unlock(w)
    /\ UNCHANGED <<stored, born, settled, sessions, mutation, up, boundVars>>

\* The recipe cannot be written: the marker stays as it was.
UpdateCleanupRecipeFails(w) ==
    /\ At(w, "deleteProject", "recheck")
    /\ Granted(w, Project)
    /\ Fail
    /\ Retain(w)
    /\ Unmark(w, {Project})
    /\ Unlock(w)
    /\ Reply(w)
    /\ UNCHANGED <<diskVars, up, acts>>

-----------------------------------------------------------------------------
\* The Store deletion, and what follows it

Deletes == {"deleteThread", "deleteProject"}

Removed(r) == IF r = Project THEN {} ELSE stored \ {r}

\* Store.DeleteThread and Store.Delete
StoreDelete(w) ==
    /\ AtAny(w, Deletes, "store")
    /\ job[w].ref \in stored
    /\ \/ stored' = Removed(job[w].ref) /\ Goto(w, "finish") /\ UNCHANGED troubles
       \/ Fail /\ UNCHANGED stored /\ Goto(w, "resolve")
       \/ Fail /\ stored' = Removed(job[w].ref) /\ Goto(w, "resolve")
    /\ UNCHANGED <<leaseVars, born, settled, recipe, sessions, mutation,
                   up, sessionMu, stopping, acts>>

StoreFindsNothing(w) ==
    /\ AtAny(w, Deletes, "store")
    /\ job[w].ref \notin stored
    /\ Goto(w, "resolve")
    /\ UNCHANGED <<leaseVars, diskVars, up, sessionMu, stopping, boundVars>>

\* Mutant: a failed deletion is finished without asking the Store.
ResolveStoreErrorUnasked(w) ==
    /\ AtAny(w, Deletes, "resolve")
    /\ Goto(w, "finish")
    /\ UNCHANGED <<leaseVars, diskVars, up, sessionMu, stopping, boundVars>>

\* resolveStopThreadStoreError, resolveStopProjectStoreError: only a resource
\* that is still stored gives its marker back.
ResolveStoreError(w) ==
    /\ AtAny(w, Deletes, "resolve")
    /\ \/ Goto(w, IF job[w].ref \in stored THEN "cancel" ELSE "finish") /\ UNCHANGED troubles
       \/ Fail /\ Goto(w, "retain")
    /\ UNCHANGED <<leaseVars, diskVars, up, sessionMu, stopping, acts>>

\* deleteThreadRecord cancels a second time after a deletion that was not published.
AfterUnstop(w) ==
    IF job[w].op = "deleteThread" THEN Goto(w, "cancelAgain") ELSE Reply(w)

\* cancelStopThread, cancelStopProject: a marker that cannot be removed is left.
CancelStop(w) ==
    /\ job[w].at = "cancel"
    /\ LockFree(w)
    /\ Unmark(w, Scope(w))
    /\ \/ Rollback(w) /\ UNCHANGED troubles
       \/ Fail /\ Retain(w)
    /\ AfterUnstop(w)
    /\ UNCHANGED <<diskVars, up, sessionMu, acts>>

\* The second cancel finds the lease closed and still clears the local mark.
CancelStopAgain(w) ==
    /\ job[w].at = "cancelAgain"
    /\ LockFree(w)
    /\ Unmark(w, {job[w].ref})
    /\ Reply(w)
    /\ UNCHANGED <<leaseVars, diskVars, up, sessionMu, boundVars>>

\* retainStopThread, retainStopProject
RetainStop(w) ==
    /\ job[w].at = "retain"
    /\ LockFree(w)
    /\ Unmark(w, Scope(w))
    /\ Retain(w)
    /\ AfterUnstop(w)
    /\ UNCHANGED <<diskVars, up, sessionMu, boundVars>>

\* finishStopThread, finishStopProject: commit, sweep under sessionMu, and let
\* the lease go after it.
FinishStop(w) ==
    /\ AtAny(w, Deletes, "finish")
    /\ Lock(w)
    /\ Commit(w)
    /\ Goto(w, "sweep")
    /\ UNCHANGED <<diskVars, up, stopping, boundVars>>

FinishStopFails(w) ==
    /\ AtAny(w, Deletes, "finish")
    /\ LockFree(w)
    /\ Fail
    /\ Unmark(w, Scope(w))
    /\ Goto(w, "release")
    /\ UNCHANGED <<leaseVars, diskVars, up, sessionMu, acts>>

FinishSweep(w) ==
    /\ AtAny(w, Deletes, "sweep")
    /\ Sweep(Sweeps(job[w].ref))
    /\ Unmark(w, Scope(w))
    /\ Unlock(w)
    /\ Goto(w, "release")
    /\ UNCHANGED <<leaseVars, stored, born, settled, recipe, mutation, up, acts>>

FinishRelease(w) ==
    /\ AtAny(w, Deletes, "release")
    /\ Retain(w)
    /\ Reply(w)
    /\ UNCHANGED <<diskVars, up, sessionMu, stopping, boundVars>>

-----------------------------------------------------------------------------
\* Closing and settling: behind the fence of their own marker, under sessionMu
\* and then the thread's mutation flock.

FenceUsers == {"close", "settle"}

\* sessionMu stays held while the flock is waited for.
LockForMutation(w) ==
    /\ AtAny(w, FenceUsers, "mutate") \/ At(w, "open", "lock")
    /\ Lock(w)
    /\ Goto(w, "wait")
    /\ UNCHANGED <<leaseVars, diskVars, up, stopping, boundVars>>

TakeMutation(w) ==
    /\ mutation[job[w].ref] = Nobody
    /\ mutation' = [mutation EXCEPT ![job[w].ref] = w]

DropMutation(w) == mutation' = [mutation EXCEPT ![job[w].ref] = Nobody]

\* The sessions were used lately, or an agent works: nothing is closed.
StillActive(w) ==
    /\ AtAny(w, FenceUsers, "wait")
    /\ mutation[job[w].ref] = Nobody
    /\ Unlock(w)
    /\ Goto(w, "cancel")
    /\ UNCHANGED <<leaseVars, diskVars, up, stopping, boundVars>>

CloseInactive(w) ==
    /\ At(w, "close", "wait")
    /\ TakeMutation(w)
    /\ Goto(w, "kill")
    /\ UNCHANGED <<leaseVars, stored, born, settled, recipe, sessions, up, sessionMu,
                   stopping, boundVars>>

\* SetThreadSettled comes before the kill.
StoreSettled(w) ==
    /\ At(w, "settle", "wait")
    /\ job[w].ref \in stored
    /\ TakeMutation(w)
    /\ settled' = settled \union {job[w].ref}
    /\ Goto(w, "kill")
    /\ UNCHANGED <<leaseVars, stored, born, recipe, sessions, up, sessionMu, stopping, boundVars>>

\* The Store has the settlement and reports an error: nothing is killed.
StoreSettledFails(w) ==
    /\ At(w, "settle", "wait")
    /\ job[w].ref \in stored
    /\ mutation[job[w].ref] = Nobody
    /\ Fail
    /\ settled' = settled \union {job[w].ref}
    /\ Unlock(w)
    /\ Goto(w, "cancel")
    /\ UNCHANGED <<leaseVars, stored, born, recipe, sessions, mutation, up, stopping, acts>>

KillSessions(w) ==
    /\ AtAny(w, FenceUsers, "kill")
    /\ Sweep({job[w].ref})
    /\ DropMutation(w)
    /\ Unlock(w)
    /\ Goto(w, "cancel")
    /\ UNCHANGED <<leaseVars, stored, born, settled, recipe, up, stopping, acts>>

-----------------------------------------------------------------------------
\* Opening a session: ensureTerminalThreadActiveLocked reads the project
\* marker, the thread marker and the Store, in this order, under both locks.

OpenRefused(w) == DropMutation(w) /\ Unlock(w) /\ Reply(w)

OpenReadProject(w) ==
    /\ At(w, "open", "wait")
    /\ mutation[job[w].ref] = Nobody
    /\ IF Stopping(w, {Project, job[w].ref}) \/ Found(Project)
       THEN OpenRefused(w)
       ELSE TakeMutation(w) /\ Goto(w, "readThread") /\ UNCHANGED sessionMu
    /\ UNCHANGED <<leaseVars, stored, born, settled, recipe, sessions, up, stopping, boundVars>>

OpenReadThread(w) ==
    /\ At(w, "open", "readThread")
    /\ IF Found(job[w].ref)
       THEN OpenRefused(w)
       ELSE Goto(w, "readStore") /\ UNCHANGED <<mutation, sessionMu>>
    /\ UNCHANGED <<leaseVars, stored, born, settled, recipe, sessions, up, stopping, boundVars>>

\* sessionMu is let go before the session is created.
OpenReadStore(w) ==
    /\ At(w, "open", "readStore")
    /\ IF job[w].ref \in stored \ settled
       THEN Goto(w, "create") /\ Unlock(w) /\ UNCHANGED mutation
       ELSE OpenRefused(w)
    /\ UNCHANGED <<leaseVars, stored, born, settled, recipe, sessions, up, stopping, boundVars>>

\* Mutant: the new session is not fenced.
OpenCreateUnfenced(w) ==
    /\ At(w, "open", "create")
    /\ sessions' = sessions \union {job[w].ref}
    /\ DropMutation(w)
    /\ Reply(w)
    /\ UNCHANGED <<leaseVars, stored, born, settled, recipe, up, sessionMu, stopping, boundVars>>

\* Mutant: the flock is still held while the fence waits for sessionMu.
OpenCreateKeepsFlock(w) ==
    /\ At(w, "open", "create")
    /\ sessions' = sessions \union {job[w].ref}
    /\ Goto(w, "fence")
    /\ UNCHANGED <<leaseVars, stored, born, settled, recipe, mutation, up, sessionMu,
                   stopping, boundVars>>

\* Mutant: sessionMu is taken before the flock is dropped.
OpenCreateLockFirst(w) ==
    /\ At(w, "open", "create")
    /\ LockFree(w)
    /\ sessions' = sessions \union {job[w].ref}
    /\ DropMutation(w)
    /\ Goto(w, "fence")
    /\ UNCHANGED <<leaseVars, stored, born, settled, recipe, up, sessionMu, stopping, boundVars>>

\* The flock is dropped before sessionMu is taken again.
OpenCreate(w) ==
    /\ At(w, "open", "create")
    /\ \/ sessions' = sessions \union {job[w].ref} /\ UNCHANGED troubles
       \/ Fail /\ UNCHANGED sessions
    /\ DropMutation(w)
    /\ Goto(w, "fence")
    /\ UNCHANGED <<leaseVars, stored, born, settled, recipe, up, sessionMu, stopping, acts>>

\* What the fence saw of the project marker
Observed ==
    IF ~Found(Project) THEN "fenceNone"
    ELSE IF marker[Project] = "pending" THEN "fencePending" ELSE "fenceCommitted"

\* finishTerminalThreadMutationLocked: the project marker first
FenceReadProject(w) ==
    /\ At(w, "open", "fence")
    /\ Lock(w)
    /\ Reads(w, Observed, IF Found(Project) THEN recipe ELSE {})
    /\ UNCHANGED <<leaseVars, diskVars, up, stopping, boundVars>>

\* Mutant: a pending marker lets the fence kill.
FencedSessionsPending(w) ==
    job[w].seen \union (IF Found(job[w].ref) THEN {job[w].ref} ELSE {})

\* Then the thread marker, and the Store for each marker that was pending.  Only
\* a deletion that took place lets the fence kill.
FencedSessions(w) ==
    (IF job[w].at = "fenceCommitted" \/ (job[w].at = "fencePending" /\ Project \notin stored)
     THEN job[w].seen ELSE {})
    \union
    (IF marker[job[w].ref] = "committed" \/ (Found(job[w].ref) /\ job[w].ref \notin stored)
     THEN {job[w].ref} ELSE {})

FenceReadThread(w) ==
    /\ job[w].at \in {"fenceNone", "fencePending", "fenceCommitted"}
    /\ Sweep(FencedSessions(w))
    /\ Unlock(w)
    /\ Reply(w)
    /\ UNCHANGED <<leaseVars, stored, born, settled, recipe, mutation, up, stopping, acts>>

-----------------------------------------------------------------------------
\* Recovery: reconcileTerminalStop, one marker at a time under sessionMu, for a
\* starting process and for a DELETE of something that is not stored.

\* reconcileDeletedThreadMarkers leaves the threads that are stored alone.
NotItsMarker(w, r) == job[w].op = "deleteThread" /\ r \in stored

RecoverMarker(w, r) ==
    /\ job[w].at = "recover"
    /\ r \in job[w].seen
    /\ ~NotItsMarker(w, r)
    /\ AcquireExisting(w, r)
    /\ Lock(w)
    /\ Reads(w, "recovered", job[w].seen \ {r})
    /\ UNCHANGED <<diskVars, up, stopping, boundVars>>

\* A live owner has the marker, or it is gone.
SkipMarker(w, r) ==
    /\ job[w].at = "recover"
    /\ r \in job[w].seen
    /\ NotItsMarker(w, r) \/ (LockFree(w) /\ (~Found(r) \/ Busy(r)))
    /\ Reads(w, "recover", job[w].seen \ {r})
    /\ UNCHANGED <<leaseVars, diskVars, up, sessionMu, stopping, boundVars>>

\* clearLocalTerminalStopLocked
Cleared(r) == IF r = Project THEN Refs ELSE {r}

EndRecovery(w) == Retain(w) /\ Unlock(w) /\ Goto(w, "recover")

\* A pending marker of a stored resource stays as a fence.
RetainAmbiguous(w) ==
    /\ job[w].at = "recovered"
    /\ marker[lease[w].ref] = "pending"
    /\ lease[w].ref \in stored
    /\ Unmark(w, Cleared(lease[w].ref))
    /\ EndRecovery(w)
    /\ UNCHANGED <<diskVars, up, boundVars>>

CommitRecovered(w) ==
    /\ job[w].at = "recovered"
    /\ marker[lease[w].ref] = "committed" \/ lease[w].ref \notin stored
    /\ Commit(w)
    /\ Goto(w, "recoverSweep")
    /\ UNCHANGED <<diskVars, up, sessionMu, stopping, boundVars>>

\* The Store cannot be read or the marker cannot be written.
RecoveryFails(w) ==
    /\ job[w].at = "recovered"
    /\ marker[lease[w].ref] = "pending"
    /\ Fail
    /\ EndRecovery(w)
    /\ UNCHANGED <<diskVars, up, stopping, acts>>

RecoverSweep(w) ==
    /\ job[w].at = "recoverSweep"
    /\ Sweep(Sweeps(lease[w].ref))
    /\ Unmark(w, Cleared(lease[w].ref))
    /\ EndRecovery(w)
    /\ UNCHANGED <<stored, born, settled, recipe, mutation, up, acts>>

\* All markers are resolved: a request replies, a process starts to serve.
Recovered(w) ==
    /\ job[w].at = "recover"
    /\ job[w].seen = {}
    /\ up' = up \union {Home[w]}
    /\ Reply(w)
    /\ UNCHANGED <<leaseVars, diskVars, sessionMu, stopping, boundVars>>

-----------------------------------------------------------------------------
\* Processes

Local(p) == {w \in Workers : Home[w] = p}

Crash(p) ==
    /\ Fail
    /\ p \in up \/ \E w \in Local(p) : job[w].op = "boot"
    /\ up' = up \ {p}
    /\ CrashLeases(Local(p))
    /\ job' = [w \in Workers |-> IF w \in Local(p) THEN NoJob ELSE job[w]]
    /\ mutation' = [t \in Threads |-> IF mutation[t] \in Local(p) THEN Nobody ELSE mutation[t]]
    /\ sessionMu' = [sessionMu EXCEPT ![p] = Nobody]
    /\ stopping' = [stopping EXCEPT ![p] = {}]
    /\ UNCHANGED <<stored, born, settled, recipe, sessions, acts>>

\* newServer reconciles every marker before it serves.
Boot(p) ==
    /\ p \notin up
    /\ \A w \in Local(p) : job[w].op = "none"
    /\ Begin(CHOOSE w \in Local(p) : TRUE, "boot", "recover", Project, {r \in Refs : Found(r)})
    /\ UNCHANGED <<leaseVars, diskVars, up, sessionMu, stopping, boundVars>>

-----------------------------------------------------------------------------
Ask(w) ==
    \/ AskDeleteProject(w)
    \/ \E t \in Threads :
          \/ AskDeleteThread(w, t) \/ AskClose(w, t) \/ AskSettle(w, t)
          \/ Unsettle(w, t) \/ AskOpen(w, t) \/ AddThread(w, t)

Work(w) ==
    \/ StopThreadRefused(w) \/ StopThread(w) \/ TakeMarker(w) \/ MarkerTaken(w)
    \/ ThreadStopGranted(w)
    \/ StopProjectRefused(w) \/ StopProject(w) \/ RefreshProject(w)
    \/ RefreshFindsProjectGone(w) \/ RefreshFails(w) \/ UpdateCleanupRecipe(w)
    \/ UpdateCleanupRecipeFails(w)
    \/ StoreDelete(w) \/ StoreFindsNothing(w) \/ ResolveStoreError(w)
    \/ CancelStop(w) \/ CancelStopAgain(w) \/ RetainStop(w)
    \/ FinishStop(w) \/ FinishStopFails(w) \/ FinishSweep(w) \/ FinishRelease(w)
    \/ LockForMutation(w) \/ StillActive(w) \/ CloseInactive(w) \/ StoreSettled(w)
    \/ StoreSettledFails(w) \/ KillSessions(w)
    \/ OpenReadProject(w) \/ OpenReadThread(w) \/ OpenReadStore(w) \/ OpenCreate(w)
    \/ FenceReadProject(w) \/ FenceReadThread(w)
    \/ \E r \in Refs : StopConflict(w, r) \/ ReadThreadMarker(w, r)
                       \/ RecoverMarker(w, r) \/ SkipMarker(w, r)
    \/ RetainAmbiguous(w) \/ CommitRecovered(w) \/ RecoveryFails(w) \/ RecoverSweep(w)
    \/ Recovered(w)

Next ==
    \/ \E w \in Workers : Ask(w) \/ Work(w)
    \/ \E p \in Processes : Crash(p) \/ Boot(p)

Spec == Init /\ [][Next]_vars

-----------------------------------------------------------------------------
\* Properties

\* A pending stop destroys nothing: a session goes away only when its thread is
\* no longer stored, or to the close or settlement that holds the thread's
\* mutation flock (terminal.go:1552-1556).  So a deletion whose Store write
\* fails gives the user back every process.
NonDestructive ==
    [][\A t \in sessions \ sessions' :
          \/ t \notin stored
          \/ mutation[t] # Nobody /\ job[mutation[t]].op \in FenceUsers]_vars

\* The session of a deleted thread is never forgotten: a marker whose recipe
\* has it is still on disk, for the fence, a retried DELETE or the next start to
\* sweep (terminal_stop.go:40-43).  The code breaks it: see RefreshFails.
RecoverableOrphan ==
    \A t \in sessions \ stored : \E r \in {Project, t} : Found(r) /\ t \in Sweeps(r)

\* Committed is final and true: a marker says committed only once its resource
\* has left the Store (terminal_stop.go:601-604), whichever request, retry or
\* recovery wrote it, after whatever failure.
CommittedIsGone == \A r \in stored : marker[r] # "committed"

\* The state stays well formed, and no marker lies.
StopsInv == TypeOK /\ CommittedIsGone

\* When nothing has failed and every request has been answered, a deleted or
\* settled thread has no session left.
QuietAndClean ==
    troubles = 0 /\ (\A w \in Workers : job[w].op = "none")
        => sessions \subseteq stored \ settled

\* A request waits for sessionMu where it takes it next, and for the flock of its
\* thread once it has sessionMu.  Nothing else makes a request wait: markers are
\* looked at, and the flock of a marker is tried.
Locking == {"stop", "cancel", "cancelAgain", "retain", "finish", "mutate", "lock", "fence"}
Waits(w) ==
    \/ ~LockFree(w) /\ (job[w].at \in Locking \/ (job[w].at = "recover" /\ job[w].seen # {}))
    \/ job[w].at = "wait" /\ mutation[job[w].ref] # Nobody

\* Requests that wait for sessionMu and for mutation flocks, also those of another
\* process or of one that starts, never all wait for each other
\* (terminal.go:1186-1190).
NobodyStuck ==
    (\E w \in Workers : job[w].op # "none") =>
        \E w \in Workers : job[w].op # "none" /\ ~Waits(w)

\* A request that does not wait for a lock has a next step, whatever it finds: no
\* marker, lease, failure or deletion by another leaves it without an answer.  As a
\* request takes boundedly many steps, every request is then answered.
RequestsGoOn ==
    \A w \in Workers : job[w].op # "none" /\ ~Waits(w) => ENABLED Work(w)

=============================================================================
