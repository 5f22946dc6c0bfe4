----------------------------- MODULE StopLease -----------------------------
(***************************************************************************)
(* The durable stop markers of internal/server/terminal_stop.go and the    *)
(* leases that requests hold on them.  A marker is a file that any backend  *)
(* process can read; a lease is the flock on the marker's sidecar file, so  *)
(* a crash frees the lease and leaves the marker.  A thread's marker and    *)
(* its project's marker are different files, and the code makes them one    *)
(* boundary by writing its own marker first and then reading the other's.  *)
(*                                                                         *)
(* A step is one access to a shared file.  Taking the flock, reading the    *)
(* marker under it and writing it when it is absent is one step: only the   *)
(* holder of the flock writes or removes a marker.  Malformed markers,      *)
(* replaced lock files and unreadable directories are left out.             *)
(***************************************************************************)
CONSTANTS
    Threads,    \* the threads of the one project
    Project,    \* the project, as the name of its marker
    Workers     \* request and recovery goroutines, of every backend process

Refs == Threads \union {Project}

ASSUME ProjectAssumption == Project \notin Threads

VARIABLES
    marker,     \* the marker file of each ref: "none", "pending" or "committed"
    lease       \* the lease each worker holds, or is about to take

leaseVars == <<marker, lease>>

MarkerStates == {"none", "pending", "committed"}
LeasePhases == {"idle", "wanted", "checking", "granted", "recovered"}

\* todo holds the conflicting markers still to be read.  checked is history:
\* the markers this lease has read and found absent.
Leases == [ref: Refs, phase: LeasePhases, adopted: BOOLEAN,
           todo: SUBSET Refs, checked: SUBSET Refs]

NoLease == [ref |-> Project, phase |-> "idle", adopted |-> FALSE,
            todo |-> {}, checked |-> {}]

LeaseTypeOK ==
    /\ marker \in [Refs -> MarkerStates]
    /\ lease \in [Workers -> Leases]

LeaseInit ==
    /\ marker = [r \in Refs |-> "none"]
    /\ lease = [w \in Workers |-> NoLease]

-----------------------------------------------------------------------------
Found(r) == marker[r] # "none"

Holds(w, r) == lease[w].ref = r /\ lease[w].phase \in {"checking", "granted", "recovered"}

Busy(r) == \E w \in Workers : Holds(w, r)

Granted(w, r) == lease[w].ref = r /\ lease[w].phase = "granted"

\* A begin call returns its lease once no conflicting marker is left to read.
PhaseAfter(todo) == IF todo = {} THEN "granted" ELSE "checking"

Drop(w) == lease' = [lease EXCEPT ![w] = NoLease]

Acquire(w, r, conflicts) ==
    /\ ~Busy(r)
    /\ marker' = [marker EXCEPT ![r] = IF Found(r) THEN @ ELSE "pending"]
    /\ lease' = [lease EXCEPT ![w] = [ref |-> r, phase |-> PhaseAfter(conflicts),
                                      adopted |-> Found(r), todo |-> conflicts,
                                      checked |-> {}]]

\* Remove the marker unless its deletion was committed, and let go of the lock.
RemoveAndDrop(w) ==
    /\ marker' = [marker EXCEPT ![lease[w].ref] =
                     IF @ = "committed" THEN @ ELSE "none"]
    /\ Drop(w)

-----------------------------------------------------------------------------
\* beginThread's first look at the project marker
BeginThread(w, t) ==
    /\ lease[w].phase = "idle"
    /\ ~Found(Project)
    /\ lease' = [lease EXCEPT ![w] = [NoLease EXCEPT !.ref = t, !.phase = "wanted"]]
    /\ UNCHANGED marker

\* Mutant: the project marker is not read again.
AcquireThreadUnchecked(w) ==
    /\ lease[w].phase = "wanted"
    /\ Acquire(w, lease[w].ref, {})

AcquireThread(w) ==
    /\ lease[w].phase = "wanted"
    /\ Acquire(w, lease[w].ref, {Project})

\* The flock is tried without blocking; a live holder refuses the request.
RefusedBusy(w) ==
    /\ lease[w].phase = "wanted"
    /\ Busy(lease[w].ref)
    /\ Drop(w)
    /\ UNCHANGED marker

BeginProject(w, ts) ==
    /\ lease[w].phase = "idle"
    /\ Acquire(w, Project, ts)

\* Read one conflicting marker and find it absent.
InspectAbsent(w, r) ==
    /\ lease[w].phase = "checking"
    /\ r \in lease[w].todo
    /\ ~Found(r)
    /\ lease' = [lease EXCEPT ![w] =
                     [@ EXCEPT !.todo = lease[w].todo \ {r},
                               !.checked = lease[w].checked \union {r},
                               !.phase = PhaseAfter(lease[w].todo \ {r})]]
    /\ UNCHANGED marker

\* Read one conflicting marker and find it: a marker this call created is
\* rolled back, an adopted one is preserved.
InspectConflict(w, r) ==
    /\ lease[w].phase = "checking"
    /\ r \in lease[w].todo
    /\ Found(r)
    /\ IF lease[w].adopted THEN Drop(w) /\ UNCHANGED marker ELSE RemoveAndDrop(w)

\* RecheckProjectThreads, over the membership read after the marker was written
RecheckProjectThreads(w, ts) ==
    /\ Granted(w, Project)
    /\ lease' = [lease EXCEPT ![w] = [@ EXCEPT !.todo = ts, !.phase = PhaseAfter(ts)]]
    /\ UNCHANGED marker

Commit(w) ==
    /\ lease[w].phase \in {"granted", "recovered"}
    /\ marker' = [marker EXCEPT ![lease[w].ref] = "committed"]
    /\ UNCHANGED lease

Rollback(w) ==
    /\ lease[w].phase = "granted"
    /\ RemoveAndDrop(w)

Retain(w) ==
    /\ lease[w].phase \in {"granted", "recovered"}
    /\ Drop(w)
    /\ UNCHANGED marker

\* acquireExisting: recovery adopts a marker without reading the other scope.
AcquireExisting(w, r) ==
    /\ lease[w].phase = "idle"
    /\ Found(r)
    /\ ~Busy(r)
    /\ lease' = [lease EXCEPT ![w] = [NoLease EXCEPT !.ref = r, !.phase = "recovered",
                                                     !.adopted = TRUE]]
    /\ UNCHANGED marker

\* The operating system drops the flocks of a dead process.
CrashLeases(ws) ==
    /\ lease' = [w \in Workers |-> IF w \in ws THEN NoLease ELSE lease[w]]
    /\ UNCHANGED marker

LeaseStep(w) ==
    \/ \E t \in Threads : BeginThread(w, t)
    \/ AcquireThread(w)
    \/ RefusedBusy(w)
    \/ \E ts \in SUBSET Threads : BeginProject(w, ts) \/ RecheckProjectThreads(w, ts)
    \/ \E r \in Refs : InspectAbsent(w, r) \/ InspectConflict(w, r) \/ AcquireExisting(w, r)
    \/ Commit(w)
    \/ Rollback(w)
    \/ Retain(w)

LeaseNext == (\E w \in Workers : LeaseStep(w)) \/ \E ws \in SUBSET Workers : CrashLeases(ws)

LeaseSpec == LeaseInit /\ [][LeaseNext]_leaseVars

-----------------------------------------------------------------------------
\* A project stop and a thread stop are never both granted when the project
\* stop looked at that thread: whichever marker is written second sees the
\* first, in any process and across crashes (terminal_stop.go:111-113, 142-148).
OneScope ==
    \A p \in Workers, w \in Workers : \A t \in Threads :
        Granted(p, Project) /\ Granted(w, t) => t \notin lease[p].checked

\* At most one live owner decides the fate of a marker, and the marker stays
\* there for as long as it is owned (terminal_stop.go:59-60, 237-282).
OneOwner ==
    \A r \in Refs : \A v \in Workers, w \in Workers :
        Holds(v, r) /\ Holds(w, r) => v = w /\ Found(r)

=============================================================================
