----------------------------- MODULE DownloadLeases -----------------------------
(***************************************************************************)
(* The execution lock of one job (locking.py): how lock files that know    *)
(* only one holder are made into a lock that any number of downloads share *)
(* and everything else has for itself.                                     *)
(*                                                                         *)
(* Every download registers a lease, a lock file of its own with a fresh   *)
(* name, while it holds the raw execution lock for a moment.  Whoever      *)
(* wants the job for itself takes the raw lock and then tries every lease  *)
(* file it finds: one that is locked belongs to a live download, one that  *)
(* is not was left by a dead one and is removed.  The operating system     *)
(* releases the locks of a process that ends; it does not remove files.    *)
(***************************************************************************)
EXTENDS Naturals

CONSTANTS
    Readers,      \* downloads; each also names its lease file
    Executors,    \* runs, retries, deletions, edits and collections of the job
    Nobody,       \* holder of a free lock
    MaxCrashes    \* bound: processes that end in the middle

Procs == Readers \cup Executors

ASSUME Actors == Readers \cap Executors = {} /\ Nobody \notin Procs

ASSUME CrashBound == MaxCrashes \in Nat

VARIABLES
    execution,    \* holder of the raw lock
    lease,        \* [Readers -> holder of that lease file's lock]
    files,        \* the lease files there are
    pc,           \* [Procs -> where it is]
    left,         \* [Executors -> lease files it has found and not yet removed]
    crashes

vars == <<execution, lease, files, pc, left, crashes>>

Control == {"idle", "registering", "registered", "transferring", "unlinking", "probing", "probed", "body"}

Goto(p, from, to) == pc[p] = from /\ pc' = [pc EXCEPT ![p] = to]

-------------------------------------------------------------------------------
(***************************************************************************)
(* download_lock                                                           *)
(***************************************************************************)
\* Seeded defect: the lease is registered without the raw lock.
BeginReadAside(r) ==
    /\ r \notin files
    /\ Goto(r, "idle", "registering")
    /\ UNCHANGED <<execution, lease, files, left, crashes>>

\* The raw lock, without which no lease is registered; the lease's name is fresh.
BeginRead(r) ==
    /\ r \notin files
    /\ Goto(r, "idle", "registering")
    /\ execution = Nobody
    /\ execution' = r
    /\ UNCHANGED <<lease, files, left, crashes>>

\* Open the lease file, which creates it, and lock it.
Register(r) ==
    /\ Goto(r, "registering", "registered")
    /\ files' = files \cup {r}
    /\ lease' = [lease EXCEPT ![r] = r]
    /\ UNCHANGED <<execution, left, crashes>>

\* Give the raw lock back and hand out the file.
Transfer(r) ==
    /\ Goto(r, "registered", "transferring")
    /\ execution' = IF execution = r THEN Nobody ELSE execution
    /\ UNCHANGED <<lease, files, left, crashes>>

\* Leaving the with statement unlocks the lease; the file is unlinked after it.
EndTransfer(r) ==
    /\ Goto(r, "transferring", "unlinking")
    /\ lease' = [lease EXCEPT ![r] = Nobody]
    /\ UNCHANGED <<execution, files, left, crashes>>

Unlink(r) ==
    /\ Goto(r, "unlinking", "idle")
    /\ files' = files \ {r}
    /\ UNCHANGED <<execution, lease, left, crashes>>

-------------------------------------------------------------------------------
(***************************************************************************)
(* job_lock(..., "execution")                                              *)
(***************************************************************************)
\* The raw lock, and the list of the lease files there are under it.
BeginLock(e) ==
    /\ Goto(e, "idle", "probing")
    /\ execution = Nobody
    /\ execution' = e
    /\ left' = [left EXCEPT ![e] = files]
    /\ UNCHANGED <<lease, files, crashes>>

\* Open a listed lease, which creates it again if its download has just removed
\* it, and lock it.
Probe(e, r) ==
    /\ r \in left[e]
    /\ Goto(e, "probing", "probed")
    /\ lease[r] = Nobody
    /\ lease' = [lease EXCEPT ![r] = e]
    /\ files' = files \cup {r}
    /\ UNCHANGED <<execution, left, crashes>>

\* Seeded defect: the raw lock is kept when a lease is found busy.
ProbeBusyKeepingLock(e, r) ==
    /\ r \in left[e]
    /\ Goto(e, "probing", "idle")
    /\ lease[r] # Nobody
    /\ left' = [left EXCEPT ![e] = {}]
    /\ UNCHANGED <<execution, lease, files, crashes>>

\* JobBusyError: the download lives.
ProbeBusy(e, r) ==
    /\ r \in left[e]
    /\ Goto(e, "probing", "idle")
    /\ lease[r] # Nobody
    /\ execution' = Nobody
    /\ left' = [left EXCEPT ![e] = {}]
    /\ UNCHANGED <<lease, files, crashes>>

\* Unlock the lease that was tried, remove it, and go on with the next.
Reclaim(e, r) ==
    /\ Goto(e, "probed", "probing")
    /\ lease[r] = e
    /\ lease' = [lease EXCEPT ![r] = Nobody]
    /\ files' = files \ {r}
    /\ left' = [left EXCEPT ![e] = @ \ {r}]
    /\ UNCHANGED <<execution, crashes>>

\* No lease is left: the body of the with statement runs.
EnterBody(e) ==
    /\ Goto(e, "probing", "body")
    /\ left[e] = {}
    /\ UNCHANGED <<execution, lease, files, left, crashes>>

LeaveBody(e) ==
    /\ Goto(e, "body", "idle")
    /\ execution' = Nobody
    /\ UNCHANGED <<lease, files, left, crashes>>

\* The end of a process at any point.
Crash(p) ==
    /\ pc[p] # "idle"
    /\ crashes < MaxCrashes
    /\ crashes' = crashes + 1
    /\ pc' = [pc EXCEPT ![p] = "idle"]
    /\ execution' = IF execution = p THEN Nobody ELSE execution
    /\ lease' = [r \in Readers |-> IF lease[r] = p THEN Nobody ELSE lease[r]]
    /\ left' = [e \in Executors |-> IF e = p THEN {} ELSE left[e]]
    /\ UNCHANGED files

-------------------------------------------------------------------------------
Init ==
    /\ execution = Nobody
    /\ lease = [r \in Readers |-> Nobody]
    /\ files = {}
    /\ pc = [p \in Procs |-> "idle"]
    /\ left = [e \in Executors |-> {}]
    /\ crashes = 0

Reading(r) == Register(r) \/ Transfer(r) \/ EndTransfer(r) \/ Unlink(r)

Locking(e) ==
    \/ \E r \in Readers : Probe(e, r) \/ ProbeBusy(e, r) \/ Reclaim(e, r)
    \/ EnterBody(e)
    \/ LeaveBody(e)

Next ==
    \/ \E r \in Readers : BeginRead(r) \/ Reading(r)
    \/ \E e \in Executors : BeginLock(e) \/ Locking(e)
    \/ \E p \in Procs : Crash(p)

Spec == Init /\ [][Next]_vars

\* What has been begun goes on; a worker tries the lock of a job on every tick,
\* so it finds it free once in a while if it is free again and again (SF).
Fairness ==
    /\ \A r \in Readers : WF_vars(Reading(r))
    /\ \A e \in Executors : WF_vars(Locking(e)) /\ SF_vars(BeginLock(e))

FairSpec == Spec /\ Fairness

-------------------------------------------------------------------------------
(***************************************************************************)
(* Properties.                                                             *)
(***************************************************************************)
\* Every variable has its type.
TypeOK ==
    /\ execution \in Procs \cup {Nobody}
    /\ lease \in [Readers -> Procs \cup {Nobody}]
    /\ files \subseteq Readers
    /\ pc \in [Procs -> Control]
    /\ left \in [Executors -> SUBSET Readers]
    /\ crashes \in Nat

\* The inductive invariant.  Until its lease is registered a download holds the
\* raw lock, and so does an executor from its listing on: so the listing of an
\* executor still has every lease file there is, and those of live downloads
\* are locked.
LeaseInv ==
    /\ TypeOK
    /\ \A r \in Readers :
          /\ pc[r] \in {"idle", "registering", "registered", "transferring", "unlinking"}
          /\ pc[r] \in {"registering", "registered"} => execution = r
          /\ pc[r] \in {"registered", "transferring"} => lease[r] = r /\ r \in files
    /\ \A e \in Executors :
          /\ pc[e] \in {"idle", "probing", "probed", "body"}
          /\ pc[e] # "idle" => execution = e /\ files \subseteq left[e]
          /\ pc[e] = "body" => left[e] = {}

\* A run, a deletion or a collection finds no lease when it begins its work and
\* none appears while it is at it: leases of downloads that died do not pile up.
BodyAlone == \A e \in Executors : pc[e] = "body" => files = {}

\* With the leases, the raw lock is a lock that downloads share: no download is
\* handed a file while someone works on the job, and no one begins to while a
\* download goes on, whichever process dies in between.
Lock == INSTANCE ReaderLock WITH
            readers <- {r \in Readers : pc[r] = "transferring"},
            owners <- {e \in Executors : pc[e] = "body"}
LockSpec == Lock!Spec

\* Abandoned leases are reclaimable: once no download is under way, whatever
\* leases dead ones have left, the job can be run, retried and deleted again.
ExecutorServed ==
    <>[](\A r \in Readers : pc[r] = "idle") => []<>(\E e \in Executors : pc[e] = "body")
===============================================================================
