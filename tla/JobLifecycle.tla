------------------------------ MODULE JobLifecycle ------------------------------
(***************************************************************************)
(* The life of a subtitle job between the HTTP API, the media worker and   *)
(* the expiry batch.  They are separate processes that share nothing but a *)
(* directory: one job.json per job, replaced atomically, and lock files    *)
(* taken without blocking and released by the operating system when their  *)
(* holder exits.                                                           *)
(*                                                                         *)
(* Whatever a process does to a job record it does in a section: it takes  *)
(* its locks and reads the record in one step, and writes what it computed *)
(* from that reading in a later one, so a step of any other process may    *)
(* fall in between.                                                        *)
(***************************************************************************)
EXTENDS JobStatuses, Naturals

CONSTANTS
    Jobs,          \* job ids
    Workers,       \* media_worker processes polling one storage root
    Clients,       \* request threads of the API
    Collectors,    \* "--collect-only" batch processes
    Admission,     \* the lock id "0" * 32
    Serial,        \* the lock id "f" * 32
    Nobody,        \* holder of a free lock
    NoJob,         \* no job
    AssetJobs,     \* jobs whose source is a registered video, not an own upload
    RequestOf,     \* [Jobs -> Request]
    MaxEnqueued,   \* bound: a request that may queue a job comes before so many were queued
    MaxFaults      \* bound: crashes, shutdowns and failed writes

Procs == Workers \cup Clients \cup Collectors
LockNames == (Jobs \cup {Admission, Serial}) \X {"state", "execution"}

ASSUME Distinct ==
    /\ Workers \cap Clients = {}
    /\ Workers \cap Collectors = {}
    /\ Clients \cap Collectors = {}
    /\ Nobody \notin Procs
    /\ NoJob \notin Jobs
    /\ Admission \notin Jobs
    /\ Serial \notin Jobs
    /\ Admission # Serial

ASSUME Requests ==
    /\ AssetJobs \subseteq Jobs
    /\ RequestOf \in [Jobs -> Request]
    /\ \A j \in Jobs :
          /\ ValidRequest(RequestOf[j])
          /\ j \notin AssetJobs => /\ RequestOf[j].template = "full"
                                  /\ ~RequestOf[j].subtitle
                                  /\ ~RequestOf[j].audio

ASSUME Bounds == MaxEnqueued \in Nat /\ MaxFaults \in Nat

VARIABLES
    \* what is on disk
    record,     \* job.json of every job
    files,      \* of its directory: "input" (all of it), "draft" (in work/), "folder" (output/ as it
                \* was created with the job) and "output" (all results in it)
    held,       \* holder of every lock file
    \* time, as far as retention tells it apart
    age,        \* 0: kept, 1: past its result, review or upload period, 2: past the history period
    purged,     \* a user's delete of this job began and did not finish
    enqueued,   \* the clock queued_at is read from
    faults,     \* crashes, shutdowns and failed writes so far
    \* what each process is doing
    section,    \* [Procs -> the section it is in]
    mode,       \* [Procs -> where its control is]
    todo,       \* [Procs -> jobs its collect() pass has still to visit]
    queue,      \* [Workers -> its tick's listing of the queue, as far as it is still to be processed]
    job,        \* [Workers -> the job it runs]
    at,         \* [Workers -> the status its run wrote last]
    plan,       \* [Workers -> the statuses its run has still to write]
    stopping    \* [Workers -> its stop event]

disk == <<record, files>>
clock == <<age, purged, enqueued, faults>>
run == <<queue, job, at, plan, stopping>>
vars == <<record, files, held, age, purged, enqueued, faults, section, mode, todo, queue, job, at, plan, stopping>>

-------------------------------------------------------------------------------
Record == [status  : Status \cup {"ABSENT", "DELETED"},
           cancel  : BOOLEAN,                     \* metadata.cancel_requested
           ready   : BOOLEAN,                     \* metadata.review_ready
           expired : BOOLEAN,                     \* metadata.results_expired_at is set
           done    : BOOLEAN,                     \* completed_at is set
           queued  : Nat]                         \* metadata.queued_at

Gone == [status |-> "DELETED", cancel |-> FALSE, ready |-> FALSE, expired |-> FALSE, done |-> FALSE, queued |-> 0]
Unborn == [status |-> "ABSENT", cancel |-> FALSE, ready |-> FALSE, expired |-> FALSE, done |-> FALSE, queued |-> 0]

Op == {"create", "admit", "append", "complete", "start", "cancel", "reset", "requeue", "edit", "render",
       "purge", "delete", "wipe", "expire", "recover", "advance", "beat", "fail"}
Section == [op : Op, job : Jobs, rec : Record]
Outside == [op |-> "none", job |-> NoJob, rec |-> Unborn]

Exists(j) == record[j].status \notin {"ABSENT", "DELETED"}

\* repo.source_path(record).is_file(), the check of start and retry.
SourcePresent(j) == j \in AssetJobs \/ "input" \in files[j]

\* A job has a source of its own, a snapshot of what it was handed, or neither.
OwnsInput(j) == j \notin AssetJobs \/ RequestOf[j].subtitle \/ RequestOf[j].audio

Waiting == {"UPLOADING", "READY", "QUEUED", "AWAITING_REVIEW"}

StateLock(j) == <<j, "state">>
ExecutionLock(j) == <<j, "execution">>
AdmissionLock == <<Admission, "state">>
SerialLock == <<Serial, "execution">>

Idle(p) == section[p] = Outside
AllFree(L) == \A l \in L : held[l] = Nobody
Take(p, L) == held' = [l \in LockNames |-> IF l \in L THEN p ELSE held[l]]

\* job_lock(...) and job_lock(...) around repo.read(): all locks or none.
Enter(p, op, j, L) ==
    /\ Idle(p)
    /\ AllFree(L)
    /\ Take(p, L)
    /\ section' = [section EXCEPT ![p] = [op |-> op, job |-> j, rec |-> record[j]]]

\* The execution locks a worker keeps between its sections.
Kept(p) == IF p \in Workers THEN {SerialLock, ExecutionLock(job[p])} ELSE {}
Released(p, keep) == [l \in LockNames |-> IF held[l] = p /\ l \notin keep THEN Nobody ELSE held[l]]

Leave(p) ==
    /\ section' = [section EXCEPT ![p] = Outside]
    /\ held' = Released(p, Kept(p))

-------------------------------------------------------------------------------
(***************************************************************************)
(* What a section writes, computed from the record it read.                *)
(***************************************************************************)
Enqueue(r) == [r EXCEPT !.status = "QUEUED", !.queued = enqueued + 1]
Finish(r, s) == [r EXCEPT !.status = s, !.done = TRUE]

CancelOf(r) == IF r.status \in Waiting THEN Finish(r, "CANCELLED") ELSE [r EXCEPT !.cancel = TRUE]

\* collect(): a finished job only loses its files, an unfinished one is cancelled.
ExpireOf(r) == IF r.status \in Terminal THEN [r EXCEPT !.expired = TRUE] ELSE Finish(r, "CANCELLED")

\* transition(): the next status of the run.
AdvanceOf(r, s) == IF s \in Terminal THEN Finish(r, s) ELSE [r EXCEPT !.status = s]

\* process()'s handler: a requested cancellation goes before the failure.
FailOf(r) == Finish(r, IF r.cancel THEN "CANCELLED" ELSE "FAILED")

Written(p) ==
    LET r == section[p].rec
    IN  CASE section[p].op = "create"                -> [r EXCEPT !.status = "UPLOADING"]
          [] section[p].op = "complete"              -> [r EXCEPT !.status = "READY"]
          [] section[p].op \in {"admit", "start", "requeue"} -> Enqueue(r)
          [] section[p].op = "cancel"                -> CancelOf(r)
          [] section[p].op = "reset"                 -> [r EXCEPT !.cancel = FALSE, !.done = FALSE]
          [] section[p].op = "render"                -> [Enqueue(r) EXCEPT !.ready = TRUE]
          [] section[p].op = "delete"                -> Gone
          [] section[p].op = "expire"                -> ExpireOf(r)
          [] section[p].op = "recover"               -> Finish(r, "FAILED")
          [] section[p].op = "advance"               -> AdvanceOf(r, Head(plan[p]))
          [] section[p].op = "fail"                  -> FailOf(r)
          [] OTHER                                   -> r

\* Files a write leaves behind it: the last chunk completes the source, the
\* run has written the draft or the results before it announces them.
FilesWritten(p, s) ==
    LET j == section[p].job
    IN  CASE section[p].op = "create"                          -> files[j] \cup {"folder"}
          [] section[p].op = "append"                          -> files[j] \cup {"input"}
          [] section[p].op = "admit"                           -> files[j] \cup {"folder", "input"}
          [] section[p].op = "delete"                          -> {}
          [] section[p].op = "advance" /\ s = "AWAITING_REVIEW" -> files[j] \cup {"draft"}
          [] section[p].op = "advance" /\ s = "COMPLETED"       -> files[j] \cup {"output"}
          [] OTHER                                             -> files[j]

\* Retention runs from completed_at when there is one, else from the last save;
\* editing a draft is no save of the record.
Keeps(p, w) == section[p].op = "edit" \/ (w.done /\ section[p].rec.done)

Enqueues(p) == section[p].op \in {"admit", "start", "requeue", "render"}

Advances(p) == section[p].op \in {"advance", "fail"}

\* write_json_atomic.  The section ends, except that retry_job saves the reset
\* record first and queues it in a second save, and that a draft edited for
\* rendering is queued once it is written, under the job's own locks only.
Follow(op) == CASE op = "reset" -> {"requeue"} [] op = "edit" -> {"render", "none"} [] OTHER -> {"none"}

Save(p) ==
    /\ section[p].op \notin {"none", "purge", "wipe"}
    /\ LET j == section[p].job
           w == Written(p)
       IN  /\ record' = [record EXCEPT ![j] = w]
           /\ files' = [files EXCEPT ![j] = FilesWritten(p, w.status)]
           /\ age' = [age EXCEPT ![j] = IF Keeps(p, w) THEN @ ELSE 0]
           /\ purged' = [purged EXCEPT ![j] = @ /\ w.status = record[j].status]
           /\ enqueued' = IF Enqueues(p) THEN enqueued + 1 ELSE enqueued
           /\ \E op \in Follow(section[p].op) :
                IF op = "none"
                THEN Leave(p)
                ELSE /\ section' = [section EXCEPT ![p] = [op |-> op, job |-> j, rec |-> w]]
                     /\ held' = IF op = "render" THEN Released(p, LockNames \ {AdmissionLock}) ELSE held
           /\ IF Advances(p)
              THEN /\ at' = [at EXCEPT ![p] = w.status]
                   /\ plan' = [plan EXCEPT ![p] = IF section[p].op = "fail" THEN << >> ELSE Tail(@)]
              ELSE UNCHANGED <<at, plan>>
    /\ UNCHANGED <<faults, mode, todo, queue, job, stopping>>

\* cleanup() or rmtree, before the record is written.  Files that had expired
\* before need no second mark.
RemoveFiles(p) ==
    LET j == section[p].job
    IN  /\ section[p].op \in {"purge", "wipe"}
        /\ files' = [files EXCEPT ![j] = {}]
        /\ purged' = [purged EXCEPT ![j] = @ \/ section[p].op = "purge"]
        /\ IF section[p].op = "wipe" /\ section[p].rec.status \in Terminal /\ section[p].rec.expired
           THEN Leave(p)
           ELSE /\ section' = [section EXCEPT ![p].op = IF @ = "purge" THEN "delete" ELSE "expire"]
                /\ held' = held
        /\ UNCHANGED <<record, age, enqueued, faults, mode, todo, run>>

\* An error inside a section, or the end of the process in it: the locks are
\* released and what was not yet written stays unwritten.  An interrupted
\* removal may have deleted any part of the files, a user's deletion the
\* record as well.
Abandon(p) ==
    /\ p \in Clients \cup Collectors \/ section[p].op = "recover"
    /\ ~Idle(p)
    /\ Leave(p)
    /\ LET j == section[p].job
       IN  CASE section[p].op = "purge" ->
                  /\ files' \in {[files EXCEPT ![j] = left] : left \in SUBSET files[j]}
                  /\ record' \in {record, [record EXCEPT ![j] = Gone]}
                  /\ purged' = [purged EXCEPT ![j] = TRUE]
             [] section[p].op = "wipe" ->
                  /\ files' \in {[files EXCEPT ![j] = left] : left \in SUBSET files[j]}
                  /\ UNCHANGED <<record, purged>>
             [] OTHER -> UNCHANGED <<disk, purged>>
    /\ faults < MaxFaults
    /\ faults' = faults + 1
    /\ UNCHANGED <<age, enqueued, mode, todo, run>>

-------------------------------------------------------------------------------
(***************************************************************************)
(* Requests.  One that finds a lock taken answers 409 at once, one whose   *)
(* conditions fail answers an error; neither writes anything, so only the  *)
(* requests that go on to write are actions.                               *)
(***************************************************************************)
Handler(c, op, j, L) ==
    /\ op \in {"admit", "start", "reset", "edit"} => enqueued < MaxEnqueued
    /\ Enter(c, op, j, L)
    /\ UNCHANGED <<disk, clock, mode, todo, run>>

\* POST /uploads; an upload with a known request_id returns the existing job.
CreateUpload(c, j) ==
    /\ j \notin AssetJobs
    /\ record[j].status = "ABSENT"
    /\ Handler(c, "create", j, {AdmissionLock})

\* POST /assets/{id}/jobs: the job is born QUEUED and published last.
CreateWorkflow(c, j) ==
    /\ j \in AssetJobs
    /\ record[j].status = "ABSENT"
    /\ Handler(c, "admit", j, {AdmissionLock})

\* PUT /uploads/{id}/chunks with the chunk that completes the file.
UploadChunk(c, j) ==
    /\ record[j].status = "UPLOADING"
    /\ "input" \notin files[j]
    /\ Handler(c, "append", j, {StateLock(j)})

\* POST /uploads/{id}/complete
CompleteUpload(c, j) ==
    /\ record[j].status = "UPLOADING"
    /\ "input" \in files[j]
    /\ Handler(c, "complete", j, {StateLock(j)})

\* POST /jobs/{id}/start.  A job that is QUEUED already keeps its place.
StartJob(c, j) ==
    /\ record[j].status = "READY"
    /\ SourcePresent(j)
    /\ Handler(c, "start", j, {AdmissionLock, StateLock(j)})

\* POST /jobs/{id}/cancel.  Asked again, it saves the record as it is.
CancelJob(c, j) ==
    /\ Exists(j)
    /\ record[j].status \notin Terminal
    /\ ~record[j].cancel
    /\ Handler(c, "cancel", j, {StateLock(j)})

\* Seeded defect: the source is not looked for.
RetryJobBlindly(c, j) ==
    /\ record[j].status \in {"FAILED", "CANCELLED"}
    /\ Handler(c, "reset", j, {ExecutionLock(j), AdmissionLock, StateLock(j)})

\* POST /jobs/{id}/retry
RetryJob(c, j) ==
    /\ record[j].status \in {"FAILED", "CANCELLED"}
    /\ SourcePresent(j)
    /\ Handler(c, "reset", j, {ExecutionLock(j), AdmissionLock, StateLock(j)})

\* PUT /jobs/{id}/subtitles of a job under review, with action "save" or
\* "render": see Follow.
UpdateSubtitleDraft(c, j) ==
    /\ record[j].status = "AWAITING_REVIEW"
    /\ "draft" \in files[j]
    /\ Handler(c, "edit", j, {ExecutionLock(j), StateLock(j), AdmissionLock})

\* DELETE /jobs/{id}
DeleteJob(c, j) ==
    /\ record[j].status \in Terminal
    /\ Handler(c, "purge", j, {ExecutionLock(j), StateLock(j)})

-------------------------------------------------------------------------------
(***************************************************************************)
(* collect(), run by every tick of a worker (expire = False: it only       *)
(* recovers interrupted runs) and by the expiry batch (expire = True).     *)
(***************************************************************************)
Expires(p) == p \in Collectors

\* Seeded defects: results expire as soon as a batch finds them; an interrupted
\* run is left as it is.
CollectOpEagerly(p, j) ==
    LET s == record[j].status
    IN  CASE s \in Processing             -> "recover"
          [] Expires(p) /\ s \in Terminal -> "wipe"
          [] OTHER                         -> "none"
CollectOpNoRecovery(p, j) ==
    IF Expires(p) /\ record[j].status \in Terminal /\ age[j] > 0 THEN "wipe" ELSE "none"

\* What collect() does to a job it holds both locks of: "none" is `continue`.
CollectOp(p, j) ==
    LET s == record[j].status
    IN  CASE s \in Processing                                              -> "recover"
          [] Expires(p) /\ s \in Terminal /\ age[j] = 2                     -> "purge"
          [] Expires(p) /\ s \in Terminal /\ (age[j] > 0 \/ record[j].expired) -> "wipe"
          [] Expires(p) /\ s \in {"UPLOADING", "AWAITING_REVIEW"} /\ age[j] > 0 -> "wipe"
          [] OTHER                                                         -> "none"

BatchBegin(p) ==
    /\ p \in Collectors
    /\ mode[p] = "idle"
    /\ mode' = [mode EXCEPT ![p] = "collect"]
    /\ todo' = [todo EXCEPT ![p] = {j \in Jobs : Exists(j)}]
    /\ UNCHANGED <<disk, clock, held, section, run>>

\* One job of the pass, listed earlier and read again under its locks.
Collect(p, j) ==
    /\ mode[p] = "collect"
    /\ j \in todo[p]
    /\ p \in Workers => ~stopping[p]
    /\ todo' = [todo EXCEPT ![p] = @ \ {j}]
    /\ IF CollectOp(p, j) # "none"
       THEN Enter(p, CollectOp(p, j), j, {ExecutionLock(j), StateLock(j)})
       ELSE Idle(p) /\ UNCHANGED <<held, section>>
    /\ UNCHANGED <<disk, clock, mode, run>>

\* JobBusyError: the job is left to a later pass.  The lock may also be held by
\* a request that only reads or is refused, which has no action here.
CollectBusy(p, j) ==
    /\ mode[p] = "collect"
    /\ j \in todo[p]
    /\ Idle(p)
    /\ todo' = [todo EXCEPT ![p] = @ \ {j}]
    /\ UNCHANGED <<disk, clock, held, section, mode, run>>

BatchEnd(p) ==
    /\ p \in Collectors
    /\ mode[p] = "collect"
    /\ Idle(p)
    /\ todo[p] = {}
    /\ mode' = [mode EXCEPT ![p] = "idle"]
    /\ UNCHANGED <<disk, clock, held, section, todo, run>>

-------------------------------------------------------------------------------
(***************************************************************************)
(* tick(): collect, list the queue once, process its jobs in that order.   *)
(***************************************************************************)
\* Seeded defect: ticks do not exclude one another.
TickBeginAnyway(w) ==
    /\ mode[w] = "idle"
    /\ ~stopping[w]
    /\ mode' = [mode EXCEPT ![w] = "collect"]
    /\ todo' = [todo EXCEPT ![w] = {j \in Jobs : Exists(j)}]
    /\ UNCHANGED <<disk, clock, held, section, run>>

TickBegin(w) ==
    /\ mode[w] = "idle"
    /\ ~stopping[w]
    /\ AllFree({SerialLock})
    /\ Take(w, {SerialLock})
    /\ mode' = [mode EXCEPT ![w] = "collect"]
    /\ todo' = [todo EXCEPT ![w] = {j \in Jobs : Exists(j)}]
    /\ UNCHANGED <<disk, clock, section, run>>

\* find_by_statuses([QUEUED]) with the queued_at each record has now; the jobs
\* are processed in the order of that listing.
Listing == {[job |-> j, queued |-> record[j].queued] : j \in {i \in Jobs : record[i].status = "QUEUED"}}

ListQueue(w) ==
    /\ mode[w] = "collect"
    /\ Idle(w)
    /\ todo[w] = {} \/ stopping[w]
    /\ mode' = [mode EXCEPT ![w] = "scan"]
    /\ todo' = [todo EXCEPT ![w] = {}]
    /\ queue' = [queue EXCEPT ![w] = Listing]
    /\ UNCHANGED <<disk, clock, held, section, job, at, plan, stopping>>

AtQueue(w, e) ==
    /\ mode[w] = "scan"
    /\ ~stopping[w]
    /\ e \in queue[w]
    /\ \A f \in queue[w] : e.queued <= f.queued

\* process(): both locks, then the job must still be QUEUED.
BeginRun(w, j) ==
    \E e \in queue[w] :
        /\ e.job = j
        /\ AtQueue(w, e)
        /\ record[j].status = "QUEUED"
        /\ Enter(w, "advance", j, {ExecutionLock(j), StateLock(j)})
        /\ mode' = [mode EXCEPT ![w] = "run"]
        /\ queue' = [queue EXCEPT ![w] = @ \ {e}]
        /\ job' = [job EXCEPT ![w] = j]
        /\ at' = [at EXCEPT ![w] = "QUEUED"]
        /\ \E p \in Plans(RequestOf[j], record[j].ready) : plan' = [plan EXCEPT ![w] = p]
        /\ UNCHANGED <<disk, clock, todo, stopping>>

\* Cancelled, deleted or handled since the listing, or busy (see CollectBusy).
SkipJob(w) ==
    \E e \in queue[w] :
        /\ AtQueue(w, e)
        /\ queue' = [queue EXCEPT ![w] = @ \ {e}]
        /\ UNCHANGED <<disk, clock, held, section, mode, todo, job, at, plan, stopping>>

\* Seeded defects: a stopping worker finishes its listing first; the lock of the
\* tick is not released.
TickEndDraining(w) ==
    /\ mode[w] = "scan"
    /\ queue[w] = {}
    /\ held' = Released(w, {})
    /\ mode' = [mode EXCEPT ![w] = "idle"]
    /\ UNCHANGED <<disk, clock, section, todo, run>>
TickEndLeaking(w) ==
    /\ mode[w] = "scan"
    /\ queue[w] = {} \/ stopping[w]
    /\ mode' = [mode EXCEPT ![w] = "idle"]
    /\ queue' = [queue EXCEPT ![w] = {}]
    /\ UNCHANGED <<disk, clock, held, section, todo, job, at, plan, stopping>>

TickEnd(w) ==
    /\ mode[w] = "scan"
    /\ queue[w] = {} \/ stopping[w]
    /\ held' = Released(w, {})
    /\ mode' = [mode EXCEPT ![w] = "idle"]
    /\ queue' = [queue EXCEPT ![w] = {}]
    /\ UNCHANGED <<disk, clock, section, todo, job, at, plan, stopping>>

-------------------------------------------------------------------------------
(***************************************************************************)
(* One run.                                                                *)
(***************************************************************************)
Running(w) == mode[w] = "run" /\ plan[w] # << >> /\ at[w] # "QUEUED"

\* The files the next stage needs: the source or snapshot, the draft of a
\* reviewed run, and for an extraction, which unlike the other templates does not
\* create it, the directory of the results.
InputsPresent(w) ==
    LET j == job[w]
    IN  /\ OwnsInput(j) => "input" \in files[j]
        /\ record[j].ready => "draft" \in files[j]
        /\ RequestOf[j].template = "extract_audio" /\ Head(plan[w]) = "COMPLETED" => "folder" \in files[j]

\* Seeded defect: the flag is not looked at.
AdvanceRegardless(w) ==
    /\ Running(w)
    /\ ~stopping[w]
    /\ InputsPresent(w)
    /\ Enter(w, "advance", job[w], {StateLock(job[w])})
    /\ UNCHANGED <<disk, clock, mode, todo, run>>

\* transition(): waits for the state lock and checks for cancellation and
\* shutdown before it and under it.
Advance(w) ==
    /\ Running(w)
    /\ ~stopping[w]
    /\ ~record[job[w]].cancel
    /\ InputsPresent(w)
    /\ Enter(w, "advance", job[w], {StateLock(job[w])})
    /\ UNCHANGED <<disk, clock, mode, todo, run>>

\* Seeded defect: a heartbeat without the state lock.
BeatUnlocked(w) ==
    /\ Running(w)
    /\ Enter(w, "beat", job[w], {})
    /\ UNCHANGED <<disk, clock, mode, todo, run>>

\* Heartbeat, progress, model settings and reservation: saves of a record read
\* under the state lock that leave what is modelled here as it was.
Beat(w) ==
    /\ Running(w)
    /\ Enter(w, "beat", job[w], {StateLock(job[w])})
    /\ UNCHANGED <<disk, clock, mode, todo, run>>

\* Any exception of the run: cancellation or shutdown noticed by check(), a
\* failing stage, a failing save, a lock that was not to be had in 30 seconds.
Raise(w) ==
    /\ Running(w)
    /\ Leave(w)
    /\ mode' = [mode EXCEPT ![w] = "handler"]
    /\ UNCHANGED <<disk, clock, todo, run>>

\* except (Exception, KeyboardInterrupt): write the outcome, without check().
Handle(w) ==
    /\ mode[w] = "handler"
    /\ plan[w] # << >>
    /\ Enter(w, "fail", job[w], {StateLock(job[w])})
    /\ UNCHANGED <<disk, clock, mode, todo, run>>

\* process() returns and the execution lock is released.
EndRun(w) ==
    /\ mode[w] \in {"run", "handler"}
    /\ Idle(w)
    /\ plan[w] = << >>
    /\ held' = Released(w, {SerialLock})
    /\ mode' = [mode EXCEPT ![w] = "scan"]
    /\ job' = [job EXCEPT ![w] = NoJob]
    /\ at' = [at EXCEPT ![w] = "none"]
    /\ UNCHANGED <<disk, clock, section, todo, queue, plan, stopping>>

Reset(w) ==
    /\ held' = Released(w, {})
    /\ section' = [section EXCEPT ![w] = Outside]
    /\ mode' = [mode EXCEPT ![w] = "idle"]
    /\ todo' = [todo EXCEPT ![w] = {}]
    /\ queue' = [queue EXCEPT ![w] = {}]
    /\ job' = [job EXCEPT ![w] = NoJob]
    /\ at' = [at EXCEPT ![w] = "none"]
    /\ plan' = [plan EXCEPT ![w] = << >>]

\* An exception that leaves tick(): writing the first status failed, or the
\* handler could not get the state lock or write.  run() logs it and polls on;
\* the job keeps the status it has on disk.
TickFails(w) ==
    /\ mode[w] = "handler" \/ at[w] = "QUEUED"
    /\ plan[w] # << >>
    /\ faults < MaxFaults
    /\ faults' = faults + 1
    /\ Reset(w)
    /\ UNCHANGED <<disk, age, purged, enqueued, stopping>>

\* SIGTERM or SIGINT sets the stop event.
Stop(w) ==
    /\ ~stopping[w]
    /\ faults < MaxFaults
    /\ faults' = faults + 1
    /\ stopping' = [stopping EXCEPT ![w] = TRUE]
    /\ UNCHANGED <<disk, held, age, purged, enqueued, section, mode, todo, queue, job, at, plan>>

\* The stopped process exits and a new one is started.
Restart(w) ==
    /\ mode[w] = "idle"
    /\ stopping[w]
    /\ stopping' = [stopping EXCEPT ![w] = FALSE]
    /\ UNCHANGED <<disk, clock, held, section, mode, todo, queue, job, at, plan>>

\* The process is killed anywhere and started again.
Crash(w) ==
    /\ mode[w] # "idle"
    /\ faults < MaxFaults
    /\ faults' = faults + 1
    /\ Reset(w)
    /\ stopping' = [stopping EXCEPT ![w] = FALSE]
    /\ UNCHANGED <<disk, age, purged, enqueued>>

\* A retention period passes.  Running and queued jobs have none.
Age(j) ==
    /\ record[j].status \in Terminal \cup {"UPLOADING", "AWAITING_REVIEW"}
    /\ age[j] < (IF record[j].status \in Terminal THEN 2 ELSE 1)
    /\ age' = [age EXCEPT ![j] = @ + 1]
    /\ UNCHANGED <<disk, purged, enqueued, faults, held, section, mode, todo, run>>

-------------------------------------------------------------------------------
Init ==
    /\ record = [j \in Jobs |-> Unborn]
    /\ files = [j \in Jobs |-> {}]
    /\ held = [l \in LockNames |-> Nobody]
    /\ age = [j \in Jobs |-> 0]
    /\ purged = [j \in Jobs |-> FALSE]
    /\ enqueued = 0
    /\ faults = 0
    /\ section = [p \in Procs |-> Outside]
    /\ mode = [p \in Procs |-> "idle"]
    /\ todo = [p \in Procs |-> {}]
    /\ queue = [w \in Workers |-> {}]
    /\ job = [w \in Workers |-> NoJob]
    /\ at = [w \in Workers |-> "none"]
    /\ plan = [w \in Workers |-> << >>]
    /\ stopping = [w \in Workers |-> FALSE]

ClientStep(c) ==
    \E j \in Jobs :
        \/ CreateUpload(c, j)
        \/ CreateWorkflow(c, j)
        \/ UploadChunk(c, j)
        \/ CompleteUpload(c, j)
        \/ StartJob(c, j)
        \/ CancelJob(c, j)
        \/ RetryJob(c, j)
        \/ UpdateSubtitleDraft(c, j)
        \/ DeleteJob(c, j)

CollectStep(p) == \E j \in Jobs : Collect(p, j) \/ CollectBusy(p, j)

WorkerStep(w) ==
    \/ TickBegin(w)
    \/ ListQueue(w)
    \/ \E j \in Jobs : BeginRun(w, j)
    \/ SkipJob(w)
    \/ TickEnd(w)
    \/ Advance(w)
    \/ Beat(w)
    \/ Raise(w)
    \/ Handle(w)
    \/ EndRun(w)

SectionStep(p) == Save(p) \/ RemoveFiles(p)

Next ==
    \/ \E c \in Clients : ClientStep(c)
    \/ \E p \in Collectors : BatchBegin(p) \/ BatchEnd(p)
    \/ \E p \in Workers \cup Collectors : CollectStep(p)
    \/ \E w \in Workers : WorkerStep(w)
    \/ \E w \in Workers : TickFails(w) \/ Stop(w) \/ Restart(w) \/ Crash(w)
    \/ \E p \in Procs : SectionStep(p) \/ Abandon(p)
    \/ \E j \in Jobs : Age(j)

Spec == Init /\ [][Next]_vars

-------------------------------------------------------------------------------
(***************************************************************************)
(* Fairness.  A process takes its next step when it can (WF).  A step that *)
(* needs a lock other processes take and release again and again is taken  *)
(* by the next poll or tick that finds it free (SF); a run is not kept     *)
(* from its next stage by its own heartbeats (SF).  Requests and batches   *)
(* that were begun end; none has to be begun.                              *)
(***************************************************************************)
Ends(p) == Save(p) \/ RemoveFiles(p) \/ Abandon(p)
Works(w) == WorkerStep(w) \/ CollectStep(w) \/ SectionStep(w) \/ Restart(w)

Fairness ==
    /\ \A c \in Clients : WF_vars(Ends(c))
    /\ \A p \in Collectors : WF_vars(CollectStep(p) \/ BatchEnd(p) \/ Ends(p))
    /\ \A w \in Workers :
          /\ WF_vars(Works(w))
          /\ SF_vars(Advance(w) \/ Raise(w))
          /\ SF_vars(Handle(w))
          /\ \A j \in Jobs : SF_vars(Collect(w, j)) /\ SF_vars(BeginRun(w, j))

FairSpec == Spec /\ Fairness

-------------------------------------------------------------------------------
(***************************************************************************)
(* Properties.                                                             *)
(***************************************************************************)
\* Every variable has its type.
TypeOK ==
    /\ record \in [Jobs -> Record]
    /\ files \in [Jobs -> SUBSET {"input", "draft", "folder", "output"}]
    /\ held \in [LockNames -> Procs \cup {Nobody}]
    /\ age \in [Jobs -> 0..2]
    /\ purged \in [Jobs -> BOOLEAN]
    /\ enqueued \in Nat
    /\ faults \in Nat
    /\ section \in [Procs -> Section \cup {Outside}]
    /\ mode \in [Procs -> {"idle", "collect", "scan", "run", "handler"}]
    /\ todo \in [Procs -> SUBSET Jobs]
    /\ queue \in [Workers -> SUBSET [job : Jobs, queued : Nat]]
    /\ job \in [Workers -> Jobs \cup {NoJob}]
    /\ at \in [Workers -> Status \cup {"none"}]
    /\ plan \in [Workers -> Seq(Status)]
    /\ stopping \in [Workers -> BOOLEAN]

\* No read-modify-write of job.json is ever based on a reading that another
\* process has overwritten since: what a section read is still what is on disk
\* when it writes.  (A lost cancel_requested would be such a write.)
FreshReading == \A p \in Procs : Idle(p) \/ section[p].rec = record[section[p].job]

\* While a run has statuses left to write, the job is in the status the run
\* wrote last: no request, no batch and no other worker moves a job under a
\* live run, whatever was cancelled, retried, deleted or recovered around it.
RunOwnsRecord ==
    \A w \in Workers :
        mode[w] \in {"run", "handler"} /\ plan[w] # << >> => record[job[w]].status = at[w]

\* The jobs of an installation run one after another, however many workers poll
\* its storage root: the lock "f" * 32 is kept over the whole tick.
OneRun == \A v, w \in Workers : job[v] # NoJob /\ job[w] # NoJob => v = w

\* A job waiting for or taking its first transcription still has the source
\* that start and retry looked for before they queued it: no batch or deletion
\* takes the file away in between.
RunnableHasSource ==
    \A j \in Jobs :
        record[j].status \in {"QUEUED"} \cup Processing /\ ~record[j].ready => SourcePresent(j)

\* The results of a completed job stay downloadable for RESULT_TTL_HOURS unless
\* the user deletes the job.
Downloadable(j) ==
    record[j].status = "COMPLETED" /\ age[j] = 0 /\ ~purged[j] => "output" \in files[j] /\ ~record[j].expired

\* It holds of jobs that own input files: expiry takes the input with the
\* results, so such a job cannot complete after it.
ResultsKept == \A j \in Jobs : OwnsInput(j) => Downloadable(j)

\* docs/history-verification.md promises it of every job.
ResultGuarantee == \A j \in Jobs : Downloadable(j)

\* "Queue order uses persisted queued_at": a worker that begins a run passes over
\* no job of the same listing that has been waiting longer.
OldestFirst ==
    [][\A w \in Workers, j \in Jobs :
          BeginRun(w, j) => \A e \in queue[w] :
              record[e.job].status = "QUEUED" => record[j].queued <= record[e.job].queued]_vars

\* The records a user sees behave as JobContract promises.
Contract == INSTANCE JobContract WITH
                status <- [j \in Jobs |-> record[j].status],
                cancel <- [j \in Jobs |-> record[j].cancel]
ContractSpec == Contract!Spec

\* A queued job does not stay queued: some worker runs it, or it is withdrawn.
QueuedServed == \A j \in Jobs : record[j].status = "QUEUED" ~> record[j].status # "QUEUED"

\* A requested cancellation is answered by the end of the run, also when the
\* worker that would have noticed it is stopped or killed.
CancelHeeded ==
    \A j \in Jobs : record[j].cancel ~> record[j].status \in {"FAILED", "CANCELLED", "DELETED"}

\* A worker told to stop leaves whatever it does and exits.
StopHeeded == \A w \in Workers : stopping[w] ~> ~stopping[w]
===============================================================================
