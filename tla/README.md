# Verification of the video subtitle service

TLA+ models of the service in this repository, their model checking with TLC,
and theorems about them proved with TLAPS. The models follow the source (Python,
and TypeScript for what the browser does); `PROJECT.json` names, for every
definition, the lines it stands for.

The service takes uploaded videos through speech recognition, translation,
an optional human review and encoding. It runs as an HTTP API, one or more media
workers, an optional batch that expires files, and a browser client. The server
processes share a directory and nothing else: one `job.json` per job, replaced
atomically, and lock files. Everything hard about it follows from that.

## 1. Inventory

| Component | State | Operations | Talks to | Modelled in |
|---|---|---|---|---|
| Job records (`repository.py`, `storage.py`, `models.py`) | `<id>/job.json`, `input/`, `work/`, `output/` | create, read, save, update_status, heartbeat, delete_job_dir | everyone, by files | `JobLifecycle` |
| Job requests (`routes.py`, `workflow_routes.py`) | none of their own | create, chunk, complete, start, cancel, retry, edit, render, delete, download | records under locks | `JobLifecycle` |
| Media worker (`worker.py`, `shutdown.py`) | stop event, the job it runs | tick, collect, process, transition, exception handler | records, tools, providers | `JobLifecycle`, `JobStatuses` |
| Expiry batch (`worker.py --collect-only`) | none | collect with expire | records | `JobLifecycle` |
| Locks (`locking.py`, `result_response.py`) | lock and lease files | job_lock, wait_for_job_lock, download_lock | released by the OS when a process ends | `DownloadLeases` |
| Segment queue (`transcription_queue.py`) | locals of a run, a receipt file | resume, admit, inspect, publish, drain, cancel | providers, job record | `SegmentQueue` |
| Provider transports (`providers.py`, `translation_transport.py`) | chosen model, traces | one request with a deadline, retries, change of model | external services | `ModelRequests` |
| Media tools (`process.py`, `media.py`, `nvidia_vad.py`) | a process, its outputs, two threads | run, watch, kill | external programs | `ProcessRun`, `AudioCut` |
| Upload session (`upload_service.py`, `api.ts`) | partial source file, `uploaded_bytes`; per tab the offset | verify, chunk, complete, retry, pause | records | `UploadTransfer` |
| Browser upload queue (`upload-queue.ts`) | items, the active transfer | add, pause, resume, remove, suspend, dispose | upload session | `UploadQueue`, `UploadPage` |
| Asset registry (`assets.py`, `asset_routes.py`, `migration.py`) | `.assets/<id>/`, links in records | register, promote, delete, discard, create a workflow | uploads, jobs | `AssetRegistry` |
| Orphan collection (`cleanup.py`, `worker.py --collect-only`) | ages of directories | visit and remove directories without a record | jobs | `OrphanCollection` |
| Capacity (`capacity.py`, `storage_guard.py`, `worker_storage.py`) | `reserved_bytes` of the records | admit creations, retries, copies and saves; reserve, register | all writers | `Capacity` |
| Review and revisions (`review.py`, `final_subtitles.py`) | draft with a revision, revision directories | read, write, approve, publish, import | records, editor windows | `SubtitleRevisions` |
| Checkpoints, transcript reuse (`checkpoints.py`, `completed_transcript.py`) | receipts and results under `work/` | run or resume a stage | worker | `StageResults` |
| Timeline and subtitle algorithms | none | cuts, timeline, projection, grouping, layout | worker | `AudioCut`, `TranscriptTracks`, `SubtitleLayout` |
| Model settings (`llm_settings.py`) | a file per owner, `master.key` | load, merge, compare, save | API, worker | `ModelSettings` |
| Accounts and sessions (`auth.py`, `auth-session.ts`, `AuthGate.tsx`) | SQLite; cookie; per window user and token | login, logout, lookup, expiry, reset | API, windows | `Sessions` |
| Operator scripts | none | experiments, migrations by hand | | not modelled |

What is hard in them, and what must hold:

- **Jobs.** A request, a worker and a batch may be at work on one job between any
  two of each other's steps, and each is a read-modify-write of one file. No write
  may be based on an outdated reading; nothing may move a job under a live run; a
  requested cancellation must survive everybody's saves. Processes are killed,
  stopped, or fail to write between any two steps; an interrupted run must be taken
  over, exactly once. Retention removes files, in between retries and reviews.
- **Locks.** A lock knows one holder, downloads are many; leases of dead downloads
  must not block a job for ever and must not be removed while they are needed.
- **Segment queue, provider calls.** Answers arrive in any order, good ones together
  with fatal ones, each paid for. What was received must survive a failure beside
  it, a failed write after it and the death of the process, and must not be asked
  for again; three layers of retries must stay within one budget.
- **Tools.** A tool hangs, fills its pipe, ignores signals or leaves its outputs to a
  process of its own; none may be left running and no cut log may pass for whole.
- **Uploads.** A chunk is accepted by its offset alone; two tabs, late requests and
  aborted transfers must not mix two files; the page's queue must go on.
- **Assets.** A registration and a deletion write several files; an interruption must
  leave something that can be completed or repeated, and no dangling reference.
- **Capacity.** An admission measures while others write.
- **Revisions, settings.** Two windows save over each other.
- **Sessions.** Windows share a cookie but not the user they show.
- **Resumed stages.** Results of attempts that ended anywhere, with other models, are
  combined.
- **Algorithms.** Touching, nested and empty intervals, clocks with gaps, rounding.

`PROJECT.json` lists the hazards with their lines and the properties that cover
them.

## 2. The modules

| Module | What it is | Proofs |
|---|---|---|
| `JobStatuses`, `JobLifecycle`, `JobInvariant` | a job between API, workers and expiry batch; the inductive invariants | `JobLifecycleProofs` |
| `JobContract` | abstract: what a client may rely on; refined by `JobLifecycle` | `JobLifecycleProofs` |
| `ReaderLock`, `DownloadLeases` | abstract: a shared lock; how leases implement it | `DownloadLeasesProofs` |
| `SegmentReceipts`, `SegmentQueue` | abstract: paid results; the scheduler that implements it | `SegmentQueueProofs` |
| `ProcessRun` | how a tool is run and watched | `SegmentQueueProofs` |
| `ModelRequests` | a paid call, its retries and its change of model | `RecordsProofs` |
| `AssetRegistry`, `ModelSettings`, `Capacity` | videos and references; settings and their key; admission | `RecordsProofs` |
| `OrphanCollection` | batches over what `AssetRegistry` leaves without a record | |
| `UploadTransfer`, `Sessions` | transfers of tabs to one session; accounts and windows | `UploadProofs` |
| `UploadQueue`, `UploadPage` | abstract: the queue, in which every transfer ends; the page composed of queue and transfers | `UploadPageProofs` |
| `SubtitleRevisions`, `StageResults` | review and its revisions; what attempts leave for one another | `SubtitlesProofs` |
| `AudioCut`, `SubtitleLayout`, `Timing` | what is cut out of the audio; how subtitles are laid out; rounding and sorting | `TimingProofs` |
| `TranscriptTracks` | the transcript and its translation, from windows and batches | `SubtitlesProofs` |
| `MC*` | instances for TLC | |

## 3. How the modules correspond to the code

### Jobs: `JobLifecycle`

**State.** `record[j]` has what control depends on in `job.json`: the status, the
metadata `cancel_requested`, `review_ready`, `results_expired_at`, whether
`completed_at` is set, and `queued_at`. `files[j]` says which of its files are
there. `held` is the holder of every lock file. `age` is how far retention has come.
Per process: the `section` it is in, where its control is (`mode`), and for a worker
the listing of its tick, its job, the status it wrote last (`at`) and those it has
still to write (`plan`).

**Sections.** Whatever a process does to a record is a section: the entering step
takes all locks of the `with` statement and reads the record; the leaving step
(`Save`) writes what was computed from that reading. Steps of others fall in
between, so a lost update would be visible: this is what `FreshReading` is about.
Taking several locks in one step is sound because each gives up at once when a lock
is taken, and a request that gives up halfway has written nothing.

**Actions.** One per route that writes (`CreateUpload`, `CreateWorkflow`,
`UploadChunk`, `CompleteUpload`, `StartJob`, `CancelJob`, `RetryJob`,
`UpdateSubtitleDraft`, `DeleteJob`), one per step of a worker (`TickBegin`,
`Collect`, `ListQueue`, `BeginRun`, `SkipJob`, `Advance`, `Beat`, `Raise`, `Handle`,
`EndRun`, `TickEnd`), `Stop`, `Restart`, `Crash`, `TickFails`, and `Abandon` for a
request or batch that fails or dies in a section. `retry_job` saves twice and
rendering a draft edits first and queues then (`Follow`). `RemoveFiles` is the
removal that comes before a record is written, so that a crash can fall between the
two. Requests that are refused or only read write nothing and have no action.
`JobStatuses.Plans` gives the sequences of statuses `process` writes, from the
template, the inputs, the review option and `review_ready`.

**Contract.** `JobContract` says what a client that polls `GET /jobs/{id}` sees:
which status follows which; a run only moves forward, and no further once a
cancellation is requested; only a requested cancellation makes a run end
`CANCELLED`. That a referenced video stays where it is (`SourcePresent`) is
`AssetRegistry`'s subject.

### Locks: `DownloadLeases`, `ReaderLock`

A download takes the raw execution lock for a moment and registers a lease file of
its own; whoever wants the job alone takes the raw lock and tries every lease file
it finds. `ReaderLock` is the abstraction: readers share, an owner is alone. The
model is the POSIX branch.

### Segment queue: `SegmentQueue`, `SegmentReceipts`

Loop and requests are tasks of one event loop and interleave only at awaits, so an
action is what happens between two awaits: `Begin` (the receipt is read), `Publish`
(receipt and progress are written), `Admit` and `Await` after `check()`, `Inspect`
(all requests that are answered by then), `Finish`, and the unwinding of `finally`.
`Reply` gives a request one of five outcomes. Time is the remaining delay of retries
and of the cooldown. `SegmentReceipts` is the abstraction: asked, kept, forgotten.

### Provider calls: `ModelRequests`

One call of a segment through either transport: `Attempt` (which model, from
`_fallback_active` and the policies), the request on its way, `Reply` by what the
network makes of it, the deadline, the hook that captures the SDK's response, the
verdict the code goes by, the trace, the SDK's own tries and the change to the
second model; `Cancel` is the queue being left. A record that cannot be written ends its
call as `full`, when the service's limit refuses the space, or `broken`, when the disk
does (`OpenFails`, `CloseFails`): the first is a `ValueError` and leads to the second model
as any other, the second is an `OSError` and does not. A write that has begun is waited
for, so that its failure takes the place of a cancellation (`deaf`). What a status code means is a member
of `Http`, one for each way the code treats it.

### Tools: `ProcessRun`

`run_process` with a thread for each output (`Read`, `Spoil` for a failed write,
`EndOfStream`) and the caller (`Poll`, `Cancel`, `TimeOut`, `Join`, `Verdict`,
`Finally`, `Kill`, `Close`); the tool writes, ends, breaks, hangs, and may leave a
process that holds its outputs. Output is counted in chunks, a pipe holds `Pipe`.

### Uploads: `UploadTransfer`, `UploadQueue`, `UploadPage`

`UploadTransfer` is `resumeUpload` of any number of tabs against one session. A
request that writes stays on its way (`net`) until it is handled, also when its tab
has given it up; `serving` is the one that holds the state lock, whose chunk reaches
the file by `Flush`, ends by `EndChunk` or `FailChunk` (with the truncation), or dies
by `Crash`. `UploadQueue` is `upload-queue.ts`: every event is one step with the
synchronous part of `pump`, and only the transfer is awaited (`Settle`). `UploadPage`
composes the two: the queue's start and abort are the transfer's `Start` and `Pause`,
and `Settle` is possible only when the transfer is over.

### Videos: `AssetRegistry`

`asset[a]` and `disk[x]` are what the directories hold, `link` is `asset_id`. An
operation under the admission lock is a sequence of steps, one for each file it
writes (`op.at`); `Crash` and `Fail` end it anywhere. Deletion of jobs does not
hold that lock and interleaves. `OrphanCollection` adds the batch: it lists the directories
(`BeginBatch`) and visits each (`Visit`); `age[j]` tells whether the grace period had
passed when it began. Only `--collect-only` collects orphans (`worker.py:396`); the resident
worker never does.

### Storage: `Capacity`

An admission reads, directory by directory, what is left of reservations
(`Remaining`) and what is in use (`Count`), in the order of its caller: `assert_capacity`
and the worker are given reservations that were read before, `StorageGuard` reads them
last. There is an action for every admission: `Create` (a legacy job, a video, a workflow
with its copies), `Start`, `RetryJob`, `Expand`, `Register`, `CopyFile` and `Attach` (videos and
subtitles that are copied), and `SaveSubtitles`, for which only what is in use is asked
(`routes.py:274`, `297`) and which writes into completed jobs too. `Grow`, `Shrink`, `End`
and `Expire` go on meanwhile. What is written or removed during a measurement is
counted in `written` and `freed`, what an interrupted registration leaves in `torn`, and
what is written without a reservation, by saves, thumbnails or a job that has outgrown
its own, in `unreserved`.

### Settings: `ModelSettings`

A save is merged with a reading made before the lock is taken (`Validate`), compares
the revision under the lock (`Enter`), may have to make the key (`MakeKey`) and
replaces the file (`Write`). A model is known by the provider that accepts its name,
a credential by the key that encrypts it; `LoseKey` loses the key file.

### Accounts: `Sessions`

Rows of the database, the browser's one cookie, and per window what it has been told.
Login is two steps, `VerifyPassword` and the transaction `Commit`; requests are sent
with the cookie of the moment, served and answered later; `Lose` loses one.

### Review: `SubtitleRevisions`

The draft with its revision, the revision directories of a finished job, the
published one, and per window the copy it has loaded. A save names the revision it
was based on; `BeginSave` compares it under the lock, `WriteDraft` and `Approve`, or
`WriteFiles` and `Publish`, are the files written one by one, `Fail` ends a save in
between. `BeginRun`, `Prepare`, `AwaitReview`, `Encode`, `Halt` and `Retry` are what the
job does around it.

### Results of earlier attempts: `StageResults`

Checkpoints are `[result, stamps of the files]` under the models and the name of a
stage; a file is what it holds and the attempt that wrote it, which is all that size
and modification time tell. An attempt goes through `Extract`, `Detect`, `Preprocess`,
`Hear` for each window, `Transcribed`, `Restore`, `Complete`, `Ask` and `Translated`, each
of which reuses what it finds or does the work; `LoadCompleted` is the short cut over
the completed transcript; `End` ends the attempt anywhere, also between two files.

### Algorithms: `AudioCut`, `TranscriptTracks`, `SubtitleLayout`, `Timing`

Each is a few steps over inputs that are enumerated: what detectors report, what a
model hears and how it answers, what a transcript contains. `AudioCut` computes the
kept intervals and the timeline; `TranscriptTracks` projects sentences to the clock of
the video, groups equal neighbours, batches and merges; `SubtitleLayout` is the sweep
over overlapping utterances, the pages, rounding to milliseconds and the second
layout when a draft is saved. The worker and the draft choose the width of lines by two
rules (`LaidNarrowly`, `DraftedNarrowly`), so that a line carries the pieces it is broken
into at the draft's width (`breaks`, `Wrapped`); subtitles that a user has uploaded come to
the draft without a first layout (`Select`), and a transcript may be silence. `Timing` has what they share: rounding, `sorted`, and the
stable sort by start. The reference definitions are the properties: sets of units of
audio that may be cut, that are shown, that were said there.

A loop of the code is a function of the number of its rounds, and its body an operator
of its own: `LeaveOut` of `kept_intervals`, `Join` of `protect_intervals`, `CutFrom` of
`subtract_intervals`, `Onto` of `project_segment_to_original`, `Share` of
`translation_groups`, `Turn` of the pages. The sweep of `segment_subtitles` is stated as
what it yields: a subtitle for each slot between neighbouring points in which somebody
speaks. `sorted` puts every element at its rank.

## 4. Runs

Components that share no state are checked in one run: a variable `part`, chosen in
the beginning, says which of them moves, and the others keep their initial state. The
reachable states of such a run are the union, not the product. The invariants that
carry a name in `...Inv` or `...Sound` are conjunctions of named parts; the parts are
documented one by one in their modules.

| Run | Instance | Properties |
|---|---|---|
| `JobUpload` | one reviewed job on an own upload, 2 workers, 2 API threads, 1 batch, 3 enqueuings, 2 faults | `JobInv` (with `TypeOK`, `FreshReading`, `RunOwnsRecord`), `RunnableHasSource`, `ResultsKept`, `ContractSpec` |
| `JobPair` | 2 jobs, 2 workers, 2 API threads, 3 enqueuings, 1 fault | `OneRun` |
| `JobService` | a translation with a snapshot, 2 workers, 1 fault, fairness | `CancelHeeded`, `StopHeeded`, `QueuedServed` |
| `JobRetention` | a transcription, 1 worker, 1 batch | violates `ResultGuarantee` |
| `JobOrder` | 2 jobs, 1 worker | violates `OldestFirst` |
| `Segments` | 3 segments, 2 slots, 2 attempts, 2 runs, 2 faults; one call with 3 tries; one tool with 2 outputs of up to 3 chunks; fairness | `QueueSound`, `StopAndDrain`, `ReceiptsSpec`, `RunEnds`; `RequestsEnd`; `LogWhole`, `RunReturns` |
| `Downloads` | 3 downloads, 2 executors, 3 crashes; a user with 2 windows; an upload and a workflow job, 2 crashes, batches; fairness | `LockSpec`, `Served`; `Dismissed`; `JobOrphansGo` |
| `Upload` | 2 tabs, 2 files of 3 units, 3 transfers, 1 crash; 2 users, 2 windows, 2 logins, a reset | `UploadInv`, `FinishedByOwner`; `SessionsSound`, `WorkAsShown`, `LateRefusal`, `EndedForCause` |
| `Queue` | 2 files of 2 chunks, 4 events, 1 crash, fairness | `QueueInv`, `PageInv`, `QueueSpec` |
| `Records` | 3 holders of videos, 1 crash; 2 tenants, videos of 1 unit, quota 4, drift 1; 2 owners, 2 forms, 2 keys; 2 segments, 2 attempts, a change of model after errors or after refusals, 1 fault | `RegistryInv`; `SpaceSound`; `SettingsSound`, `NothingLost`; `RequestSound`, `NotAskedAgain` |
| `Subtitles` | 2 windows, 5 contents, 3 runs; 2 models each, 2 cuts, 3 attempts; 7 units of audio with 3 findings; 3 sentences in 2 windows; 2 utterances of up to 4 lines in 9 half milliseconds and uploaded subtitles, for `ko` and `ko-KR` | `ReviewSound`, `SavesBuildOn`; `ResultsSound`; `CutSound`; `TracksSound`; `LayoutSound` |
| `RevisionsReused` | 2 windows, 3 runs | violates `NothingOverwritten` |

**Bounds.** `MaxEnqueued` bounds the steps that queue a job; three allow run, review
and one more run. `MaxFaults` and `MaxCrashes` bound crashes, stops and failed writes;
two allow a fault in the recovery from a fault, one (`Records`, `Upload`, `Queue`) a
recovery. Two workers and two API threads give
every pair of processes that can meet in a section; all exclusion is pairwise. Three
downloads allow one that lives, one that dies and one that registers meanwhile. Two
slots for three segments leave one untried while others are in flight. In `Upload`
three transfers allow one that is paused and two that follow it; files agree in the
first unit, which is less than the first chunk, so that a broken chunk may agree with
both. In `Queue` four events allow to pause and resume an item, hide and show the page,
or leave it, while its transfer is aborting. A quota of four holds exactly two uploads with
their reservations of two each; the margin, 4096 bytes in the
code, is nothing beside a video there (the theorems hold for any); a drift of one lets
each inequality be met with and without it. With one kept
session the second login removes the first; three attempts allow the third to find what two
others, with different models, have left. Seven units have room for a
silence worth cutting between two margins, beside a noise. The bounds are those of the
runs; the theorems of section 7 hold for all values.

`CHECK_DEADLOCK FALSE` is given where the bounds let a behaviour end: after the last
event, attempt, run or crash nothing is left to do. The job runs check deadlock.
Symmetry is used in runs that check safety only.

**Seeded defects.** Some operators beside an action of almost the same name are used
by no specification (`KillNever`, `CommitUnchecked`, `Seeded defect` in a comment): the
action with a guard dropped, a step left out or an order swapped. `PROJECT.json` pairs
every property with one; in its place the run finds the property violated.

## 5. Fairness

- *Jobs.* A worker is a loop that takes its next step when it can (WF). Steps that
  need a lock that others take and release again and again are strongly fair: the
  worker tries again on every tick or every 50 ms in `wait_for_job_lock`, and sections
  of requests last milliseconds. A request or batch that has begun ends. Nobody has
  to begin a request, and crashes, stops and failures are never required. `Restart`
  is fair as `docker-compose.yml` restarts the worker unless it is stopped by hand.
- *Leases.* Downloads and executors go on; an executor that retries is strongly fair.
- *Segment queue, calls.* The event loop runs, time passes, and every request is
  answered or cut off: the transports give up after their deadline
  (`providers.py:209`, `translation_transport.py:131`).
- *Tools.* The operating system runs the two threads and the caller, and the caller's
  deadline comes (`TimeOut`). Nothing is asked of the tool.
- *Uploads.* A tab goes on, whatever the API does, because its requests time out
  (`abortable.ts`): `WF(Go)` and `WF(GoOn)` of `UploadPage`. The fairness of the abstract
  `UploadQueue`, that transfers end, is not assumed but shown (`QueueSpec`).
- *Sessions.* The workspace polls while it is shown, and is answered.
- *Registry.* An operation that has begun goes on, a directory that is left alone ages,
  and a batch that runs visits what it has listed and ends. That batches are started is
  not assumed but the premise of `JobOrphansGo`: nothing in the code schedules them, it is
  the operator who does (`docs/running.md:53-55`). A creation takes less time than the
  grace period, and a request for a job without a record gives up its locks at once.

## 6. Where code and documents differ

**Findings** (runs that end in a violation, described in `PROJECT.json`):
`JobRetention`: `retry_job` keeps `results_expired_at`, so a workflow job that expired,
was retried and completed within its retention period is answered 410 and cleaned up
by the next batch. `ResultsKept` is the part that does hold: jobs that own their input
cannot get there, because expiry takes the input too. `JobOrder`: the queue is listed
once per tick, so a job that is cancelled and retried meanwhile keeps its old place.
`RevisionsReused`: every review draft is written with revision 1, so that a window
open since before a cancelled and retried review saves over the new draft.
`SavesBuildOn` is the part that holds.

**Divergences.** The following definitions state a sentence of the documents that the
models, and the code they translate, do not keep. No run checks them; each has a
counterexample on the instance that the run of its component uses, for
`LegacyReferences` with a second crash, for `PartialContiguous` with batches of one, and
for `OrphansGo` under the fairness of `Downloads`.

- `UploadTransfer!DoneIsMine`: `docs/development-status.md:61` says that content that
  differs stops the upload. `resumeUpload` (`api.ts:104`) returns for a session that is
  not resumable before anything is compared, so a second tab with another file of the
  same name and size ends as done. `FinishedByOwner` holds: who finishes a session has
  compared or written all of it.
- `OrphanCollection!OrphansGo`: `docs/e2e-requirements.md:230`. `collect_orphans` visits the
  job repository alone (`worker.py:397`); what an abnormal end leaves of upload sessions
  or videos stays. `JobOrphansGo` holds.
- `AssetRegistry!LegacyReferences`: `docs/mvp2-plan.md:20`. `_publish_copy` takes a directory
  with a manifest for the finished copy (`assets.py:68`); after an interrupted
  registration and an interrupted deletion a legacy job that is registered again
  refers to a video without a source. `References` holds for workflow jobs.
- `Capacity!NotOversubscribed`: `docs/upload-capacity.md:5`. `StorageGuard`
  (`storage_guard.py:28`) adds up what is in use before it reads the reservations; what
  is written in between is counted in neither. `CommittedFits` bounds the difference, and
  that of saves, which ask for no reservation to be left.
- `ModelRequests!StorageSpared`: `docs/llm-settings.md:17` says that authentication and
  storage failures do not lead to the second model, and a test is named so
  (`tests/test_model_fallback.py:50`), though it raises only the error of a rejected
  credential. A record of a call that the storage limit refuses is a `StorageLimitError`
  (`llm_trace.py:46`), which is a `ValueError` (`capacity.py:6`), and `_request` changes to the
  second model on any of these when `fallback_on_error` is set (`providers.py:118`); a
  rejected credential is masked in the same way when the record of its answer is
  refused. `NotAskedAgain` is what holds: the model whose record was refused is not asked
  again.
- `ModelRequests!AnswersKept`: `docs/development-preservation.md:21`. The plain transport
  (`translation_transport.py:138`) takes the response after `check()` and within the
  deadline; when either strikes in the round in which it arrived, the trace is that of
  a call without an answer. `SdkAnswersKept` holds.
- `TranscriptTracks!PartialContiguous`: `docs/parallel-translation.md:13`. Placeholders of
  refused content are put back into the segments and not into the prefix of which the
  partial subtitles are made (`providers.py:421`). `PartialHonest` holds.
- `SubtitleLayout!OverlapsSupported`: `docs/transcription-overlaps.md:12`. Utterances that
  overlap for less time than their lines need pages cannot be laid out
  (`subtitles.py:83`), though each alone can, and the job fails.
- `SubtitleLayout!WidthOfLanguage`: `docs/development-status.md:80` gives Korean, Chinese and
  Japanese lines of 24 characters. The worker tests the whole source language
  (`worker.py:271`), so that `ko-KR`, which requests accept (`workflow_routes.py:26`), is laid
  out 42 wide, and the draft its first part (`review.py:53`): a review breaks the lines
  anew, splits subtitles, or fails for want of time. `LayoutSound` is what holds of both.
- `SubtitleLayout!SilenceReviewed`: `docs/parallel-transcription.md:30` calls empty speech a
  valid success; `validate_tracks` (`review.py:20`) refuses a track without subtitles, so
  that a job with a review fails.
- `StageResults!SegmentsCached`: `docs/development-preservation.md:53`. Receipts of windows
  are keyed by size and modification time of the audio (`providers.py:347`), which is
  extracted again after a change of the translation model. `PaidOnce` holds while the
  models stay.

## 7. Proofs

The theorems hold for all values of the constants that satisfy the modules'
assumptions: any number of processes, jobs, tabs, windows, tenants, segments, streams
and models, any sizes and bounds. The assumptions only say that identities are
distinct, that bounds are natural numbers and that what must be positive is. Two say
more: `AudioScale`, that a silence worth cutting is longer than the ends that are left
of it (10, 5 or 3 seconds, less 0.2 at either end), and `TracksClock`, that a timeline
tiles the shortened audio, which is what `ClocksAgree` says of `AudioCut`'s and
`CutIsSound` proves.

| Module | Theorems |
|---|---|
| `JobLifecycleProofs` | `Invariance` (`IInv`), `TypeCorrectness`, `NoStaleReading`, `RunsOwnTheirRecords`, `RunsAreSerial`; `JobInvariance` (`JobInv`), `QueuedHaveSource`, `CompletedHaveResults`, `FollowsContract` (refinement of `JobContract`) |
| `DownloadLeasesProofs` | `LeaseInvariance`, `AloneInBody`, `Sharing` (refinement of `ReaderLock`) |
| `SegmentQueueProofs` | `SegmentInvariance`, `PlaceholdersReported`, `SoundEnd`, `QueuesSound`, `StopsAndDrains`, `PaidOnce` (refinement of `SegmentReceipts`); `ToolInvariance`, `LogsWhole`, `ToolsReaped` |
| `UploadProofs` | `UploadInvariance`, `WholeVideos`, `OwnersFinish`, `UploadsStay`; `SessionsInvariance`, `WorkForItsUser`, `RefusalsInTime`, `SessionsEndForCause` |
| `UploadPageProofs` | `QueueInvariance`, `NothingStranded`, `PausedFilesStay`; `PageInvariance`, `OneWriter`, `ShownDone`, `PageImplements` (refinement of `UploadQueue` and `UploadTransfer`) |
| `RecordsProofs` | `RegistryInvariance`, `ReferencesHold`, `SessionsReferToVideos`, `RegistrationsComplete`, `DeletionsRepeat`; `SettingsInvariance`, `CredentialsStayReadable`, `SavesKeepWhatFormsShow`; `RequestInvariance`, `RequestsSound`, `RefusalsHeeded`; `AdmissionSound` |
| `SubtitlesProofs` | `RevisionInvariance`, `PublishedWhole`, `VideosHonest`, `Selected`, `ReviewsSound`, `SavesBuild`; `ResultsAreSound`; `TracksKept` (`TracksInv`), `TracksAreSound` |
| `TimingProofs` | `CutsComputed` (`CutInv`), `CutIsSound`; `SubtitlesLaid` (`LayoutInv`), `LayoutIsSound` |

Every invariant that is proved was checked by TLC before, most of them in a run.
An invariant that is inductive carries what the desired property needs to be kept by
every step; the arguments in short:

*Jobs, `IInv`.* `FreshReading` is true of a section because nobody else writes that
record, and nobody does because the section holds the job's state lock, or the
admission lock while the job does not exist yet. `IInv` says so for every section.
`RunOwnsRecord` needs more: a run is mostly outside of any section, and what protects
its record then is that it keeps the execution lock while the others' sections on a
job that is being run either need that lock or cannot apply. That is in turn because
the run writes only processing statuses before its last one (`RunLike`, proved for
every plan). `OneRun` follows from the serial lock.

*Jobs, `JobInv`.* The contract and the promises about files need to know what a
section established when it was entered. `Entered` says so for every operation: the
status it found, that the source was there, that what it deletes has aged. `FilesOf`
ties files to statuses: a job that has expired has lost its own input for good, which
is why it cannot complete again. `RunForward` says that what a run has still to write
comes after what it has written. The refinement then has one lemma for each kind of
save: the record changes as `JobContract` allows, or not at all.

*Leases.* Until its lease is locked a download holds the raw lock, and so does an
executor from its listing on. Hence no lease can appear behind the listing, and one
that an executor can lock belongs to nobody alive.

*Segments.* The invariant is a partition: results, untried, in flight, waiting and
given up. Publishing keeps what is saved a subset of the results, which are disjoint
from everything that can still be asked for; a resumed run starts from what is saved.

*Tools, `ToolInv`.* Chunks are accounted for (written is in the pipe, in the log or has
set `overflow` or `failures`), a reader ends only when its pipe is empty and the other
end closed, and the caller's place tells what it knows. So a log that passes is whole.

*Provider calls, `RequestInv`.* `Directed`: whom a segment may ask now; `Charged`: what
was asked is at most what its attempts, tries and change of model allow; `Barred`: who
has refused, or could not be recorded; `InHand`: what verdict, response and trace are at
each place. A change of model without a call of the first one, after a refused record,
is paid for by the call that was not made. The budget is the last line of an arithmetic
argument over the three counters.

*Videos, `RegistryInv`.* `OpInv` says for every place of an operation what is on disk,
so that an interruption leaves a state in which the operation can be begun again, and
why the link is written last.

*Settings, `SettingsInv`.* A form shows the settings of an earlier revision, or what is
saved; a save that holds the lock has compared the two. Credentials are only of the
key that is there, because the lock is held from the look for the key to the write.

*Storage, `SpaceSound`.* Sums over tenants are cardinalities of sets of units
(`Total`); two lemmas, that a sum is monotone and how it changes with one tenant, carry
all of it. `LowerInv` compares what a measurement (other than a save's) has read, and what it has still to
read, with what is promised now: less only by the drift, tenant by tenant, whichever
of the two it reads first. `UpperInv` is the other direction for a registration, whose
reservation pays for the copy. When a measurement is complete both become statements
about the promise, and `Grant` adds no more than was tested, `Forsake` (a creation that
dies after its copies) less, and `GrantCopy` and `GrantSave` what was asked for or, beyond
it, `unreserved`.

*Uploads, `UploadInv`.* What the record counts is firm: no chunk in progress, nor its
rollback, reaches below it. What a tab has compared or sent agrees with its file on
the firm part. A request waits for the tab that waits for it, and there is one. Hence
two files never mix, though the server knows offsets only.

*Page, `PageInv`.* At most one transfer goes on, that of the active item and of its
file, and it awaits one request. `PageImplements` shows step by step that the page is
its queue and its transfers side by side, so `UploadInv` and `QueueInv` hold of it.

*Accounts, `SessionsInv`.* A window shows the user of the session whose token it has,
each of its requests carries a token of its user, and a user has few sessions, by
counting the newer ones of a session that is removed. Identities grow, so a token
once refused is never live again.

*Review, `RevisionInv`.* What is approved is the draft; a window's copy of the same run
is behind what is shown, or equal to it; a save under way is based on what is shown.

*Stages, `ResultsInv`.* A stamp names one content. All checkpoints under the same models
are about one cut, though other models may have replaced the files since; the stamps
of a checkpoint tell when they have. The first transcript that is completed is the only
one, so that whatever is listed, crossed or translated is of it. And while the models
do not change, the audio is not made again, so that answers keep their key.

*Loops.* What remains are the algorithms, whose properties are about what a loop
computes for every input. A theorem of induction cannot be applied, since its
predicate is a parameter; so `Steps` states it for a set: a set that has 0, and with
every number before n the next one, has all of 0 .. n. It follows from the least
number outside of the set (`Least`, from the well-foundedness of `<`). And a recursive
function has the values its definition says only if there is such a function:
`Computed` shows this by the same argument, for any step from a set to itself, and
each loop then has a lemma `...Computed` that gives its values round by round, and one
with the invariant of the loop. `Ranked` shows that `InOrder` is a permutation and
sorted, by counting the elements before each one; `Flattened` what a flattened
sequence has, at which places.

*Cut, `CutInv`.* The invariant is only that what is kept is computed from what the
detectors said. The lemmas say which units each operator keeps: between the cuts what
no cut takes (`BetweenLeaves`), joined what was in one of them (`MergedKeeps`), subtracted
what is in no removal (`SubtractLeaves`), in common what both keep (`CommonKeeps`); and that
intervals stay in order without touching each other's inside, which is what the next
operator needs. The properties are then set algebra. For the timeline `UnitsCounted`
counts: as many units remain as the last span ends at.

*Layout, `LayoutInv`.* The subtitles are `LayOut` of the transcript, a saved draft that of
the subtitles with their lines broken (`Wrapped`). Slots do not overlap,
and an utterance is active in the slots between its ends, so the sweep shows each
line from the first moment of any overlap to the last. The pages of a slot split it:
that each has a millisecond follows from `Room` and the clamps of `Turn`, and that no
line is lost from the arithmetic of `PageCount`. A draft is laid out again to itself: its
lines fit (`AllFit`), its subtitles follow one another, so that each is a slot of its own,
and none has more lines than one page. The same holds of subtitles that were laid out to
the draft's width before, and the end of what is laid out is that of an utterance, so
that it is accepted for review.

*Transcript, `TracksInv`.* What a window or batch has answered stays, and `segments`,
`groups` and `translations` are what the operators make of all answers. A sentence's
pieces cover exactly what its units are in the video, with a cut between any two
(`Projected`), and a piece that is left out is shorter than three half milliseconds
(`LastsLong`). The groups, put one after the other, are the targets (`TargetsGrouped`):
that the pieces of one sentence are in one group holds because they follow each other
in the transcript with the same text and a common source, also when short pieces
between them are left out. Ids are places of groups, batches are intervals of ids, so
a translation comes to its segments whatever the order of answers. That a prefix of
the windows gives a prefix of the transcript, and a prefix of the batches one of the
targets, is about flattened sequences that correspond (`Leads`).

## 8. What is only model-checked, and what is not modelled

Fairness, and so liveness, is beyond the prover: `CancelHeeded`, `StopHeeded`,
`QueuedServed`, `Served`, `Dismissed`, `JobOrphansGo`, `RunEnds`, `RequestsEnd`, `RunReturns`,
and of `QueueSpec` the part that transfers end. The theorems of the library about
induction, which have a predicate as a parameter, cannot be used; section 7 says what
takes their place. Every invariant that a run checks is proved.

Not modelled: the content of media, transcripts and subtitles, of which success,
failure, identity and times matter; command lines of the tools and the checks on the
encoded video; HTTP validation, formatting and logging; the browser's rendering;
encryption and hashing. Of components that are modelled otherwise: the throttling of
logins and the creation of accounts; the worker's estimate of a minute of work
(`CapacityEstimate`) and the free space of the file system; the encoder slots, OS locks
taken one by one without other state; import of SAMI files, which is parsing; the
unused point-wise mapping of the timeline; recovery of legacy transcripts by the
operator; the Windows branches of locking. The operator's scripts are run by hand and
are no part of the service. `PROJECT.json` says per component what is left out.
