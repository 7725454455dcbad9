--------------------------- MODULE JobLifecycleProofs ---------------------------
(***************************************************************************)
(* Proofs about JobLifecycle for every number of jobs, workers, API        *)
(* threads, batches, queueings and faults: first its locks and its         *)
(* records, then what a job promises its user.  A queued job has its       *)
(* source, a completed one its results, and the record follows             *)
(* JobContract.  JobInv is the inductive invariant of the latter.          *)
(***************************************************************************)
EXTENDS JobInvariant, TLAPS

-------------------------------------------------------------------------------
(***************************************************************************)
(* The sequences of statuses.                                              *)
(***************************************************************************)
\* What is put before the last status of a run keeps a run a run.
LEMMA RunLikeConcat ==
    ASSUME NEW s \in Seq(Processing), NEW t \in Seq(Status), RunLike(t), t # << >>
    PROVE  s \o t \in Seq(Status) /\ s \o t # << >> /\ RunLike(s \o t)
<1>1. Processing \subseteq Status /\ s \in Seq(Status)
  BY DEF Processing, Status
<1>2. s \o t \in Seq(Status) /\ Len(s \o t) = Len(s) + Len(t) /\ Len(t) > 0
  BY <1>1
<1>3. ASSUME NEW i \in 1 .. Len(s \o t) - 1
      PROVE  (s \o t)[i] \in Processing
  <2>1. CASE i <= Len(s)
    BY <2>1, <1>2
  <2>2. CASE i > Len(s)
    <3>1. (s \o t)[i] = t[i - Len(s)] /\ i - Len(s) \in 1 .. Len(t) - 1
      BY <2>2, <1>2
    <3>2. QED
      BY <3>1 DEF RunLike
  <2>3. QED
    BY <2>1, <2>2, <1>2
<1>4. QED
  BY <1>2, <1>3 DEF RunLike

\* What a run does before it writes its subtitles.
LEMMA TextStagesAreRun ==
    ASSUME NEW q \in Request, NEW t \in Transcribing(q)
    PROVE  t \o Translating(q) \in Seq(Processing)
<1> DEFINE recognise == <<"PREPROCESSING_AUDIO", "PREPROCESSING_AUDIO", "TRANSCRIBING", "FILTERING_TRANSCRIPT">>
<1>1. t \in Seq(Processing)
  <2>1. << >> \in Seq(Processing) /\ <<"FILTERING_TRANSCRIPT">> \in Seq(Processing)
    BY DEF Processing
  <2>2. recognise \in Seq(Processing)
    BY DEF Processing
  <2>3. <<"EXTRACTING_AUDIO">> \o recognise \in Seq(Processing)
    <3>1. <<"EXTRACTING_AUDIO">> \in Seq(Processing)
      BY DEF Processing
    <3> HIDE DEF recognise
    <3>2. QED
      BY <2>2, <3>1
  <2>4. t \in {<< >>, <<"FILTERING_TRANSCRIPT">>, recognise, <<"EXTRACTING_AUDIO">> \o recognise}
    BY Zenon DEF Transcribing
  <2> HIDE DEF recognise
  <2>5. QED
    BY <2>1, <2>2, <2>3, <2>4
<1>2. Translating(q) \in Seq(Processing)
  <2>1. Translating(q) = <<"TRANSLATING">> \/ Translating(q) = << >>
    BY DEF Translating
  <2>2. <<"TRANSLATING">> \in Seq(Processing) /\ << >> \in Seq(Processing)
    BY DEF Processing
  <2>3. QED
    BY <2>1, <2>2
<1>3. QED
  BY <1>1, <1>2

\* Every way a run can go is a run: it ends once, with its last status.
LEMMA PlansAreRuns ==
    ASSUME NEW q \in Request, NEW r \in BOOLEAN, NEW p \in Plans(q, r)
    PROVE  p \in Seq(Status) /\ p # << >> /\ RunLike(p)
<1>1. CASE q.template = "extract_audio" /\ ~r
  <2>1. p = <<"ANALYZING", "EXTRACTING_AUDIO", "COMPLETED">>
    BY <1>1 DEF Plans
  <2>2. QED
    BY <2>1 DEF RunLike, Processing, Status, Terminal
<1>2. CASE ~(q.template = "extract_audio" /\ ~r)
  <2>1. PICK t \in TextStages(q, r), e \in Endings(q, r) : p = <<"ANALYZING">> \o t \o <<"GENERATING_SUBTITLE">> \o e
    <3>1. p \in SubtitlePlans(q, r)
      BY <1>2 DEF Plans
    <3>2. QED
      BY <3>1 DEF SubtitlePlans
  <2>2. t \in Seq(Processing)
    <3>1. CASE r \/ q.template = "encode"
      <4>1. t = << >>
        BY <3>1 DEF TextStages
      <4>2. << >> \in Seq(Processing)
        OBVIOUS
      <4>3. QED
        BY <4>1, <4>2
    <3>2. CASE ~(r \/ q.template = "encode")
      BY <3>2, TextStagesAreRun DEF TextStages
    <3>3. QED
      BY <3>1, <3>2
  <2>3. e \in Seq(Status) /\ e # << >> /\ RunLike(e)
    <3>1. e \in {<<"COMPLETED">>, Rendering, <<"AWAITING_REVIEW">>}
      BY Zenon DEF Endings
    <3>2. /\ <<"COMPLETED">> \in Seq(Status) /\ RunLike(<<"COMPLETED">>)
          /\ <<"AWAITING_REVIEW">> \in Seq(Status) /\ RunLike(<<"AWAITING_REVIEW">>)
      BY DEF RunLike, Status, Terminal
    <3>3. Rendering \in Seq(Status) /\ RunLike(Rendering) /\ Rendering # << >>
      BY DEF Rendering, RunLike, Processing, Status, Terminal
    <3>4. <<"COMPLETED">> # << >> /\ <<"AWAITING_REVIEW">> # << >>
      OBVIOUS
    <3>5. QED
      BY <3>1, <3>2, <3>3, <3>4, Zenon
  <2>4. <<"ANALYZING">> \o t \o <<"GENERATING_SUBTITLE">> \in Seq(Processing)
    <3>1. <<"ANALYZING">> \in Seq(Processing) /\ <<"GENERATING_SUBTITLE">> \in Seq(Processing)
      BY DEF Processing
    <3>2. QED
      BY <3>1, <2>2
  <2>5. QED
    BY <2>1, <2>3, <2>4, RunLikeConcat
<1>3. QED
  BY <1>1, <1>2
-------------------------------------------------------------------------------
(***************************************************************************)
(* Sections.                                                               *)
(***************************************************************************)
\* A process is inside a section exactly when its entry names an operation.
LEMMA Inside ==
    ASSUME TypeOK, NEW p \in Procs
    PROVE  /\ section[p].op \in Op \cup {"none"}
           /\ Idle(p) <=> section[p].op = "none"
           /\ ~Idle(p) => section[p] \in Section
           /\ ~Idle(p) => section[p].op \in Op /\ section[p].job \in Jobs /\ section[p].rec \in Record
BY DEF TypeOK, Idle, Outside, Section, Op

\* Entering takes free locks, and no lock from anybody.
LEMMA Entering ==
    ASSUME TypeOK, NEW p \in Procs, NEW op \in Op, NEW j \in Jobs, NEW L \in SUBSET LockNames,
           Enter(p, op, j, L)
    PROVE  /\ held' \in [LockNames -> Procs \cup {Nobody}]
           /\ section' \in [Procs -> Section \cup {Outside}]
           /\ section[p] = Outside
           /\ section'[p] = [op |-> op, job |-> j, rec |-> record[j]]
           /\ \A q \in Procs \ {p} : section'[q] = section[q]
           /\ \A l \in L : held'[l] = p
           /\ \A l \in LockNames : held[l] # Nobody => held'[l] = held[l]
<1>1. [op |-> op, job |-> j, rec |-> record[j]] \in Section
  BY DEF TypeOK, Section
<1>2. QED
  BY <1>1 DEF Enter, Take, AllFree, Idle, TypeOK

\* Leaving releases locks, and none that another process holds.
LEMMA Releasing ==
    ASSUME TypeOK, NEW p \in Procs, NEW keep, held' = Released(p, keep)
    PROVE  /\ held' \in [LockNames -> Procs \cup {Nobody}]
           /\ \A l \in LockNames : held[l] # p => held'[l] = held[l]
           /\ \A l \in LockNames : l \in keep => held'[l] = held[l]
BY DEF TypeOK, Released

LEMMA Leaving ==
    ASSUME TypeOK, NEW p \in Procs, Leave(p)
    PROVE  /\ held' \in [LockNames -> Procs \cup {Nobody}]
           /\ section' \in [Procs -> Section \cup {Outside}]
           /\ section'[p] = Outside
           /\ \A q \in Procs \ {p} : section'[q] = section[q]
           /\ \A l \in LockNames : held[l] # p => held'[l] = held[l]
           /\ p \in Workers => \A l \in LockNames : l \in {SerialLock, ExecutionLock(job[p])} => held'[l] = held[l]
<1>1. /\ held' \in [LockNames -> Procs \cup {Nobody}]
      /\ \A l \in LockNames : held[l] # p => held'[l] = held[l]
      /\ \A l \in LockNames : l \in Kept(p) => held'[l] = held[l]
  BY Releasing DEF Leave
<1>2. QED
  BY <1>1 DEF Leave, TypeOK, Kept

\* What a section writes is a record.
LEMMA WrittenIsRecord ==
    ASSUME TypeOK, NEW p \in Procs, ~Idle(p),
           section[p].op = "advance" => p \in Workers /\ plan[p] # << >>
    PROVE  Written(p) \in Record
<1> DEFINE r == section[p].rec
<1>1. r \in Record
  BY Inside
<1>2. enqueued + 1 \in Nat
  BY DEF TypeOK
<1>3. section[p].op = "advance" => Head(plan[p]) \in Status
  BY DEF TypeOK
<1>4. Enqueue(r) \in Record /\ [Enqueue(r) EXCEPT !.ready = TRUE] \in Record
  BY <1>1, <1>2 DEF Enqueue, Record, Status
<1>5. ASSUME NEW s \in Status
      PROVE  Finish(r, s) \in Record /\ AdvanceOf(r, s) \in Record
  BY <1>1 DEF Finish, AdvanceOf, Record
<1>6. CancelOf(r) \in Record /\ ExpireOf(r) \in Record /\ FailOf(r) \in Record /\ Finish(r, "FAILED") \in Record
  BY <1>1, <1>5 DEF CancelOf, ExpireOf, FailOf, Finish, Record, Status, Terminal
<1>7. Gone \in Record
  BY DEF Gone, Record
<1>8. /\ [r EXCEPT !.status = "UPLOADING"] \in Record
      /\ [r EXCEPT !.status = "READY"] \in Record
      /\ [r EXCEPT !.cancel = FALSE, !.done = FALSE] \in Record
  BY <1>1 DEF Record, Status
<1> HIDE DEF r
<1>9. QED
  BY <1>1, <1>3, <1>4, <1>5, <1>6, <1>7, <1>8, Zenon DEF Written, r
-------------------------------------------------------------------------------
(***************************************************************************)
(* What the invariant says of two processes at once.                       *)
(***************************************************************************)
LEMMA LockFacts ==
    ASSUME NEW op, NEW j \in Jobs
    PROVE  /\ LocksOf(op, j) \subseteq LockNames
           /\ SerialLock \in LockNames /\ SerialLock \notin LocksOf(op, j)
           /\ ExecutionLock(j) \in LockNames /\ ExecutionLock(j) # SerialLock
           /\ LocksOf(op, j) # {}
<1>1. /\ StateLock(j) \in LockNames /\ ExecutionLock(j) \in LockNames
      /\ AdmissionLock \in LockNames /\ SerialLock \in LockNames
  BY DEF LockNames, SerialLock, AdmissionLock, StateLock, ExecutionLock
<1>2. SerialLock \notin {StateLock(j), ExecutionLock(j), AdmissionLock}
  BY Distinct DEF SerialLock, AdmissionLock, StateLock, ExecutionLock
<1>3. LocksOf(op, j) \in {{AdmissionLock}, {StateLock(j)}, {ExecutionLock(j), StateLock(j)}}
  BY DEF LocksOf
<1>4. QED
  BY <1>1, <1>2, <1>3

\* No two processes are in sections on the same job.
LEMMA OneSection ==
    ASSUME IInv, NEW p \in Procs, NEW q \in Procs, ~Idle(p), ~Idle(q), section[p].job = section[q].job
    PROVE  p = q
<1> DEFINE j == section[p].job
<1>1. SectionInv(p) /\ SectionInv(q) /\ j \in Jobs
  BY Inside DEF IInv
<1>2. section[p].rec = section[q].rec
  BY <1>1 DEF SectionInv
<1>3. section[p].op \in {"create", "admit"} <=> section[q].op \in {"create", "admit"}
  BY <1>1, <1>2 DEF SectionInv
<1>4. PICK l \in LocksOf(section[p].op, j) : l \in LocksOf(section[q].op, j)
  <2>1. CASE section[p].op \in {"create", "admit"}
    BY <2>1, <1>3 DEF LocksOf
  <2>2. CASE section[p].op \notin {"create", "admit"}
    <3>1. StateLock(j) \in LocksOf(section[p].op, j) /\ StateLock(j) \in LocksOf(section[q].op, j)
      BY <2>2, <1>3 DEF LocksOf
    <3>2. QED
      BY <3>1
  <2>3. QED
    BY <2>1, <2>2
<1>5. held[l] = p /\ held[l] = q
  BY <1>1, <1>4 DEF SectionInv
<1>6. QED
  BY <1>5

\* A process other than the worker that runs a job can only be appending to it
\* (in vain) or asking for its cancellation.
LEMMA RunExcludes ==
    ASSUME IInv, NEW w \in Workers, NEW p \in Procs, p # w, ~Idle(p),
           mode[w] \in {"run", "handler"}, plan[w] # << >>, section[p].job = job[w]
    PROVE  /\ section[p].op \in {"append", "cancel"}
           /\ section[p].rec.status \in Processing
<1> DEFINE j == job[w]
<1>1. w \in Procs /\ j \in Jobs /\ held[ExecutionLock(j)] = w /\ record[j].status = at[w]
  BY DEF IInv, WorkerLocks, RunStatus, Procs
<1>2. SectionInv(p) /\ section[p].rec = record[j] /\ section[p].op \in Op
  BY Inside DEF IInv, SectionInv
<1>3. at[w] \in Processing
  <2>1. SUFFICES ASSUME at[w] = "QUEUED", section[w].op = "advance"
                 PROVE  FALSE
    BY DEF IInv, RunStatus
  <2>2. ~Idle(w) /\ SectionInv(w)
    BY <1>1, <2>1, Inside DEF IInv, Idle, Outside
  <2>3. section[w].job = j
    BY <2>1, <2>2 DEF SectionInv
  <2>4. QED
    BY <2>2, <2>3, <1>1, OneSection
<1>4. "ABSENT" \notin Processing /\ "UPLOADING" \notin Processing /\ "READY" \notin Processing
  BY DEF Processing
<1>5. section[p].op \notin {"create", "admit", "complete", "start"}
  BY <1>1, <1>2, <1>3, <1>4 DEF SectionInv
<1>6. ExecutionLock(j) \notin LocksOf(section[p].op, j)
  BY <1>1, <1>2 DEF SectionInv
<1>7. section[p].op \in {"append", "cancel", "advance", "beat", "fail"}
  BY <1>2, <1>5, <1>6 DEF LocksOf, Op
<1>8. section[p].op \notin {"advance", "beat", "fail"}
  <2>1. CASE p \notin Workers
    BY <1>2, <2>1 DEF SectionInv
  <2>2. CASE p \in Workers
    <3>1. WorkerLocks(p)
      BY <2>2 DEF IInv
    <3>2. SUFFICES ASSUME section[p].op \in {"advance", "beat", "fail"}
                   PROVE  FALSE
      OBVIOUS
    <3>3. mode[p] \in {"run", "handler"} /\ section[p].job = job[p]
      BY <1>2, <2>2, <3>2 DEF SectionInv
    <3>4. held[ExecutionLock(j)] = p
      BY <3>1, <3>3 DEF WorkerLocks
    <3>5. QED
      BY <3>4, <1>1
  <2>3. QED
    BY <2>1, <2>2
<1>9. QED
  BY <1>1, <1>2, <1>3, <1>7, <1>8

\* Entering a section whose guard established what SectionInv says keeps the
\* invariant.
LEMMA EnterKeeps ==
    ASSUME IInv, NEW p \in Procs, NEW op \in Op, NEW j \in Jobs, NEW L \in SUBSET LockNames,
           Enter(p, op, j, L),
           UNCHANGED <<disk, clock, mode, run>>,
           todo' \in [Procs -> SUBSET Jobs],
           LocksOf(op, j) \subseteq L,
           op \in {"create", "admit"} <=> record[j].status = "ABSENT",
           op = "complete" => record[j].status = "UPLOADING",
           op = "start" => record[j].status = "READY",
           IF p \in Workers
           THEN \/ mode[p] = "collect" /\ op = "recover"
                \/ mode[p] = "run" /\ op \in {"advance", "beat"} /\ j = job[p] /\ plan[p] # << >>
                \/ mode[p] = "handler" /\ op = "fail" /\ j = job[p] /\ plan[p] # << >>
           ELSE op \notin {"advance", "beat", "fail"}
    PROVE  IInv'
<1> USE DEF disk, clock, run
<1>1. TypeOK /\ Nobody \notin Procs
  BY Distinct DEF IInv
<1>2. /\ section[p] = Outside
      /\ section'[p] = [op |-> op, job |-> j, rec |-> record[j]]
      /\ \A q \in Procs \ {p} : section'[q] = section[q]
      /\ \A l \in L : held'[l] = p
      /\ \A l \in LockNames : held[l] # Nobody => held'[l] = held[l]
  BY <1>1, Entering
<1>3. TypeOK'
  BY <1>1, Entering DEF TypeOK
<1>4. ASSUME NEW q \in Procs, ~Idle(q)'
      PROVE  SectionInv(q)'
  <2>1. CASE q = p
    BY <2>1, <1>2 DEF SectionInv
  <2>2. CASE q # p
    <3>1. section'[q] = section[q] /\ SectionInv(q) /\ section[q].job \in Jobs
      BY <1>1, <1>2, <1>4, <2>2, Inside DEF IInv, Idle
    <3>2. \A l \in LocksOf(section[q].op, section[q].job) : l \in LockNames /\ held[l] = q
      BY <3>1, LockFacts DEF SectionInv
    <3>3. \A l \in LocksOf(section[q].op, section[q].job) : held'[l] = q
      BY <1>1, <1>2, <3>2
    <3>4. QED
      BY <3>1, <3>3 DEF SectionInv
  <2>3. QED
    BY <2>1, <2>2
<1>5. ASSUME NEW w \in Workers
      PROVE  WorkerLocks(w)' /\ RunLike(plan[w])' /\ RunStatus(w)'
  <2>1. w \in Procs /\ WorkerLocks(w) /\ RunLike(plan[w]) /\ RunStatus(w)
    BY DEF IInv, Procs
  <2>2. WorkerLocks(w)'
    BY <1>1, <1>2, <2>1, LockFacts DEF WorkerLocks
  <2>3. RunLike(plan[w])'
    BY <2>1 DEF RunLike
  <2>4. RunStatus(w)'
    <3>1. section[w].op = "advance" => section'[w] = section[w]
      BY <1>2, <2>1 DEF Outside
    <3>2. QED
      BY <2>1, <3>1 DEF RunStatus
  <2>5. QED
    BY <2>2, <2>3, <2>4
<1>6. QED
  BY <1>3, <1>4, <1>5 DEF IInv
\* A step that writes no record and touches no section, lock or run.
LEMMA QuietKeeps ==
    ASSUME IInv, TypeOK', UNCHANGED <<record, held, section, job, at, plan>>,
           \A w \in Workers : mode'[w] = mode[w]
    PROVE  IInv'
<1>1. ASSUME NEW p \in Procs, ~Idle(p)'
      PROVE  SectionInv(p)'
  <2>1. SectionInv(p)
    BY <1>1 DEF IInv, Idle
  <2>2. QED
    BY <2>1 DEF SectionInv
<1>2. ASSUME NEW w \in Workers
      PROVE  WorkerLocks(w)' /\ RunLike(plan[w])' /\ RunStatus(w)'
  <2>1. WorkerLocks(w) /\ RunLike(plan[w]) /\ RunStatus(w)
    BY DEF IInv
  <2>2. QED
    BY <2>1 DEF WorkerLocks, RunLike, RunStatus
<1>3. QED
  BY <1>1, <1>2 DEF IInv

\* A step of a worker that writes no record: only that worker has to be looked at.
LEMMA OwnStepKeeps ==
    ASSUME IInv, NEW w \in Workers, TypeOK', record' = record,
           \A q \in Procs \ {w} : section'[q] = section[q] /\ mode'[q] = mode[q],
           \A v \in Workers \ {w} : job'[v] = job[v] /\ at'[v] = at[v] /\ plan'[v] = plan[v],
           \A l \in LockNames : held[l] \notin {w, Nobody} => held'[l] = held[l],
           ~Idle(w)' => SectionInv(w)',
           WorkerLocks(w)', RunLike(plan[w])', RunStatus(w)'
    PROVE  IInv'
<1>1. Nobody \notin Procs /\ Workers \subseteq Procs /\ TypeOK
  BY Distinct DEF Procs, IInv
<1>2. ASSUME NEW p \in Procs, ~Idle(p)'
      PROVE  SectionInv(p)'
  <2>1. CASE p = w
    BY <1>2, <2>1
  <2>2. CASE p # w
    <3>1. section'[p] = section[p] /\ SectionInv(p) /\ section[p].job \in Jobs
      BY <1>1, <1>2, <2>2, Inside DEF IInv, Idle
    <3>2. \A l \in LocksOf(section[p].op, section[p].job) : l \in LockNames /\ held[l] = p
      BY <3>1, LockFacts DEF SectionInv
    <3>3. \A l \in LocksOf(section[p].op, section[p].job) : held'[l] = p
      BY <1>1, <2>2, <3>2
    <3>4. QED
      BY <1>1, <2>2, <3>1, <3>3 DEF SectionInv
  <2>3. QED
    BY <2>1, <2>2
<1>3. ASSUME NEW v \in Workers
      PROVE  WorkerLocks(v)' /\ RunLike(plan[v])' /\ RunStatus(v)'
  <2>1. CASE v = w
    BY <2>1
  <2>2. CASE v # w
    <3>1. v \in Procs /\ WorkerLocks(v) /\ RunLike(plan[v]) /\ RunStatus(v)
      BY <1>1 DEF IInv
    <3>2. mode'[v] = mode[v] /\ section'[v] = section[v] /\ job'[v] = job[v] /\ at'[v] = at[v] /\ plan'[v] = plan[v]
      BY <2>2, <3>1
    <3>3. SerialLock \in LockNames
      BY DEF SerialLock, LockNames
    <3>4. WorkerLocks(v)'
      BY <1>1, <2>2, <3>1, <3>2, <3>3, LockFacts DEF WorkerLocks
    <3>5. QED
      BY <3>1, <3>2, <3>4 DEF RunLike, RunStatus
  <2>3. QED
    BY <2>1, <2>2
<1>4. QED
  BY <1>2, <1>3 DEF IInv

-------------------------------------------------------------------------------
(***************************************************************************)
(* The steps.                                                              *)
(***************************************************************************)
LEMMA HandlerKeeps ==
    ASSUME IInv, NEW c \in Clients, NEW op \in Op \ {"advance", "beat", "fail"}, NEW j \in Jobs,
           NEW L \in SUBSET LockNames, Handler(c, op, j, L),
           LocksOf(op, j) \subseteq L,
           op \in {"create", "admit"} <=> record[j].status = "ABSENT",
           op = "complete" => record[j].status = "UPLOADING",
           op = "start" => record[j].status = "READY"
    PROVE  IInv'
<1>1. c \in Procs /\ c \notin Workers
  BY Distinct DEF Procs
<1>2. todo' \in [Procs -> SUBSET Jobs]
  BY DEF Handler, IInv, TypeOK
<1>3. Enter(c, op, j, L) /\ UNCHANGED <<disk, clock, mode, run>>
  BY DEF Handler
<1>4. QED
  BY <1>1, <1>2, <1>3, EnterKeeps

\* Requests.
LEMMA ClientKeeps ==
    ASSUME IInv, NEW c \in Clients, ClientStep(c)
    PROVE  IInv'
<1> PICK j \in Jobs :
        \/ CreateUpload(c, j)
        \/ CreateWorkflow(c, j)
        \/ UploadChunk(c, j)
        \/ CompleteUpload(c, j)
        \/ StartJob(c, j)
        \/ CancelJob(c, j)
        \/ RetryJob(c, j)
        \/ UpdateSubtitleDraft(c, j)
        \/ DeleteJob(c, j)
  BY DEF ClientStep
<1> DEFINE S == StateLock(j)
           E == ExecutionLock(j)
           A == AdmissionLock
<1>1. S \in LockNames /\ E \in LockNames /\ A \in LockNames
  BY DEF LockNames, AdmissionLock, StateLock, ExecutionLock
<1> HIDE DEF S, E, A
<1>2. CASE CreateUpload(c, j)
  BY <1>1, <1>2, HandlerKeeps DEF CreateUpload, Op, LocksOf, A
<1>3. CASE CreateWorkflow(c, j)
  BY <1>1, <1>3, HandlerKeeps DEF CreateWorkflow, Op, LocksOf, A
<1>4. CASE UploadChunk(c, j)
  BY <1>1, <1>4, HandlerKeeps DEF UploadChunk, Op, LocksOf, S
<1>5. CASE CompleteUpload(c, j)
  BY <1>1, <1>5, HandlerKeeps DEF CompleteUpload, Op, LocksOf, S
<1>6. CASE StartJob(c, j)
  BY <1>1, <1>6, HandlerKeeps DEF StartJob, Op, LocksOf, A, S
<1>7. CASE CancelJob(c, j)
  BY <1>1, <1>7, HandlerKeeps DEF CancelJob, Op, LocksOf, S, Exists
<1>8. CASE RetryJob(c, j)
  BY <1>1, <1>8, HandlerKeeps DEF RetryJob, Op, LocksOf, A, S, E
<1>9. CASE UpdateSubtitleDraft(c, j)
  BY <1>1, <1>9, HandlerKeeps DEF UpdateSubtitleDraft, Op, LocksOf, A, S, E
<1>10. CASE DeleteJob(c, j)
  BY <1>1, <1>10, HandlerKeeps DEF DeleteJob, Op, LocksOf, S, E, Terminal
<1>11. QED
  BY <1>2, <1>3, <1>4, <1>5, <1>6, <1>7, <1>8, <1>9, <1>10

\* Passes of collect().
LEMMA CollectKeeps ==
    ASSUME IInv, NEW p \in Workers \cup Collectors, CollectStep(p)
    PROVE  IInv'
<1> PICK j \in Jobs : Collect(p, j) \/ CollectBusy(p, j)
  BY DEF CollectStep
<1>1. p \in Procs /\ TypeOK /\ (p \in Workers => ~Expires(p))
  BY Distinct DEF Procs, IInv, Expires
<1>2. ASSUME Collect(p, j) \/ CollectBusy(p, j)
      PROVE  todo' \in [Procs -> SUBSET Jobs]
  <2>1. todo \in [Procs -> SUBSET Jobs] /\ todo' = [todo EXCEPT ![p] = @ \ {j}]
    BY <1>1, <1>2 DEF Collect, CollectBusy, TypeOK
  <2>2. todo[p] \ {j} \in SUBSET Jobs
    BY <1>1, <2>1
  <2>3. QED
    BY <1>1, <2>1, <2>2
<1>3. CASE Collect(p, j) /\ CollectOp(p, j) # "none"
  <2>1. CollectOp(p, j) \in {"recover", "purge", "wipe"} /\ (p \in Workers => CollectOp(p, j) = "recover")
    BY <1>1, <1>3 DEF CollectOp
  <2>2. record[j].status # "ABSENT"
    BY <1>3, <2>1 DEF CollectOp, Processing, Terminal
  <2>3. {ExecutionLock(j), StateLock(j)} \subseteq LockNames
    BY DEF LockNames, StateLock, ExecutionLock
  <2>4. LocksOf(CollectOp(p, j), j) = {ExecutionLock(j), StateLock(j)}
    BY <2>1 DEF LocksOf
  <2>5. Enter(p, CollectOp(p, j), j, {ExecutionLock(j), StateLock(j)}) /\ UNCHANGED <<disk, clock, mode, run>>
    BY <1>3 DEF Collect
  <2>6. CollectOp(p, j) \in Op /\ mode[p] = "collect"
    BY <1>3, <2>1 DEF Op, Collect
  <2>7. QED
    BY <1>1, <1>2, <1>3, <2>1, <2>2, <2>3, <2>4, <2>5, <2>6, EnterKeeps
<1>4. CASE (Collect(p, j) /\ CollectOp(p, j) = "none") \/ CollectBusy(p, j)
  <2>1. UNCHANGED <<disk, clock, held, section, mode, run>>
    BY <1>4 DEF Collect, CollectBusy
  <2>2. TypeOK'
    BY <1>1, <1>2, <2>1 DEF TypeOK, disk, clock, run
  <2>3. QED
    BY <2>1, <2>2, QuietKeeps DEF disk, run
<1>5. QED
  BY <1>3, <1>4

\* Batches and the passing of time.
LEMMA BatchKeeps ==
    ASSUME IInv, NEW p \in Collectors, BatchBegin(p) \/ BatchEnd(p)
    PROVE  IInv'
<1>1. p \in Procs /\ TypeOK /\ p \notin Workers
  BY Distinct DEF Procs, IInv
<1>2. UNCHANGED <<disk, clock, held, section, run>> /\ (\A w \in Workers : mode'[w] = mode[w])
  BY <1>1 DEF BatchBegin, BatchEnd, TypeOK, Procs
<1>3. mode' \in [Procs -> {"idle", "collect", "scan", "run", "handler"}]
  BY <1>1 DEF BatchBegin, BatchEnd, TypeOK
<1>4. todo' \in [Procs -> SUBSET Jobs]
  <2>1. {j \in Jobs : Exists(j)} \in SUBSET Jobs
    OBVIOUS
  <2>2. QED
    BY <1>1, <2>1 DEF BatchBegin, BatchEnd, TypeOK
<1>5. TypeOK'
  BY <1>1, <1>2, <1>3, <1>4 DEF TypeOK, disk, clock, run
<1>6. QED
  BY <1>2, <1>5, QuietKeeps DEF disk, run

LEMMA AgeKeeps ==
    ASSUME IInv, NEW j \in Jobs, Age(j)
    PROVE  IInv'
<1>1. TypeOK'
  <2>1. age' \in [Jobs -> 0..2]
    <3>1. age \in [Jobs -> 0..2] /\ age[j] \in 0..2
      BY DEF IInv, TypeOK
    <3>2. age[j] + 1 \in 0..2
      BY <3>1 DEF Age
    <3>3. QED
      BY <3>1, <3>2 DEF Age
  <2>2. QED
    BY <2>1 DEF IInv, TypeOK, Age, disk, run
<1>2. QED
  BY <1>1, QuietKeeps DEF Age, disk, run
-------------------------------------------------------------------------------
(***************************************************************************)
(* What ends a section.                                                    *)
(***************************************************************************)
\* The record a save leaves is in the status another run left it in.
LEMMA SaveUnderRun ==
    ASSUME IInv, NEW w \in Workers, NEW p \in Procs, p # w, ~Idle(p),
           mode[w] \in {"run", "handler"}, plan[w] # << >>, section[p].job = job[w]
    PROVE  Written(p).status = record[job[w]].status
<1>1. /\ section[p].op \in {"append", "cancel"}
      /\ section[p].rec.status \in Processing
      /\ section[p].rec = record[job[w]]
      /\ section[p].rec \in Record
  BY RunExcludes, Inside DEF IInv, SectionInv
<1>2. section[p].rec.status \notin Waiting
  BY <1>1 DEF Processing, Waiting
<1>3. CASE section[p].op = "append"
  <2>1. Written(p) = section[p].rec
    BY <1>3 DEF Written
  <2>2. QED
    BY <1>1, <2>1
<1>4. CASE section[p].op = "cancel"
  <2>1. Written(p) = CancelOf(section[p].rec)
    BY <1>4 DEF Written
  <2>2. QED
    BY <1>1, <1>2, <2>1 DEF CancelOf, Record
<1>5. QED
  BY <1>1, <1>3, <1>4

\* The sections that follow a save in the same locks are on a record that exists.
LEMMA Following ==
    ASSUME IInv, NEW p \in Procs, ~Idle(p), section[p].op \in {"reset", "edit"}
    PROVE  Written(p).status = section[p].rec.status /\ section[p].rec.status # "ABSENT" /\ p \notin Workers
<1>1. SectionInv(p) /\ section[p].rec \in Record
  BY Inside DEF IInv
<1>2. section[p].rec.status # "ABSENT" /\ p \notin Workers
  BY <1>1 DEF SectionInv
<1>3. CASE section[p].op = "reset"
  <2>1. Written(p) = [section[p].rec EXCEPT !.cancel = FALSE, !.done = FALSE]
    BY <1>3 DEF Written
  <2>2. QED
    BY <1>1, <1>2, <2>1 DEF Record
<1>4. CASE section[p].op = "edit"
  <2>1. Written(p) = section[p].rec
    BY <1>4 DEF Written
  <2>2. QED
    BY <1>2, <2>1
<1>5. QED
  BY <1>3, <1>4

\* The types of what a save changes.
LEMMA SaveType ==
    ASSUME IInv, NEW p \in Procs, Save(p)
    PROVE  /\ TypeOK'
           /\ ~Idle(p)
           /\ record' = [record EXCEPT ![section[p].job] = Written(p)]
           /\ Advances(p) => p \in Workers /\ plan[p] # << >> /\ mode[p] \in {"run", "handler"} /\ job[p] = section[p].job
<1> DEFINE j == section[p].job
           v == Written(p)
<1>1. TypeOK /\ ~Idle(p) /\ section[p].op \in Op /\ j \in Jobs /\ section[p].rec \in Record /\ SectionInv(p)
  BY Inside DEF IInv, Save, Idle, Outside
<1>2. Advances(p) => p \in Workers /\ plan[p] # << >> /\ mode[p] \in {"run", "handler"} /\ job[p] = j
  BY <1>1 DEF SectionInv, Advances
<1>3. v \in Record
  BY <1>1, <1>2, WrittenIsRecord DEF Advances
<1>4. record' = [record EXCEPT ![j] = v] /\ record' \in [Jobs -> Record]
  BY <1>1, <1>3 DEF Save, TypeOK
<1>5. files' \in [Jobs -> SUBSET {"input", "draft", "folder", "output"}]
  <2>1. FilesWritten(p, v.status) \in SUBSET {"input", "draft", "folder", "output"}
    BY <1>1 DEF FilesWritten, TypeOK
  <2>2. QED
    BY <1>1, <2>1 DEF Save, TypeOK
<1>6. age' \in [Jobs -> 0..2]
  <2>1. (IF Keeps(p, v) THEN age[j] ELSE 0) \in 0..2
    BY <1>1 DEF TypeOK
  <2>2. QED
    BY <1>1, <2>1 DEF Save, TypeOK
<1>7. purged' \in [Jobs -> BOOLEAN] /\ enqueued' \in Nat
  <2>1. (purged[j] /\ v.status = record[j].status) \in BOOLEAN
    BY <1>1
  <2>2. purged' \in [Jobs -> BOOLEAN]
    BY <1>1, <2>1 DEF Save, TypeOK
  <2>3. QED
    BY <1>1, <2>2 DEF Save, TypeOK
<1>8. at' \in [Workers -> Status \cup {"none"}] /\ plan' \in [Workers -> Seq(Status)]
  <2>1. CASE ~Advances(p)
    BY <1>1, <2>1 DEF Save, TypeOK
  <2>2. CASE section[p].op = "fail"
    <3>1. v = FailOf(section[p].rec)
      BY <2>2 DEF Written
    <3>2. v.status \in Status
      BY <1>1, <3>1 DEF FailOf, Finish, Record, Status, Terminal
    <3>3. at' = [at EXCEPT ![p] = v.status] /\ plan' = [plan EXCEPT ![p] = << >>]
      BY <2>2 DEF Save, Advances
    <3>4. << >> \in Seq(Status)
      OBVIOUS
    <3>5. QED
      BY <1>1, <3>2, <3>3, <3>4 DEF TypeOK
  <2>3. CASE section[p].op = "advance"
    <3>1. v = AdvanceOf(section[p].rec, Head(plan[p]))
      BY <2>3 DEF Written
    <3>2. plan[p] \in Seq(Status) /\ plan[p] # << >>
      BY <1>1, <1>2, <2>3 DEF TypeOK, Advances
    <3>3. Head(plan[p]) \in Status /\ Tail(plan[p]) \in Seq(Status)
      BY <3>2
    <3>4. v.status \in Status
      BY <1>1, <3>1, <3>3 DEF AdvanceOf, Finish, Record
    <3>5. at' = [at EXCEPT ![p] = v.status] /\ plan' = [plan EXCEPT ![p] = Tail(plan[p])]
      BY <2>3 DEF Save, Advances
    <3>6. QED
      BY <1>1, <3>3, <3>4, <3>5 DEF TypeOK
  <2>4. QED
    BY <2>1, <2>2, <2>3 DEF Advances
<1>9. held' \in [LockNames -> Procs \cup {Nobody}] /\ section' \in [Procs -> Section \cup {Outside}]
  <2>1. PICK op \in Follow(section[p].op) :
            IF op = "none"
            THEN Leave(p)
            ELSE /\ section' = [section EXCEPT ![p] = [op |-> op, job |-> j, rec |-> v]]
                 /\ held' = IF op = "render" THEN Released(p, LockNames \ {AdmissionLock}) ELSE held
    BY DEF Save
  <2>2. CASE op = "none"
    BY <1>1, <2>1, <2>2, Leaving
  <2>3. CASE op # "none"
    <3>1. op \in Op
      BY <2>1, <2>3 DEF Follow, Op
    <3>2. [op |-> op, job |-> j, rec |-> v] \in Section
      BY <1>1, <1>3, <3>1 DEF Section
    <3>3. section' \in [Procs -> Section \cup {Outside}]
      BY <1>1, <2>1, <2>3, <3>2 DEF TypeOK
    <3>4. held' \in [LockNames -> Procs \cup {Nobody}]
      BY <1>1, <2>1, <2>3, Releasing DEF TypeOK
    <3>5. QED
      BY <3>3, <3>4
  <2>4. QED
    BY <2>2, <2>3
<1>10. UNCHANGED <<faults, mode, todo, queue, job, stopping>>
  BY DEF Save
<1> HIDE DEF j, v
<1>11. TypeOK'
  BY <1>1, <1>4, <1>5, <1>6, <1>7, <1>8, <1>9, <1>10 DEF TypeOK
<1>12. QED
  BY <1>1, <1>2, <1>4, <1>11 DEF j, v
\* How a save leaves the locks and the sections.
LEMMA SaveSections ==
    ASSUME IInv, NEW p \in Procs, Save(p)
    PROVE  /\ \A q \in Procs \ {p} : section'[q] = section[q]
           /\ \A l \in LockNames : held[l] # p => held'[l] = held[l]
           /\ p \in Workers => Idle(p)'
           /\ p \in Workers => \A l \in LockNames : l \in {SerialLock, ExecutionLock(job[p])} => held'[l] = held[l]
           /\ ~Idle(p)' => SectionInv(p)'
<1> DEFINE j == section[p].job
           v == Written(p)
<1>1. TypeOK /\ ~Idle(p) /\ j \in Jobs /\ SectionInv(p) /\ record' = [record EXCEPT ![j] = v]
  BY SaveType, Inside DEF IInv
<1>2. PICK op \in Follow(section[p].op) :
          IF op = "none"
          THEN Leave(p)
          ELSE /\ section' = [section EXCEPT ![p] = [op |-> op, job |-> j, rec |-> v]]
               /\ held' = IF op = "render" THEN Released(p, LockNames \ {AdmissionLock}) ELSE held
  BY DEF Save
<1>3. CASE op = "none"
  BY <1>1, <1>2, <1>3, Leaving DEF Idle
<1>4. CASE op # "none"
  <2>1. section[p].op \in {"reset", "edit"} /\ op \in {"requeue", "render"}
    BY <1>2, <1>4 DEF Follow
  <2>2. v.status # "ABSENT" /\ p \notin Workers
    BY <1>1, <2>1, Following
  <2>3. \A l \in LockNames : held[l] # p \/ l # AdmissionLock => held'[l] = held[l]
    BY <1>1, <1>2, <1>4, Releasing
  <2>4. LocksOf(op, j) = {ExecutionLock(j), StateLock(j)} /\ LocksOf(section[p].op, j) = {ExecutionLock(j), StateLock(j)}
    BY <2>1 DEF LocksOf
  <2>5. AdmissionLock \notin {ExecutionLock(j), StateLock(j)}
    BY <1>1, Distinct DEF AdmissionLock, ExecutionLock, StateLock
  <2>6. \A l \in {ExecutionLock(j), StateLock(j)} : l \in LockNames /\ held[l] = p
    BY <1>1, <2>4, LockFacts DEF SectionInv
  <2>7. \A l \in {ExecutionLock(j), StateLock(j)} : held'[l] = p
    BY <2>3, <2>5, <2>6
  <2>8. section'[p] = [op |-> op, job |-> j, rec |-> v] /\ \A q \in Procs \ {p} : section'[q] = section[q]
    BY <1>1, <1>2, <1>4 DEF TypeOK
  <2>9. record'[j] = v
    BY <1>1 DEF TypeOK
  <2> HIDE DEF j, v
  <2>10. SectionInv(p)'
    BY <2>1, <2>2, <2>4, <2>7, <2>8, <2>9 DEF SectionInv
  <2>11. QED
    BY <2>2, <2>3, <2>8, <2>10
<1>5. QED
  BY <1>3, <1>4

\* Saves.
LEMMA SaveKeeps ==
    ASSUME IInv, NEW p \in Procs, Save(p)
    PROVE  IInv'
<1> DEFINE j == section[p].job
           v == Written(p)
<1>1. /\ TypeOK /\ ~Idle(p) /\ j \in Jobs /\ SectionInv(p) /\ TypeOK'
      /\ record' = [record EXCEPT ![j] = v]
      /\ Advances(p) => p \in Workers /\ plan[p] # << >> /\ mode[p] \in {"run", "handler"} /\ job[p] = j
  BY SaveType, Inside DEF IInv
<1>2. UNCHANGED <<mode, job>>
  BY DEF Save
<1>3. ASSUME NEW q \in Procs, ~Idle(q)'
      PROVE  SectionInv(q)'
  <2>1. CASE q = p
    BY <1>3, <2>1, SaveSections
  <2>2. CASE q # p
    <3>1. section'[q] = section[q] /\ ~Idle(q) /\ SectionInv(q) /\ section[q].job \in Jobs
      BY <1>1, <1>3, <2>2, SaveSections, Inside DEF IInv, Idle
    <3>2. section[q].job # j
      BY <1>1, <2>2, <3>1, OneSection
    <3>3. record'[section[q].job] = record[section[q].job]
      BY <1>1, <3>1, <3>2 DEF TypeOK
    <3>4. \A l \in LocksOf(section[q].op, section[q].job) : held'[l] = q
      BY <2>2, <3>1, LockFacts, SaveSections DEF SectionInv
    <3>5. q \in Workers => plan'[q] = plan[q]
      BY <1>1, <2>2 DEF Save, TypeOK
    <3> HIDE DEF j, v
    <3>6. QED
      BY <1>2, <3>1, <3>3, <3>4, <3>5 DEF SectionInv
  <2>3. QED
    BY <2>1, <2>2
<1>4. ASSUME NEW w \in Workers
      PROVE  WorkerLocks(w)' /\ RunLike(plan[w])' /\ RunStatus(w)'
  <2>1. w \in Procs /\ WorkerLocks(w) /\ RunLike(plan[w]) /\ RunStatus(w) /\ plan[w] \in Seq(Status)
    BY DEF IInv, Procs, TypeOK
  <2>2. SerialLock \in LockNames /\ (job[w] \in Jobs => ExecutionLock(job[w]) \in LockNames)
    BY DEF SerialLock, ExecutionLock, LockNames
  <2>3. CASE w # p
    <3>1. at'[w] = at[w] /\ plan'[w] = plan[w] /\ section'[w] = section[w]
      <4>1. CASE Advances(p)
        <5>1. PICK s, t : at' = [at EXCEPT ![p] = s] /\ plan' = [plan EXCEPT ![p] = t]
          BY <4>1 DEF Save
        <5>2. QED
          BY <1>1, <2>1, <2>3, <5>1, SaveSections DEF TypeOK
      <4>2. CASE ~Advances(p)
        <5>1. at' = at /\ plan' = plan
          BY <4>2, Zenon DEF Save
        <5>2. QED
          BY <2>1, <2>3, <5>1, SaveSections
      <4>3. QED
        BY <4>1, <4>2
    <3>2. WorkerLocks(w)'
      BY <1>2, <2>1, <2>2, <2>3, <3>1, SaveSections DEF WorkerLocks
    <3>3. RunStatus(w)'
      <4>1. SUFFICES ASSUME mode[w] \in {"run", "handler"}, plan[w] # << >>
                     PROVE  record'[job[w]].status = record[job[w]].status
        BY <1>2, <2>1, <3>1 DEF RunStatus
      <4>2. job[w] \in Jobs
        BY <2>1, <4>1 DEF WorkerLocks
      <4>3. CASE job[w] = j
        BY <1>1, <2>3, <4>1, <4>2, <4>3, SaveUnderRun DEF TypeOK
      <4>4. CASE job[w] # j
        BY <1>1, <4>2, <4>4 DEF TypeOK
      <4>5. QED
        BY <4>3, <4>4
    <3>4. QED
      BY <2>1, <3>1, <3>2, <3>3 DEF RunLike
  <2>4. CASE w = p
    <3>1. CASE ~Advances(p)
      <4>1. at'[w] = at[w] /\ plan'[w] = plan[w]
        <5>1. at' = at /\ plan' = plan
          BY <3>1, Zenon DEF Save
        <5>2. QED
          BY <5>1
      <4>2. WorkerLocks(w)'
        BY <1>2, <2>1, <2>2, <2>4, <4>1, SaveSections DEF WorkerLocks
      <4>3. RunStatus(w)'
        <5>1. SUFFICES ASSUME mode[w] \in {"run", "handler"}, plan[w] # << >>
                       PROVE  record'[job[w]].status = at[w] /\ at[w] \in Processing
          BY <1>2, <4>1 DEF RunStatus
        <5>2. section[p].op = "beat" /\ job[w] = j
          BY <1>1, <2>4, <3>1, <5>1 DEF SectionInv, Advances
        <5>3. v = record[j] /\ at[w] \in Processing /\ record[j].status = at[w]
          BY <1>1, <2>1, <2>4, <5>1, <5>2 DEF SectionInv, RunStatus, Written
        <5>4. QED
          BY <1>1, <5>2, <5>3 DEF TypeOK
      <4>4. QED
        BY <2>1, <4>1, <4>2, <4>3
    <3>2. CASE section[p].op = "fail"
      <4>1. Advances(p) /\ plan'[w] = << >>
        BY <1>1, <2>4, <3>2 DEF Save, Advances, TypeOK
      <4>2. WorkerLocks(w)'
        BY <1>1, <1>2, <2>1, <2>2, <2>4, <4>1, SaveSections DEF WorkerLocks
      <4>3. QED
        BY <4>1, <4>2 DEF RunLike, RunStatus
    <3>3. CASE section[p].op = "advance"
      <4>1. Advances(p) /\ plan[w] # << >> /\ mode[w] \in {"run", "handler"} /\ job[w] = j
        BY <1>1, <2>4, <3>3 DEF Advances
      <4>2. plan'[w] = Tail(plan[w]) /\ at'[w] = v.status
        BY <1>1, <2>4, <3>3, <4>1 DEF Save, TypeOK
      <4>3. v.status = Head(plan[w])
        <5>1. v = AdvanceOf(section[p].rec, Head(plan[w])) /\ section[p].rec \in Record
          BY <1>1, <2>4, <3>3, Inside DEF Written
        <5>2. QED
          BY <5>1 DEF AdvanceOf, Finish, Record
      <4>4. WorkerLocks(w)'
        BY <1>2, <2>1, <2>2, <2>4, <4>1, SaveSections DEF WorkerLocks
      <4>5. RunLike(plan[w])'
        <5>1. Len(Tail(plan[w])) = Len(plan[w]) - 1
          BY <2>1, <4>1
        <5>2. \A i \in 1 .. Len(plan[w]) - 2 : Tail(plan[w])[i] = plan[w][i + 1]
          BY <2>1, <4>1
        <5>3. Len(plan[w]) \in Nat
          BY <2>1
        <5>4. QED
          BY <2>1, <4>2, <5>1, <5>2, <5>3 DEF RunLike
      <4>6. RunStatus(w)'
        <5>1. SUFFICES ASSUME Tail(plan[w]) # << >>
                       PROVE  Head(plan[w]) \in Processing
          BY <1>1, <1>2, <4>1, <4>2, <4>3 DEF RunStatus, TypeOK
        <5>2. Len(plan[w]) >= 2 /\ Len(plan[w]) \in Nat
          BY <2>1, <4>1, <5>1
        <5>3. QED
          BY <2>1, <4>1, <5>2 DEF RunLike
      <4>7. QED
        BY <4>4, <4>5, <4>6
    <3>4. QED
      BY <3>1, <3>2, <3>3 DEF Advances
  <2>5. QED
    BY <2>3, <2>4
<1>5. QED
  BY <1>1, <1>3, <1>4 DEF IInv
\* Removals.
LEMMA RemoveFilesKeeps ==
    ASSUME IInv, NEW p \in Procs, RemoveFiles(p)
    PROVE  IInv'
<1> DEFINE j == section[p].job
<1>1. /\ TypeOK /\ ~Idle(p) /\ j \in Jobs /\ SectionInv(p) /\ section[p] \in Section
      /\ section[p].op \in {"purge", "wipe"}
  BY Inside DEF IInv, RemoveFiles, Idle, Outside
<1>2. UNCHANGED <<record, age, enqueued, faults, mode, todo, queue, job, at, plan, stopping>>
  BY DEF RemoveFiles, run
<1>3. /\ held' \in [LockNames -> Procs \cup {Nobody}]
      /\ section' \in [Procs -> Section \cup {Outside}]
      /\ \A q \in Procs \ {p} : section'[q] = section[q]
      /\ \A l \in LockNames : held[l] # p => held'[l] = held[l]
      /\ ~Idle(p)' => SectionInv(p)'
  <2>1. CASE Leave(p)
    BY <1>1, <2>1, Leaving DEF Idle
  <2>2. CASE ~Leave(p)
    <3> DEFINE op == IF section[p].op = "purge" THEN "delete" ELSE "expire"
    <3>1. section' = [section EXCEPT ![p].op = op] /\ held' = held
      BY <2>2 DEF RemoveFiles
    <3>2. [section[p] EXCEPT !.op = op] = [op |-> op, job |-> j, rec |-> section[p].rec]
      BY <1>1 DEF Section
    <3>3. section'[p] = [op |-> op, job |-> j, rec |-> section[p].rec]
      BY <1>1, <3>1, <3>2 DEF TypeOK
    <3>4. section'[p] \in Section
      BY <1>1, <3>3 DEF Section, Op
    <3>5. section' \in [Procs -> Section \cup {Outside}] /\ \A q \in Procs \ {p} : section'[q] = section[q]
      BY <1>1, <3>1, <3>3, <3>4 DEF TypeOK
    <3>6. p \notin Workers
      BY <1>1 DEF SectionInv
    <3>7. LocksOf(op, j) = LocksOf(section[p].op, j)
      BY <1>1 DEF LocksOf
    <3>8. op \in {"delete", "expire"}
      OBVIOUS
    <3> HIDE DEF op, j
    <3>9. SectionInv(p)'
      BY <1>1, <1>2, <3>1, <3>3, <3>6, <3>7, <3>8 DEF SectionInv, j
    <3>10. QED
      BY <1>1, <3>1, <3>5, <3>9 DEF TypeOK
  <2>3. QED
    BY <2>1, <2>2
<1>4. TypeOK'
  <2>1. files' \in [Jobs -> SUBSET {"input", "draft", "folder", "output"}]
    BY <1>1 DEF RemoveFiles, TypeOK
  <2>2. purged' \in [Jobs -> BOOLEAN]
    <3>1. (purged[j] \/ section[p].op = "purge") \in BOOLEAN
      BY <1>1 DEF TypeOK
    <3>2. QED
      BY <1>1, <3>1 DEF RemoveFiles, TypeOK
  <2>3. QED
    BY <1>1, <1>2, <1>3, <2>1, <2>2 DEF TypeOK
<1>5. ASSUME NEW q \in Procs, ~Idle(q)'
      PROVE  SectionInv(q)'
  <2>1. CASE q = p
    BY <1>3, <1>5, <2>1
  <2>2. CASE q # p
    <3>1. section'[q] = section[q] /\ SectionInv(q) /\ section[q].job \in Jobs
      BY <1>1, <1>3, <1>5, <2>2, Inside DEF IInv, Idle
    <3>2. \A l \in LocksOf(section[q].op, section[q].job) : held'[l] = q
      BY <1>3, <2>2, <3>1, LockFacts DEF SectionInv
    <3>3. QED
      BY <1>2, <3>1, <3>2 DEF SectionInv
  <2>3. QED
    BY <2>1, <2>2
<1>6. ASSUME NEW w \in Workers
      PROVE  WorkerLocks(w)' /\ RunLike(plan[w])' /\ RunStatus(w)'
  <2>1. w \in Procs /\ WorkerLocks(w) /\ RunLike(plan[w]) /\ RunStatus(w) /\ w # p
    BY <1>1 DEF IInv, Procs, SectionInv
  <2>2. SerialLock \in LockNames /\ (job[w] \in Jobs => ExecutionLock(job[w]) \in LockNames)
    BY DEF SerialLock, ExecutionLock, LockNames
  <2>3. WorkerLocks(w)'
    BY <1>2, <1>3, <2>1, <2>2 DEF WorkerLocks
  <2>4. QED
    BY <1>2, <1>3, <2>1, <2>3 DEF RunLike, RunStatus
<1>7. QED
  BY <1>4, <1>5, <1>6 DEF IInv

\* Interrupted sections.
LEMMA AbandonKeeps ==
    ASSUME IInv, NEW p \in Procs, Abandon(p)
    PROVE  IInv'
<1> DEFINE j == section[p].job
<1>1. TypeOK /\ ~Idle(p) /\ j \in Jobs /\ SectionInv(p)
  BY Inside DEF IInv, Abandon
<1>2. UNCHANGED <<age, enqueued, mode, todo, queue, job, at, plan, stopping>> /\ Leave(p)
  BY DEF Abandon, run
<1>3. record' = record \/ (section[p].op = "purge" /\ record' = [record EXCEPT ![j] = Gone])
  BY DEF Abandon, disk
<1>4. TypeOK'
  <2>1. record' \in [Jobs -> Record]
    <3>1. Gone \in Record
      BY DEF Gone, Record
    <3>2. QED
      BY <1>1, <1>3, <3>1 DEF TypeOK
  <2>2. files' \in [Jobs -> SUBSET {"input", "draft", "folder", "output"}]
    <3>1. \/ UNCHANGED files
          \/ files' \in {[files EXCEPT ![j] = left] : left \in SUBSET files[j]}
      BY DEF Abandon, disk
    <3>2. ASSUME NEW left \in SUBSET files[j], files' = [files EXCEPT ![j] = left]
          PROVE  files' \in [Jobs -> SUBSET {"input", "draft", "folder", "output"}]
      <4>1. left \in SUBSET {"input", "draft", "folder", "output"}
        BY <1>1 DEF TypeOK
      <4>2. QED
        BY <1>1, <3>2, <4>1 DEF TypeOK
    <3>3. QED
      BY <1>1, <3>1, <3>2 DEF TypeOK
  <2>3. purged' \in [Jobs -> BOOLEAN]
    <3>1. purged' = purged \/ purged' = [purged EXCEPT ![j] = TRUE]
      BY DEF Abandon
    <3>2. QED
      BY <1>1, <3>1 DEF TypeOK
  <2>4. faults' \in Nat
    BY <1>1 DEF Abandon, TypeOK
  <2>5. QED
    BY <1>1, <1>2, <2>1, <2>2, <2>3, <2>4, Leaving DEF TypeOK
<1>5. ASSUME NEW q \in Procs, ~Idle(q)'
      PROVE  SectionInv(q)'
  <2>1. q # p
    BY <1>1, <1>2, <1>5, Leaving DEF Idle
  <2>2. section'[q] = section[q] /\ ~Idle(q) /\ SectionInv(q) /\ section[q].job \in Jobs
    BY <1>1, <1>2, <1>5, <2>1, Leaving, Inside DEF IInv, Idle
  <2>3. section[q].job # j
    BY <1>1, <2>1, <2>2, OneSection
  <2>4. record'[section[q].job] = record[section[q].job]
    BY <1>1, <1>3, <2>2, <2>3 DEF TypeOK
  <2>5. \A l \in LocksOf(section[q].op, section[q].job) : held'[l] = q
    BY <1>1, <1>2, <2>1, <2>2, LockFacts, Leaving DEF SectionInv
  <2> HIDE DEF j
  <2>6. QED
    BY <1>2, <2>2, <2>4, <2>5 DEF SectionInv
<1>6. ASSUME NEW w \in Workers
      PROVE  WorkerLocks(w)' /\ RunLike(plan[w])' /\ RunStatus(w)'
  <2>1. w \in Procs /\ WorkerLocks(w) /\ RunLike(plan[w]) /\ RunStatus(w)
    BY DEF IInv, Procs
  <2>2. SerialLock \in LockNames /\ (job[w] \in Jobs => ExecutionLock(job[w]) \in LockNames)
    BY DEF SerialLock, ExecutionLock, LockNames
  <2>3. WorkerLocks(w)'
    BY <1>1, <1>2, <2>1, <2>2, Leaving DEF WorkerLocks
  <2>4. RunStatus(w)'
    <3>1. SUFFICES ASSUME mode[w] \in {"run", "handler"}, plan[w] # << >>
                   PROVE  /\ record'[job[w]].status = at[w]
                          /\ at[w] \in Processing \/ (at[w] = "QUEUED" /\ section'[w].op = "advance")
      BY <1>2 DEF RunStatus
    <3>2. job[w] \in Jobs /\ (section[w].op = "advance" => w # p)
      BY <1>1, <2>1, <3>1, Distinct DEF WorkerLocks, Abandon
    <3>3. record'[job[w]] = record[job[w]]
      <4>1. SUFFICES ASSUME section[p].op = "purge", job[w] = j
                     PROVE  FALSE
        BY <1>1, <1>3, <3>2 DEF TypeOK
      <4>2. w # p
        BY <1>1, <4>1 DEF SectionInv
      <4>3. QED
        BY <1>1, <3>1, <4>1, <4>2, RunExcludes
    <3>4. QED
      BY <1>1, <1>2, <2>1, <3>1, <3>2, <3>3, Leaving DEF RunStatus
  <2>5. QED
    BY <1>2, <2>1, <2>3, <2>4 DEF RunLike
<1>7. QED
  BY <1>4, <1>5, <1>6 DEF IInv
-------------------------------------------------------------------------------
(***************************************************************************)
(* Steps of a worker between its sections.                                 *)
(***************************************************************************)
LEMMA TickBeginKeeps ==
    ASSUME IInv, NEW w \in Workers, TickBegin(w)
    PROVE  IInv'
<1>1. w \in Procs /\ TypeOK /\ WorkerLocks(w) /\ RunLike(plan[w]) /\ SerialLock \in LockNames
  BY DEF Procs, IInv, SerialLock, LockNames
<1>2. Idle(w)
  BY <1>1 DEF IInv, SectionInv, TickBegin
<1>3. held' = [l \in LockNames |-> IF l \in {SerialLock} THEN w ELSE held[l]] /\ held[SerialLock] = Nobody
  BY DEF TickBegin, Take, AllFree
<1>4. TypeOK'
  <2>1. {j \in Jobs : Exists(j)} \in SUBSET Jobs
    OBVIOUS
  <2>2. todo' \in [Procs -> SUBSET Jobs]
    BY <1>1, <2>1 DEF TickBegin, TypeOK
  <2>3. mode' \in [Procs -> {"idle", "collect", "scan", "run", "handler"}]
    BY <1>1 DEF TickBegin, TypeOK
  <2>4. held' \in [LockNames -> Procs \cup {Nobody}]
    BY <1>1, <1>3 DEF TypeOK
  <2>5. QED
    BY <1>1, <2>2, <2>3, <2>4 DEF TickBegin, TypeOK, disk, clock, run
<1>5. mode'[w] = "collect" /\ \A q \in Procs \ {w} : mode'[q] = mode[q]
  BY <1>1 DEF TickBegin, TypeOK
<1>6. UNCHANGED <<record, section, job, at, plan>>
  BY DEF TickBegin, disk, run
<1>7. WorkerLocks(w)' /\ RunLike(plan[w])' /\ RunStatus(w)'
  BY <1>1, <1>3, <1>5, <1>6 DEF WorkerLocks, RunLike, RunStatus, TickBegin
<1>8. \A l \in LockNames : held[l] \notin {w, Nobody} => held'[l] = held[l]
  BY <1>1, <1>3
<1>9. QED
  BY <1>2, <1>4, <1>5, <1>6, <1>7, <1>8, OwnStepKeeps, Zenon DEF Idle

LEMMA ListQueueKeeps ==
    ASSUME IInv, NEW w \in Workers, ListQueue(w)
    PROVE  IInv'
<1>1. w \in Procs /\ TypeOK /\ WorkerLocks(w) /\ RunLike(plan[w])
  BY DEF Procs, IInv
<1>2. TypeOK'
  <2>1. Listing \in SUBSET [job : Jobs, queued : Nat]
    BY <1>1 DEF Listing, TypeOK, Record
  <2>2. queue' \in [Workers -> SUBSET [job : Jobs, queued : Nat]]
    BY <1>1, <2>1 DEF ListQueue, TypeOK
  <2>3. todo' \in [Procs -> SUBSET Jobs]
    BY <1>1 DEF ListQueue, TypeOK
  <2>4. mode' \in [Procs -> {"idle", "collect", "scan", "run", "handler"}]
    BY <1>1 DEF ListQueue, TypeOK
  <2>5. QED
    BY <1>1, <2>2, <2>3, <2>4 DEF ListQueue, TypeOK, disk, clock
<1>3. mode'[w] = "scan" /\ \A q \in Procs \ {w} : mode'[q] = mode[q]
  BY <1>1 DEF ListQueue, TypeOK
<1>4. UNCHANGED <<record, held, section, job, at, plan>> /\ section[w] = Outside
  BY DEF ListQueue, disk, Idle
<1>5. WorkerLocks(w)' /\ RunLike(plan[w])' /\ RunStatus(w)'
  BY <1>1, <1>3, <1>4 DEF WorkerLocks, RunLike, RunStatus, ListQueue
<1>6. QED
  BY <1>2, <1>3, <1>4, <1>5, OwnStepKeeps DEF Idle

LEMMA BeginRunKeeps ==
    ASSUME IInv, NEW w \in Workers, NEW j \in Jobs, BeginRun(w, j)
    PROVE  IInv'
<1> DEFINE L == {ExecutionLock(j), StateLock(j)}
<1>1. w \in Procs /\ TypeOK /\ WorkerLocks(w) /\ Nobody \notin Procs /\ L \in SUBSET LockNames /\ "advance" \in Op
  BY Distinct DEF Procs, IInv, LockNames, StateLock, ExecutionLock, Op
<1>2. PICK e \in queue[w] :
        /\ AtQueue(w, e)
        /\ record[j].status = "QUEUED"
        /\ Enter(w, "advance", j, L)
        /\ mode' = [mode EXCEPT ![w] = "run"]
        /\ queue' = [queue EXCEPT ![w] = @ \ {e}]
        /\ job' = [job EXCEPT ![w] = j]
        /\ at' = [at EXCEPT ![w] = "QUEUED"]
        /\ \E p \in Plans(RequestOf[j], record[j].ready) : plan' = [plan EXCEPT ![w] = p]
        /\ UNCHANGED <<disk, clock, todo, stopping>>
  BY DEF BeginRun
<1>3. PICK p \in Plans(RequestOf[j], record[j].ready) : plan' = [plan EXCEPT ![w] = p]
  BY <1>2
<1>4. p \in Seq(Status) /\ p # << >> /\ RunLike(p)
  <2>1. RequestOf[j] \in Request /\ record[j].ready \in BOOLEAN
    BY <1>1, Requests DEF TypeOK, Record
  <2>2. QED
    BY <1>3, <2>1, PlansAreRuns
<1>5. /\ held' \in [LockNames -> Procs \cup {Nobody}]
      /\ section' \in [Procs -> Section \cup {Outside}]
      /\ section'[w] = [op |-> "advance", job |-> j, rec |-> record[j]]
      /\ \A q \in Procs \ {w} : section'[q] = section[q]
      /\ \A l \in L : held'[l] = w
      /\ \A l \in LockNames : held[l] # Nobody => held'[l] = held[l]
  BY <1>1, <1>2, Entering
<1> HIDE DEF L
<1>6. /\ mode'[w] = "run" /\ job'[w] = j /\ at'[w] = "QUEUED" /\ plan'[w] = p
      /\ \A q \in Procs \ {w} : mode'[q] = mode[q]
      /\ \A v \in Workers \ {w} : job'[v] = job[v] /\ at'[v] = at[v] /\ plan'[v] = plan[v]
      /\ record' = record
  BY <1>1, <1>2, <1>3 DEF TypeOK, disk
<1>7. TypeOK'
  <2>1. queue' \in [Workers -> SUBSET [job : Jobs, queued : Nat]]
    BY <1>1, <1>2 DEF TypeOK
  <2>2. plan' \in [Workers -> Seq(Status)]
    BY <1>1, <1>3, <1>4 DEF TypeOK
  <2>3. at' \in [Workers -> Status \cup {"none"}]
    BY <1>1, <1>2 DEF TypeOK, Status
  <2>4. mode' \in [Procs -> {"idle", "collect", "scan", "run", "handler"}] /\ job' \in [Workers -> Jobs \cup {NoJob}]
    BY <1>1, <1>2 DEF TypeOK
  <2>5. UNCHANGED <<record, files, age, purged, enqueued, faults, todo, stopping>>
    BY <1>2 DEF disk, clock
  <2>6. QED
    BY <1>1, <1>5, <2>1, <2>2, <2>3, <2>4, <2>5 DEF TypeOK
<1>8. SectionInv(w)'
  <2>1. LocksOf("advance", j) \subseteq L
    BY DEF LocksOf, L
  <2>2. QED
    BY <1>2, <1>4, <1>5, <1>6, <2>1 DEF SectionInv
<1>9. WorkerLocks(w)'
  <2>1. held[SerialLock] = w /\ SerialLock \in LockNames
    BY <1>1, <1>2 DEF WorkerLocks, AtQueue, SerialLock, LockNames
  <2>2. ExecutionLock(j) \in L
    BY DEF L
  <2>3. QED
    BY <1>1, <1>5, <1>6, <2>1, <2>2 DEF WorkerLocks
<1>10. RunLike(plan[w])' /\ RunStatus(w)'
  BY <1>2, <1>4, <1>5, <1>6 DEF RunLike, RunStatus
<1>11. QED
  BY <1>1, <1>5, <1>6, <1>7, <1>8, <1>9, <1>10, OwnStepKeeps

LEMMA SkipJobKeeps ==
    ASSUME IInv, NEW w \in Workers, SkipJob(w)
    PROVE  IInv'
<1>1. queue' \in [Workers -> SUBSET [job : Jobs, queued : Nat]]
  BY DEF SkipJob, IInv, TypeOK
<1>2. UNCHANGED <<disk, clock, held, section, mode, todo, job, at, plan, stopping>>
  BY DEF SkipJob
<1>3. TypeOK'
  BY <1>1, <1>2 DEF IInv, TypeOK, disk, clock
<1>4. QED
  BY <1>2, <1>3, QuietKeeps DEF disk

\* A worker that is in no section afterwards, has released locks only, and is
\* either outside any run or where it was in one.
LEMMA ReleaseKeeps ==
    ASSUME IInv, NEW w \in Workers, NEW keep, held' = Released(w, keep),
           record' = record, TypeOK', section'[w] = Outside,
           \A q \in Procs \ {w} : section'[q] = section[q] /\ mode'[q] = mode[q],
           \A v \in Workers \ {w} : job'[v] = job[v] /\ at'[v] = at[v] /\ plan'[v] = plan[v],
           mode'[w] # "idle" => mode[w] # "idle" /\ SerialLock \in keep,
           \/ mode'[w] \notin {"run", "handler"} /\ job'[w] = NoJob /\ plan'[w] = << >>
           \/ /\ mode'[w] \in {"run", "handler"} /\ mode[w] \in {"run", "handler"}
              /\ job'[w] = job[w] /\ at'[w] = at[w] /\ plan'[w] = plan[w]
              /\ ExecutionLock(job[w]) \in keep
              /\ at[w] # "QUEUED"
    PROVE  IInv'
<1>1. w \in Procs /\ TypeOK /\ WorkerLocks(w) /\ RunLike(plan[w]) /\ RunStatus(w) /\ SerialLock \in LockNames
  BY DEF Procs, IInv, SerialLock, LockNames
<1>2. /\ \A l \in LockNames : held[l] # w => held'[l] = held[l]
      /\ \A l \in LockNames : l \in keep => held'[l] = held[l]
  BY <1>1, Releasing
<1>3. job[w] \in Jobs => ExecutionLock(job[w]) \in LockNames
  BY DEF ExecutionLock, LockNames
<1>4. WorkerLocks(w)' /\ RunLike(plan[w])' /\ RunStatus(w)'
  <2>1. CASE mode'[w] \notin {"run", "handler"} /\ job'[w] = NoJob /\ plan'[w] = << >>
    BY <1>1, <1>2, <2>1 DEF WorkerLocks, RunLike, RunStatus
  <2>2. CASE /\ mode'[w] \in {"run", "handler"} /\ mode[w] \in {"run", "handler"}
             /\ job'[w] = job[w] /\ at'[w] = at[w] /\ plan'[w] = plan[w]
             /\ ExecutionLock(job[w]) \in keep
             /\ at[w] # "QUEUED"
    BY <1>1, <1>2, <1>3, <2>2 DEF WorkerLocks, RunLike, RunStatus
  <2>3. QED
    BY <2>1, <2>2
<1>5. QED
  BY <1>2, <1>4, OwnStepKeeps, Zenon DEF Idle

LEMMA TickEndKeeps ==
    ASSUME IInv, NEW w \in Workers, TickEnd(w)
    PROVE  IInv'
<1>1. w \in Procs /\ TypeOK /\ WorkerLocks(w) /\ mode[w] = "scan"
  BY DEF Procs, IInv, TickEnd
<1>2. Idle(w)
  BY <1>1 DEF IInv, SectionInv
<1>3. UNCHANGED <<disk, clock, section, todo, job, at, plan, stopping>> /\ held' = Released(w, {})
  BY DEF TickEnd
<1>4. mode'[w] = "idle" /\ \A q \in Procs \ {w} : mode'[q] = mode[q]
  BY <1>1 DEF TickEnd, TypeOK
<1>5. TypeOK'
  <2>1. queue' \in [Workers -> SUBSET [job : Jobs, queued : Nat]]
    BY <1>1 DEF TickEnd, TypeOK
  <2>2. mode' \in [Procs -> {"idle", "collect", "scan", "run", "handler"}]
    BY <1>1 DEF TickEnd, TypeOK
  <2>3. held' \in [LockNames -> Procs \cup {Nobody}]
    BY <1>1, <1>3, Releasing
  <2>4. QED
    BY <1>1, <1>3, <2>1, <2>2, <2>3 DEF TypeOK, disk, clock
<1>6. QED
  BY <1>1, <1>2, <1>3, <1>4, <1>5, ReleaseKeeps DEF Idle, disk, WorkerLocks

LEMMA RaiseKeeps ==
    ASSUME IInv, NEW w \in Workers, Raise(w)
    PROVE  IInv'
<1>1. w \in Procs /\ TypeOK /\ mode[w] = "run" /\ at[w] # "QUEUED"
  BY DEF Procs, IInv, Raise, Running
<1>2. UNCHANGED <<disk, clock, todo, run>> /\ Leave(w)
  BY DEF Raise
<1>3. mode'[w] = "handler" /\ \A q \in Procs \ {w} : mode'[q] = mode[q]
  BY <1>1 DEF Raise, TypeOK
<1>4. TypeOK'
  <2>1. mode' \in [Procs -> {"idle", "collect", "scan", "run", "handler"}]
    BY <1>1 DEF Raise, TypeOK
  <2>2. QED
    BY <1>1, <1>2, <2>1, Leaving DEF TypeOK, disk, clock, run
<1>5. /\ held' = Released(w, {SerialLock, ExecutionLock(job[w])})
      /\ section'[w] = Outside
      /\ \A q \in Procs \ {w} : section'[q] = section[q]
  BY <1>1, <1>2, Leaving DEF Leave, Kept
<1>6. QED
  BY <1>1, <1>2, <1>3, <1>4, <1>5, ReleaseKeeps DEF disk, run

LEMMA EndRunKeeps ==
    ASSUME IInv, NEW w \in Workers, EndRun(w)
    PROVE  IInv'
<1>1. w \in Procs /\ TypeOK /\ mode[w] \in {"run", "handler"} /\ section[w] = Outside /\ plan[w] = << >>
  BY DEF Procs, IInv, EndRun, Idle
<1>2. UNCHANGED <<disk, clock, section, todo, queue, plan, stopping>> /\ held' = Released(w, {SerialLock})
  BY DEF EndRun
<1>3. mode'[w] = "scan" /\ \A q \in Procs \ {w} : mode'[q] = mode[q]
  BY <1>1 DEF EndRun, TypeOK
<1>4. job'[w] = NoJob /\ \A v \in Workers \ {w} : job'[v] = job[v] /\ at'[v] = at[v]
  BY <1>1 DEF EndRun, TypeOK
<1>5. TypeOK'
  <2>1. mode' \in [Procs -> {"idle", "collect", "scan", "run", "handler"}]
    BY <1>1 DEF EndRun, TypeOK
  <2>2. job' \in [Workers -> Jobs \cup {NoJob}] /\ at' \in [Workers -> Status \cup {"none"}]
    BY <1>1 DEF EndRun, TypeOK
  <2>3. held' \in [LockNames -> Procs \cup {Nobody}]
    BY <1>1, <1>2, Releasing
  <2>4. QED
    BY <1>1, <1>2, <2>1, <2>2, <2>3 DEF TypeOK, disk, clock
<1>6. QED
  BY <1>1, <1>2, <1>3, <1>4, <1>5, ReleaseKeeps DEF disk
\* The sections of a run.
LEMMA RunStepKeeps ==
    ASSUME IInv, NEW w \in Workers, Advance(w) \/ Beat(w) \/ Handle(w)
    PROVE  IInv'
<1> DEFINE j == job[w]
           L == {StateLock(j)}
<1>1. w \in Procs /\ TypeOK /\ WorkerLocks(w) /\ RunStatus(w)
  BY DEF Procs, IInv
<1>2. mode[w] \in {"run", "handler"} /\ plan[w] # << >>
  BY DEF Advance, Beat, Handle, Running
<1>3. j \in Jobs /\ record[j].status \in Processing \cup {"QUEUED"}
  BY <1>1, <1>2 DEF WorkerLocks, RunStatus
<1>4. record[j].status # "ABSENT"
  BY <1>3 DEF Processing
<1>5. PICK op \in {"advance", "beat", "fail"} :
        /\ Enter(w, op, j, L)
        /\ UNCHANGED <<disk, clock, mode, todo, run>>
        /\ IF op = "fail" THEN mode[w] = "handler" ELSE mode[w] = "run"
  BY DEF Advance, Beat, Handle, Running
<1>6. L \in SUBSET LockNames /\ LocksOf(op, j) \subseteq L /\ op \in Op
  BY <1>3, <1>5 DEF LockNames, StateLock, LocksOf, Op
<1> HIDE DEF L
<1>7. todo' \in [Procs -> SUBSET Jobs]
  BY <1>1, <1>5 DEF TypeOK
<1>8. IF w \in Workers
      THEN \/ mode[w] = "collect" /\ op = "recover"
           \/ mode[w] = "run" /\ op \in {"advance", "beat"} /\ j = job[w] /\ plan[w] # << >>
           \/ mode[w] = "handler" /\ op = "fail" /\ j = job[w] /\ plan[w] # << >>
      ELSE op \notin {"advance", "beat", "fail"}
  BY <1>2, <1>5
<1> HIDE DEF j
<1>9. op \notin {"create", "admit", "complete", "start"}
  BY <1>5
<1>10. QED
  BY <1>1, <1>3, <1>4, <1>5, <1>6, <1>7, <1>8, <1>9, EnterKeeps

\* Leaving the tick altogether.
LEMMA ResetKeeps ==
    ASSUME IInv, NEW w \in Workers, TickFails(w) \/ Crash(w)
    PROVE  IInv'
<1>1. w \in Procs /\ TypeOK
  BY DEF Procs, IInv
<1>2. Reset(w) /\ UNCHANGED <<disk, age, purged, enqueued>>
  BY DEF TickFails, Crash
<1>3. /\ mode'[w] = "idle" /\ section'[w] = Outside /\ job'[w] = NoJob /\ plan'[w] = << >>
      /\ held' = Released(w, {})
      /\ \A q \in Procs \ {w} : section'[q] = section[q] /\ mode'[q] = mode[q]
      /\ \A v \in Workers \ {w} : job'[v] = job[v] /\ at'[v] = at[v] /\ plan'[v] = plan[v]
  BY <1>1, <1>2 DEF Reset, TypeOK
<1>4. TypeOK'
  <2>1. held' \in [LockNames -> Procs \cup {Nobody}]
    BY <1>1, <1>3, Releasing
  <2>2. section' \in [Procs -> Section \cup {Outside}]
    BY <1>1, <1>2 DEF Reset, TypeOK
  <2>3. mode' \in [Procs -> {"idle", "collect", "scan", "run", "handler"}] /\ todo' \in [Procs -> SUBSET Jobs]
    BY <1>1, <1>2 DEF Reset, TypeOK
  <2>4. queue' \in [Workers -> SUBSET [job : Jobs, queued : Nat]] /\ job' \in [Workers -> Jobs \cup {NoJob}]
    BY <1>1, <1>2 DEF Reset, TypeOK
  <2>5. << >> \in Seq(Status)
    OBVIOUS
  <2>6. at' \in [Workers -> Status \cup {"none"}] /\ plan' \in [Workers -> Seq(Status)]
    BY <1>1, <1>2, <2>5 DEF Reset, TypeOK
  <2>7. faults' \in Nat /\ stopping' \in [Workers -> BOOLEAN]
    <3>1. CASE TickFails(w)
      BY <1>1, <3>1 DEF TickFails, TypeOK
    <3>2. CASE Crash(w)
      BY <1>1, <3>2 DEF Crash, TypeOK
    <3>3. QED
      BY <3>1, <3>2
  <2>8. QED
    BY <1>1, <1>2, <2>1, <2>2, <2>3, <2>4, <2>6, <2>7 DEF TypeOK, disk
<1>5. QED
  BY <1>2, <1>3, <1>4, ReleaseKeeps DEF disk

LEMMA SignalKeeps ==
    ASSUME IInv, NEW w \in Workers, Stop(w) \/ Restart(w)
    PROVE  IInv'
<1>1. w \in Procs /\ TypeOK
  BY DEF Procs, IInv
<1>2. UNCHANGED <<disk, held, age, purged, enqueued, section, mode, todo, queue, job, at, plan>>
  BY DEF Stop, Restart, clock
<1>3. stopping' \in [Workers -> BOOLEAN] /\ faults' \in Nat
  <2>1. CASE Stop(w)
    BY <1>1, <2>1 DEF Stop, TypeOK
  <2>2. CASE Restart(w)
    BY <1>1, <2>2 DEF Restart, clock, TypeOK
  <2>3. QED
    BY <2>1, <2>2
<1>4. TypeOK'
  BY <1>1, <1>2, <1>3 DEF TypeOK, disk
<1>5. QED
  BY <1>2, <1>4, QuietKeeps DEF disk

-------------------------------------------------------------------------------
(***************************************************************************)
(* The invariant and what follows from it.                                 *)
(***************************************************************************)
\* No process holds a lock, is in a section or in a run when the system starts.
LEMMA IInvInit == Init => IInv
<1> SUFFICES ASSUME Init
             PROVE  IInv
  OBVIOUS
<1>1. Unborn \in Record
  BY DEF Unborn, Record
<1>2. << >> \in Seq(Status) /\ Workers \subseteq Procs
  BY DEF Procs
<1>3. TypeOK
  BY <1>1, <1>2 DEF Init, TypeOK
<1>4. \A p \in Procs : Idle(p)
  BY DEF Init, Idle
<1>5. \A w \in Workers : WorkerLocks(w) /\ RunLike(plan[w]) /\ RunStatus(w)
  BY <1>2 DEF Init, WorkerLocks, RunLike, RunStatus
<1>6. QED
  BY <1>3, <1>4, <1>5 DEF IInv

\* Every step keeps it.
LEMMA IInvStep == IInv /\ [Next]_vars => IInv'
<1> SUFFICES ASSUME IInv, [Next]_vars
             PROVE  IInv'
  OBVIOUS
<1>1. CASE UNCHANGED vars
  <2>1. TypeOK'
    BY <1>1 DEF IInv, TypeOK, vars
  <2>2. QED
    BY <1>1, <2>1, QuietKeeps DEF vars
<1>2. ASSUME NEW c \in Clients, ClientStep(c)
      PROVE  IInv'
  BY <1>2, ClientKeeps
<1>3. ASSUME NEW p \in Collectors, BatchBegin(p) \/ BatchEnd(p)
      PROVE  IInv'
  BY <1>3, BatchKeeps
<1>4. ASSUME NEW p \in Workers \cup Collectors, CollectStep(p)
      PROVE  IInv'
  BY <1>4, CollectKeeps
<1>5. ASSUME NEW w \in Workers, WorkerStep(w)
      PROVE  IInv'
  <2>1. CASE TickBegin(w)
    BY <2>1, TickBeginKeeps
  <2>2. CASE ListQueue(w)
    BY <2>2, ListQueueKeeps
  <2>3. ASSUME NEW j \in Jobs, BeginRun(w, j)
        PROVE  IInv'
    BY <2>3, BeginRunKeeps
  <2>4. CASE SkipJob(w)
    BY <2>4, SkipJobKeeps
  <2>5. CASE TickEnd(w)
    BY <2>5, TickEndKeeps
  <2>6. CASE Advance(w) \/ Beat(w) \/ Handle(w)
    BY <2>6, RunStepKeeps
  <2>7. CASE Raise(w)
    BY <2>7, RaiseKeeps
  <2>8. CASE EndRun(w)
    BY <2>8, EndRunKeeps
  <2>9. QED
    BY <1>5, <2>1, <2>2, <2>3, <2>4, <2>5, <2>6, <2>7, <2>8 DEF WorkerStep
<1>6. ASSUME NEW w \in Workers, TickFails(w) \/ Stop(w) \/ Restart(w) \/ Crash(w)
      PROVE  IInv'
  BY <1>6, ResetKeeps, SignalKeeps
<1>7. ASSUME NEW p \in Procs, SectionStep(p) \/ Abandon(p)
      PROVE  IInv'
  BY <1>7, SaveKeeps, RemoveFilesKeeps, AbandonKeeps DEF SectionStep
<1>8. ASSUME NEW j \in Jobs, Age(j)
      PROVE  IInv'
  BY <1>8, AgeKeeps
<1>9. QED
  BY <1>1, <1>2, <1>3, <1>4, <1>5, <1>6, <1>7, <1>8 DEF Next

\* The inductive invariant holds in every reachable state.
THEOREM Invariance == Spec => []IInv
<1>1. Init => IInv
  BY IInvInit
<1>2. IInv /\ [Next]_vars => IInv'
  BY IInvStep
<1>3. QED
  BY <1>1, <1>2, PTL DEF Spec

\* Every variable keeps its type.
THEOREM TypeCorrectness == Spec => []TypeOK
<1>1. IInv => TypeOK
  BY DEF IInv
<1>2. QED
  BY <1>1, Invariance, PTL

\* No read-modify-write of a job record works on a stale reading, whatever
\* handlers, batches and workers run beside it.
THEOREM NoStaleReading == Spec => []FreshReading
<1>1. IInv => FreshReading
  BY DEF IInv, SectionInv, FreshReading
<1>2. QED
  BY <1>1, Invariance, PTL

\* A live run finds its job in the status it wrote last.
THEOREM RunsOwnTheirRecords == Spec => []RunOwnsRecord
<1>1. IInv => RunOwnsRecord
  BY DEF IInv, RunStatus, RunOwnsRecord
<1>2. QED
  BY <1>1, Invariance, PTL

\* At most one worker of an installation is in a run.
THEOREM RunsAreSerial == Spec => []OneRun
<1>1. IInv => OneRun
  <2>1. SUFFICES ASSUME IInv, NEW v \in Workers, NEW w \in Workers, job[v] # NoJob, job[w] # NoJob
                 PROVE  v = w
    BY DEF OneRun
  <2>2. held[SerialLock] = v /\ held[SerialLock] = w
    BY <2>1 DEF IInv, WorkerLocks
  <2>3. QED
    BY <2>2
<1>2. QED
  BY <1>1, Invariance, PTL


-------------------------------------------------------------------------------
(***************************************************************************)
(* The order of a run.                                                     *)
(***************************************************************************)
\* Stages that follow one another.
Rising(s) == \A i \in 1 .. Len(s) - 1 : Contract!Progress[s[i]] <= Contract!Progress[s[i + 1]]

LEMMA StageNumbers == \A s \in Processing : Contract!Progress[s] \in 1 .. 9
BY DEF Processing, Contract!Progress

LEMMA RisingConcat ==
    ASSUME NEW s \in Seq(Processing), NEW t \in Seq(Processing), Rising(s), Rising(t),
           s # << >> /\ t # << >> => Contract!Progress[s[Len(s)]] <= Contract!Progress[t[1]]
    PROVE  s \o t \in Seq(Processing) /\ Rising(s \o t)
<1>1. s \o t \in Seq(Processing) /\ Len(s \o t) = Len(s) + Len(t) /\ Len(s) \in Nat /\ Len(t) \in Nat
  OBVIOUS
<1>2. ASSUME NEW i \in 1 .. Len(s \o t) - 1
      PROVE  Contract!Progress[(s \o t)[i]] <= Contract!Progress[(s \o t)[i + 1]]
  <2>1. CASE i < Len(s)
    <3>1. (s \o t)[i] = s[i] /\ (s \o t)[i + 1] = s[i + 1] /\ i \in 1 .. Len(s) - 1
      BY <1>1, <2>1
    <3>2. QED
      BY <3>1 DEF Rising
  <2>2. CASE i = Len(s)
    <3>1. (s \o t)[i] = s[Len(s)] /\ (s \o t)[i + 1] = t[1] /\ s # << >> /\ t # << >>
      BY <1>1, <2>2
    <3>2. QED
      BY <3>1
  <2>3. CASE i > Len(s)
    <3>1. /\ (s \o t)[i] = t[i - Len(s)] /\ (s \o t)[i + 1] = t[i + 1 - Len(s)]
          /\ i - Len(s) \in 1 .. Len(t) - 1 /\ i + 1 - Len(s) = (i - Len(s)) + 1
      BY <1>1, <2>3
    <3>2. QED
      BY <3>1 DEF Rising
  <2>4. QED
    BY <1>1, <2>1, <2>2, <2>3
<1>3. QED
  BY <1>1, <1>2 DEF Rising

\* The first and the last of two parts.
LEMMA EndsOfConcat ==
    ASSUME NEW s \in Seq(Processing), NEW t \in Seq(Processing), t # << >>
    PROVE  /\ s \o t # << >> /\ Len(s \o t) \in Nat \ {0}
           /\ (s \o t)[Len(s \o t)] = t[Len(t)]
           /\ (s \o t)[1] = IF s = << >> THEN t[1] ELSE s[1]
<1>1. Len(s) \in Nat /\ Len(t) \in Nat \ {0} /\ Len(s \o t) = Len(s) + Len(t)
  OBVIOUS
<1>2. (s \o t)[Len(s \o t)] = t[Len(t)]
  BY <1>1
<1>3. CASE s = << >>
  BY <1>1, <1>2, <1>3
<1>4. CASE s # << >>
  <2>1. Len(s) >= 1
    BY <1>1, <1>4
  <2>2. QED
    BY <1>1, <1>2, <1>4, <2>1
<1>5. QED
  BY <1>3, <1>4

\* Stages in their order, and then one of the two ends.
LEMMA ForwardConcat ==
    ASSUME NEW s \in Seq(Processing), Rising(s), NEW t \in Seq(Status), Forward(t), t # << >>,
           s # << >> => Onward(s[Len(s)], t[1])
    PROVE  Forward(s \o t) /\ s \o t # << >> /\ (s # << >> => Head(s \o t) = s[1])
<1>1. /\ s \o t \in Seq(Status) /\ Len(s \o t) = Len(s) + Len(t) /\ Len(s) \in Nat /\ Len(t) \in Nat \ {0}
      /\ s \o t # << >>
  BY DEF Status
<1>2. ASSUME NEW i \in 1 .. Len(s \o t) - 1
      PROVE  Onward((s \o t)[i], (s \o t)[i + 1])
  <2>1. CASE i < Len(s)
    <3>1. (s \o t)[i] = s[i] /\ (s \o t)[i + 1] = s[i + 1] /\ i \in 1 .. Len(s) - 1
      BY <1>1, <2>1
    <3>2. QED
      BY <3>1 DEF Rising, Onward
  <2>2. CASE i = Len(s)
    <3>1. (s \o t)[i] = s[Len(s)] /\ (s \o t)[i + 1] = t[1] /\ s # << >>
      BY <1>1, <2>2
    <3>2. QED
      BY <3>1
  <2>3. CASE i > Len(s)
    <3>1. /\ (s \o t)[i] = t[i - Len(s)] /\ (s \o t)[i + 1] = t[i + 1 - Len(s)]
          /\ i - Len(s) \in 1 .. Len(t) - 1 /\ i + 1 - Len(s) = (i - Len(s)) + 1
      BY <1>1, <2>3
    <3>2. QED
      BY <3>1 DEF Forward
  <2>4. QED
    BY <1>1, <2>1, <2>2, <2>3
<1>3. (s \o t)[Len(s \o t)] = t[Len(t)]
  BY <1>1
<1>4. s # << >> => Head(s \o t) = s[1]
  BY <1>1
<1>5. QED
  BY <1>1, <1>2, <1>3, <1>4 DEF Forward

\* The stages before the subtitles are written, in their order.
LEMMA TextRises ==
    ASSUME NEW q \in Request, NEW r \in BOOLEAN, NEW t \in TextStages(q, r)
    PROVE  /\ t \in Seq(Processing) /\ Rising(t)
           /\ t # << >> => Contract!Progress[t[1]] >= 2 /\ Contract!Progress[t[Len(t)]] <= 6
<1> DEFINE P == Contract!Progress
           recognise == <<"PREPROCESSING_AUDIO", "PREPROCESSING_AUDIO", "TRANSCRIBING", "FILTERING_TRANSCRIPT">>
           extract == <<"EXTRACTING_AUDIO">>
           filter == <<"FILTERING_TRANSCRIPT">>
           Fine(s) == /\ s \in Seq(Processing) /\ Rising(s)
                      /\ s # << >> => P[s[1]] >= 2 /\ P[s[Len(s)]] <= 5
<1>1. Fine(<< >>) /\ Fine(filter)
  BY DEF Rising, Processing, Contract!Progress
<1>2. Fine(recognise)
  BY DEF Rising, Processing, Contract!Progress
<1>3. Fine(extract \o recognise)
  <2>1. /\ extract \in Seq(Processing) /\ Rising(extract) /\ extract # << >> /\ Len(extract) = 1
        /\ extract[1] = "EXTRACTING_AUDIO" /\ P["EXTRACTING_AUDIO"] = 2
        /\ recognise # << >> /\ recognise[1] = "PREPROCESSING_AUDIO" /\ P["PREPROCESSING_AUDIO"] = 3
    BY DEF Rising, Processing, Contract!Progress
  <2> HIDE DEF extract, recognise, P
  <2>2. extract \o recognise \in Seq(Processing) /\ Rising(extract \o recognise)
    BY <1>2, <2>1, RisingConcat DEF P
  <2>3. /\ (extract \o recognise)[1] = "EXTRACTING_AUDIO"
        /\ (extract \o recognise)[Len(extract \o recognise)] = recognise[Len(recognise)]
    BY <1>2, <2>1, EndsOfConcat
  <2>4. QED
    BY <1>2, <2>1, <2>2, <2>3
<1>4. CASE t = << >>
  BY <1>4, <1>1
<1>5. CASE t # << >>
  <2>1. PICK u \in Transcribing(q) : t = u \o Translating(q)
    BY <1>5 DEF TextStages
  <2>2. u \in {<< >>, filter, recognise, extract \o recognise}
    BY Zenon DEF Transcribing
  <2>3. Fine(u)
    BY <1>1, <1>2, <1>3, <2>2, Zenon
  <2>4. CASE Translating(q) = << >>
    <3>1. t = u
      BY <2>1, <2>3, <2>4
    <3>2. Len(u) \in Nat \ {0} /\ u[Len(u)] \in Processing
      BY <1>5, <3>1, <2>3
    <3>3. P[u[Len(u)]] \in 1 .. 9
      BY <3>2, StageNumbers
    <3>4. QED
      BY <2>3, <3>1, <3>3, <1>5
  <2>5. CASE Translating(q) = <<"TRANSLATING">>
    <3> DEFINE v == <<"TRANSLATING">>
    <3>1. v \in Seq(Processing) /\ Rising(v) /\ v # << >> /\ v[1] = "TRANSLATING" /\ Len(v) = 1 /\ P["TRANSLATING"] = 6
      BY DEF Rising, Processing, Contract!Progress
    <3> HIDE DEF v, P
    <3>2. t = u \o v
      BY <2>1, <2>5 DEF v
    <3>3. u # << >> => P[u[Len(u)]] \in 1 .. 9
      BY <2>3, StageNumbers DEF P
    <3>4. u # << >> /\ v # << >> => P[u[Len(u)]] <= P[v[1]]
      BY <2>3, <3>1, <3>3
    <3>5. t \in Seq(Processing) /\ Rising(t)
      BY <2>3, <3>1, <3>2, <3>4, RisingConcat DEF P
    <3>6. t[Len(t)] = "TRANSLATING"
      BY <2>3, <3>1, <3>2, EndsOfConcat
    <3>7. t[1] = IF u = << >> THEN "TRANSLATING" ELSE u[1]
      BY <2>3, <3>1, <3>2, EndsOfConcat
    <3>8. QED
      BY <2>3, <3>1, <3>5, <3>6, <3>7 DEF P
  <2>6. QED
    BY <2>4, <2>5 DEF Translating
<1>6. QED
  BY <1>4, <1>5

\* Every run claims its job with the first stage and goes on in their order.
LEMMA PlansGoForward ==
    ASSUME NEW q \in Request, NEW r \in BOOLEAN, NEW p \in Plans(q, r)
    PROVE  p \in Seq(Status) /\ p # << >> /\ Forward(p) /\ Head(p) = "ANALYZING"
<1> DEFINE P == Contract!Progress
<1>1. CASE q.template = "extract_audio" /\ ~r
  <2>1. p = <<"ANALYZING", "EXTRACTING_AUDIO", "COMPLETED">>
    BY <1>1 DEF Plans
  <2>2. QED
    BY <2>1 DEF Forward, Onward, Processing, Status, Terminal, Contract!Progress
<1>2. CASE ~(q.template = "extract_audio" /\ ~r)
  <2>1. PICK t \in TextStages(q, r), e \in Endings(q, r) : p = <<"ANALYZING">> \o t \o <<"GENERATING_SUBTITLE">> \o e
    <3>1. p \in SubtitlePlans(q, r)
      BY <1>2 DEF Plans
    <3>2. QED
      BY <3>1 DEF SubtitlePlans
  <2>2. e \in Seq(Status) /\ e # << >> /\ Forward(e) /\ Onward("GENERATING_SUBTITLE", e[1])
    <3>1. e \in {<<"COMPLETED">>, Rendering, <<"AWAITING_REVIEW">>}
      BY Zenon DEF Endings
    <3>2. CASE e \in {<<"COMPLETED">>, <<"AWAITING_REVIEW">>}
      BY <3>2 DEF Forward, Onward, Processing, Status, Terminal
    <3>3. CASE e = Rendering
      BY <3>3 DEF Rendering, Forward, Onward, Processing, Status, Terminal, Contract!Progress
    <3>4. QED
      BY <3>1, <3>2, <3>3
  <2>3. /\ t \in Seq(Processing) /\ Rising(t)
        /\ t # << >> => P[t[1]] >= 2 /\ P[t[Len(t)]] <= 6 /\ P[t[1]] \in 1 .. 9 /\ P[t[Len(t)]] \in 1 .. 9
    BY TextRises, StageNumbers
  <2> DEFINE a == <<"ANALYZING">>
             g == <<"GENERATING_SUBTITLE">>
  <2>4. /\ a \in Seq(Processing) /\ Rising(a) /\ a # << >> /\ a[1] = "ANALYZING" /\ Len(a) = 1 /\ P["ANALYZING"] = 1
        /\ g \in Seq(Processing) /\ Rising(g) /\ g # << >> /\ g[1] = "GENERATING_SUBTITLE" /\ Len(g) = 1
        /\ P["GENERATING_SUBTITLE"] = 7
    BY DEF Rising, Processing, Contract!Progress
  <2>5. p = ((a \o t) \o g) \o e
    BY <2>1
  <2> HIDE DEF a, g, P
  <2>6. a \o t \in Seq(Processing) /\ Rising(a \o t)
    <3>1. a # << >> /\ t # << >> => P[a[Len(a)]] <= P[t[1]]
      BY <2>3, <2>4
    <3>2. QED
      BY <2>3, <2>4, <3>1, RisingConcat DEF P
  <2>7. /\ Len(a \o t) \in Nat \ {0} /\ a \o t # << >> /\ (a \o t)[1] = "ANALYZING"
        /\ (a \o t)[Len(a \o t)] = IF t = << >> THEN "ANALYZING" ELSE t[Len(t)]
    <3>1. CASE t = << >>
      <4>1. a \o t = a
        BY <2>4, <3>1
      <4>2. /\ Len(a) \in Nat \ {0} /\ a # << >> /\ a[1] = "ANALYZING" /\ a[Len(a)] = "ANALYZING"
        BY <2>4
      <4>3. QED
        BY <3>1, <4>1, <4>2, Zenon
    <3>2. CASE t # << >>
      BY <2>3, <2>4, <3>2, EndsOfConcat
    <3>3. QED
      BY <3>1, <3>2
  <2> DEFINE b == a \o t
  <2> HIDE DEF b
  <2>8. b \in Seq(Processing) /\ Rising(b) /\ b # << >> /\ b[1] = "ANALYZING" /\ P[b[Len(b)]] <= 7
    BY <2>3, <2>4, <2>6, <2>7 DEF b
  <2>9. b \o g \in Seq(Processing) /\ Rising(b \o g)
    BY <2>4, <2>8, RisingConcat DEF P
  <2>10. b \o g # << >> /\ (b \o g)[1] = "ANALYZING" /\ (b \o g)[Len(b \o g)] = "GENERATING_SUBTITLE"
    BY <2>4, <2>8, EndsOfConcat
  <2> DEFINE c == b \o g
  <2>11. c \in Seq(Processing) /\ Rising(c) /\ c # << >> /\ c[1] = "ANALYZING" /\ c[Len(c)] = "GENERATING_SUBTITLE"
    BY <2>9, <2>10
  <2>12. p = c \o e
    BY <2>5 DEF b
  <2> HIDE DEF c
  <2>13. QED
    BY <2>2, <2>11, <2>12, ForwardConcat, PlansAreRuns
<1>3. QED
  BY <1>1, <1>2

\* What is left of a run after its next status.
LEMMA RestGoesForward ==
    ASSUME NEW p \in Seq(Status), p # << >>, RunLike(p), Forward(p)
    PROVE  /\ Head(p) \in Processing \cup {"COMPLETED", "AWAITING_REVIEW"}
           /\ Tail(p) \in Seq(Status) /\ Forward(Tail(p))
           /\ Tail(p) # << >> => Onward(Head(p), Head(Tail(p)))
<1>1. /\ Len(p) \in Nat \ {0} /\ Tail(p) \in Seq(Status) /\ Len(Tail(p)) = Len(p) - 1 /\ Head(p) = p[1]
      /\ \A i \in 1 .. Len(p) - 1 : Tail(p)[i] = p[i + 1]
  OBVIOUS
<1>2. Head(p) \in Processing \cup {"COMPLETED", "AWAITING_REVIEW"}
  <2>1. CASE Len(p) = 1
    BY <1>1, <2>1 DEF Forward
  <2>2. CASE Len(p) # 1
    BY <1>1, <2>2 DEF RunLike
  <2>3. QED
    BY <2>1, <2>2
<1>3. ASSUME NEW i \in 1 .. Len(Tail(p)) - 1
      PROVE  Onward(Tail(p)[i], Tail(p)[i + 1])
  <2>1. /\ i + 1 \in 1 .. Len(p) - 1 /\ i \in 1 .. Len(p) - 1
        /\ Tail(p)[i] = p[i + 1] /\ Tail(p)[i + 1] = p[(i + 1) + 1]
    BY <1>1
  <2>2. QED
    BY <2>1 DEF Forward
<1>4. CASE Tail(p) = << >>
  BY <1>1, <1>2, <1>4 DEF Forward
<1>5. CASE Tail(p) # << >>
  <2>1. Len(p) - 1 \in 1 .. Len(p) - 1 /\ 1 \in 1 .. Len(p) - 1 /\ Head(Tail(p)) = Tail(p)[1]
    BY <1>1, <1>5
  <2>2. Tail(p)[Len(Tail(p))] = p[Len(p)] /\ Head(Tail(p)) = p[1 + 1]
    BY <1>1, <2>1
  <2>3. Onward(Head(p), Head(Tail(p)))
    BY <1>1, <2>1, <2>2 DEF Forward
  <2>4. Forward(Tail(p))
    BY <1>3, <2>2 DEF Forward
  <2>5. QED
    BY <1>1, <1>2, <2>3, <2>4
<1>6. QED
  BY <1>4, <1>5

-------------------------------------------------------------------------------
(***************************************************************************)
(* The three parts of JobInv beyond IInv, and the steps that leave them    *)
(* alone.                                                                  *)
(***************************************************************************)
SectionsEntered == \A p \in Procs : ~Idle(p) => Entered(p)
FilesInOrder == \A j \in Jobs : FilesOf(j)
RunsForward == \A w \in Workers : RunForward(w)
Promises == SectionsEntered /\ FilesInOrder /\ RunsForward

\* What a section was let in by holds as long as nobody takes files from its
\* job and its worker's run does not move.
LEMMA EnteredKept ==
    ASSUME JobInv, NEW q \in Procs, ~Idle(q), section'[q] = section[q],
           files'[section[q].job] = files[section[q].job],
           age'[section[q].job] \in Nat, age'[section[q].job] >= age[section[q].job],
           q \in Workers => at'[q] = at[q] /\ plan'[q] = plan[q]
    PROVE  Entered(q)'
<1>1. TypeOK /\ SectionInv(q) /\ Entered(q) /\ section[q].job \in Jobs
  BY Inside DEF JobInv, IInv
<1>2. section[q].op = "advance" => q \in Workers
  BY <1>1 DEF SectionInv
<1>3. age[section[q].job] \in 0 .. 2
  BY <1>1 DEF TypeOK
<1>4. /\ section[q].op \in {"start", "reset", "requeue"} => SourcePresent(section[q].job)'
      /\ section[q].op \in {"wipe", "expire"} => age'[section[q].job] > 0 \/ section[q].rec.expired
      /\ section[q].op = "expire" => files'[section[q].job] = {}
  BY <1>1, <1>3 DEF Entered, SourcePresent
<1>5. section[q].op = "advance" =>
          /\ at'[q] = "QUEUED" \/ ~section[q].rec.cancel
          /\ Head(plan'[q]) = "COMPLETED" /\ OwnsInput(section[q].job) => "input" \in files'[section[q].job]
  BY <1>1, <1>2 DEF Entered
<1>6. section[q].rec.status \in StatusFor(section[q].op) /\ (section[q].op = "requeue" => ~section[q].rec.cancel)
  BY <1>1 DEF Entered
<1>7. QED
  BY <1>4, <1>5, <1>6 DEF Entered

\* Steps that change one section and touch neither records nor files nor runs.
LEMMA SectionStepsKeep ==
    ASSUME JobInv, NEW p \in Procs, UNCHANGED <<record, files, age, purged, at, plan>>,
           \A q \in Procs \ {p} : section'[q] = section[q],
           ~Idle(p)' => Entered(p)'
    PROVE  Promises'
<1>1. ASSUME NEW q \in Procs, ~Idle(q)'
      PROVE  Entered(q)'
  <2>1. CASE q = p
    BY <1>1, <2>1
  <2>2. CASE q # p
    <3>1. section'[q] = section[q] /\ ~Idle(q)
      BY <1>1, <2>2 DEF Idle
    <3>2. section[q].job \in Jobs /\ TypeOK
      BY <3>1, Inside DEF JobInv, IInv
    <3>3. age[section[q].job] \in 0 .. 2 /\ age' = age /\ files' = files
      BY <3>2 DEF TypeOK
    <3>4. QED
      BY <3>1, <3>3, EnteredKept
  <2>3. QED
    BY <2>1, <2>2
<1>2. ASSUME NEW j \in Jobs
      PROVE  FilesOf(j)'
  <2>1. FilesOf(j)
    BY DEF JobInv
  <2>2. QED
    BY <2>1 DEF FilesOf, SourcePresent, Downloadable
<1>3. ASSUME NEW w \in Workers
      PROVE  RunForward(w)'
  BY DEF JobInv, RunForward
<1>4. QED
  BY <1>1, <1>2, <1>3 DEF Promises, SectionsEntered, FilesInOrder, RunsForward

\* A request lets itself in by what StatusFor and Entered ask.
LEMMA ClientPromises ==
    ASSUME JobInv, NEW c \in Clients, ClientStep(c)
    PROVE  Promises'
<1> USE DEF disk, clock, run
<1> PICK j \in Jobs :
        \/ CreateUpload(c, j)
        \/ CreateWorkflow(c, j)
        \/ UploadChunk(c, j)
        \/ CompleteUpload(c, j)
        \/ StartJob(c, j)
        \/ CancelJob(c, j)
        \/ RetryJob(c, j)
        \/ UpdateSubtitleDraft(c, j)
        \/ DeleteJob(c, j)
  BY DEF ClientStep
<1>1. c \in Procs /\ TypeOK /\ record[j].status \in Status \cup {"ABSENT", "DELETED"}
  BY DEF Procs, JobInv, IInv, TypeOK, Record
<1>2. PICK op \in Op, L \in SUBSET LockNames :
        /\ Handler(c, op, j, L)
        /\ op \notin {"requeue", "wipe", "expire", "advance"}
        /\ record[j].status \in StatusFor(op)
        /\ op \in {"start", "reset"} => SourcePresent(j)
  <2>1. /\ StateLock(j) \in LockNames /\ ExecutionLock(j) \in LockNames /\ AdmissionLock \in LockNames
    BY DEF LockNames, StateLock, ExecutionLock, AdmissionLock
  <2>2. record[j].status \in Waiting \cup Processing \cup Terminal \cup {"ABSENT", "DELETED"}
    BY <1>1 DEF Status, Waiting
  <2>3. CASE CreateUpload(c, j)
    BY <2>1, <2>3 DEF CreateUpload, StatusFor, Op
  <2>4. CASE CreateWorkflow(c, j)
    BY <2>1, <2>4 DEF CreateWorkflow, StatusFor, Op
  <2>5. CASE UploadChunk(c, j)
    BY <2>1, <2>5 DEF UploadChunk, StatusFor, Op
  <2>6. CASE CompleteUpload(c, j)
    BY <2>1, <2>6 DEF CompleteUpload, StatusFor, Op
  <2>7. CASE StartJob(c, j)
    BY <2>1, <2>7 DEF StartJob, StatusFor, Op
  <2>8. CASE CancelJob(c, j)
    BY <2>1, <2>2, <2>8 DEF CancelJob, StatusFor, Op, Exists
  <2>9. CASE RetryJob(c, j)
    BY <2>1, <2>9 DEF RetryJob, StatusFor, Op
  <2>10. CASE UpdateSubtitleDraft(c, j)
    BY <2>1, <2>10 DEF UpdateSubtitleDraft, StatusFor, Op
  <2>11. CASE DeleteJob(c, j)
    BY <2>1, <2>11 DEF DeleteJob, StatusFor, Op
  <2>12. QED
    BY <2>3, <2>4, <2>5, <2>6, <2>7, <2>8, <2>9, <2>10, <2>11
<1>3. /\ section'[c] = [op |-> op, job |-> j, rec |-> record[j]]
      /\ \A q \in Procs \ {c} : section'[q] = section[q]
      /\ UNCHANGED <<record, files, age, purged, at, plan>>
  BY <1>1, <1>2, Entering DEF Handler
<1>4. Entered(c)'
  BY <1>2, <1>3 DEF Entered, SourcePresent
<1>5. QED
  BY <1>1, <1>3, <1>4, SectionStepsKeep

\* A pass removes what its reading lets it remove.
LEMMA CollectPromises ==
    ASSUME JobInv, NEW p \in Workers \cup Collectors, CollectStep(p)
    PROVE  Promises'
<1> USE DEF disk, clock, run
<1> PICK j \in Jobs : Collect(p, j) \/ CollectBusy(p, j)
  BY DEF CollectStep
<1>1. p \in Procs /\ TypeOK /\ UNCHANGED <<record, files, age, purged, at, plan>>
  BY DEF Procs, JobInv, IInv, Collect, CollectBusy
<1>2. CASE UNCHANGED section
  <2>1. ~Idle(p)' => Entered(p)'
    <3>1. SUFFICES ASSUME ~Idle(p)
                   PROVE  Entered(p)'
      BY <1>2 DEF Idle
    <3>2. section[p].job \in Jobs /\ age[section[p].job] \in 0 .. 2
      BY <1>1, <3>1, Inside DEF TypeOK
    <3>3. QED
      BY <1>1, <1>2, <3>1, <3>2, EnteredKept
  <2>2. QED
    BY <1>1, <1>2, <2>1, SectionStepsKeep
<1>3. CASE CollectOp(p, j) # "none" /\ Enter(p, CollectOp(p, j), j, {ExecutionLock(j), StateLock(j)})
  <2> DEFINE op == CollectOp(p, j)
  <2>1. /\ op \in {"recover", "purge", "wipe"}
        /\ record[j].status \in StatusFor(op)
        /\ op = "wipe" => age[j] > 0 \/ record[j].expired
    BY <1>3 DEF CollectOp, StatusFor
  <2>2. {ExecutionLock(j), StateLock(j)} \in SUBSET LockNames /\ op \in Op
    BY <2>1 DEF LockNames, StateLock, ExecutionLock, Op
  <2> HIDE DEF op
  <2>3. /\ section'[p] = [op |-> op, job |-> j, rec |-> record[j]]
        /\ \A q \in Procs \ {p} : section'[q] = section[q]
    BY <1>1, <1>3, <2>2, Entering DEF op
  <2> PICK o \in {"recover", "purge", "wipe"} : o = op
    BY <2>1
  <2>4. section'[p] = [op |-> o, job |-> j, rec |-> record[j]]
    BY <2>3
  <2>5. Entered(p)'
    BY <1>1, <2>1, <2>4 DEF Entered
  <2>6. QED
    BY <1>1, <2>3, <2>5, SectionStepsKeep
<1>4. QED
  BY <1>2, <1>3 DEF Collect, CollectBusy

\* Steps between the sections of a process.
LEMMA IdleStepsKeep ==
    ASSUME JobInv, UNCHANGED <<record, files, age, purged, at, plan, section>>
    PROVE  Promises'
<1>1. ASSUME NEW q \in Procs, ~Idle(q)'
      PROVE  Entered(q)'
  <2>1. section'[q] = section[q] /\ ~Idle(q)
    BY <1>1 DEF Idle
  <2>2. section[q].job \in Jobs /\ TypeOK
    BY <2>1, Inside DEF JobInv, IInv
  <2>3. age[section[q].job] \in 0 .. 2 /\ age' = age /\ files' = files
    BY <2>2 DEF TypeOK
  <2>4. QED
    BY <2>1, <2>3, EnteredKept
<1>2. ASSUME NEW j \in Jobs
      PROVE  FilesOf(j)'
  BY DEF JobInv, FilesOf, SourcePresent, Downloadable
<1>3. ASSUME NEW w \in Workers
      PROVE  RunForward(w)'
  BY DEF JobInv, RunForward
<1>4. QED
  BY <1>1, <1>2, <1>3 DEF Promises, SectionsEntered, FilesInOrder, RunsForward

\* A claim finds the job QUEUED and plans a run that goes forward.
LEMMA ClaimPromises ==
    ASSUME JobInv, NEW w \in Workers, NEW j \in Jobs, BeginRun(w, j)
    PROVE  Promises'
<1>1. w \in Procs /\ TypeOK
  BY DEF Procs, JobInv, IInv
<1>2. {ExecutionLock(j), StateLock(j)} \in SUBSET LockNames /\ "advance" \in Op
  BY DEF LockNames, StateLock, ExecutionLock, Op
<1>3. /\ Enter(w, "advance", j, {ExecutionLock(j), StateLock(j)})
      /\ UNCHANGED <<record, files, age, purged>>
      /\ at' = [at EXCEPT ![w] = "QUEUED"]
      /\ record[j].status = "QUEUED"
  BY DEF BeginRun, disk, clock
<1>4. PICK p \in Plans(RequestOf[j], record[j].ready) : plan' = [plan EXCEPT ![w] = p]
  BY DEF BeginRun
<1>5. p # << >> /\ Forward(p) /\ Head(p) = "ANALYZING"
  <2>1. RequestOf[j] \in Request /\ record[j].ready \in BOOLEAN
    BY <1>1, Requests DEF TypeOK, Record
  <2>2. QED
    BY <2>1, PlansGoForward
<1>6. /\ section'[w] = [op |-> "advance", job |-> j, rec |-> record[j]]
      /\ \A q \in Procs \ {w} : section'[q] = section[q]
  BY <1>1, <1>2, <1>3, Entering
<1>7. /\ at'[w] = "QUEUED" /\ plan'[w] = p
      /\ \A v \in Workers \ {w} : at'[v] = at[v] /\ plan'[v] = plan[v]
  BY <1>1, <1>3, <1>4 DEF TypeOK
<1>8. ASSUME NEW q \in Procs, ~Idle(q)'
      PROVE  Entered(q)'
  <2>1. CASE q = w
    <3>1. "QUEUED" \in StatusFor("advance")
      BY DEF StatusFor
    <3>2. QED
      BY <1>3, <1>5, <1>6, <1>7, <2>1, <3>1 DEF Entered
  <2>2. CASE q # w
    <3>1. section'[q] = section[q] /\ ~Idle(q) /\ (q \in Workers => at'[q] = at[q] /\ plan'[q] = plan[q])
      BY <1>6, <1>7, <1>8, <2>2 DEF Idle
    <3>2. section[q].job \in Jobs
      BY <1>1, <3>1, Inside
    <3>3. age[section[q].job] \in 0 .. 2 /\ age' = age /\ files' = files
      BY <1>1, <1>3, <3>2 DEF TypeOK
    <3>4. QED
      BY <3>1, <3>3, EnteredKept
  <2>3. QED
    BY <2>1, <2>2
<1>9. ASSUME NEW k \in Jobs
      PROVE  FilesOf(k)'
  BY <1>3 DEF JobInv, FilesOf, SourcePresent, Downloadable
<1>10. ASSUME NEW v \in Workers
       PROVE  RunForward(v)'
  <2>1. CASE v = w
    BY <1>5, <1>7, <2>1 DEF RunForward, Processing
  <2>2. CASE v # w
    BY <1>7, <2>2 DEF JobInv, RunForward
  <2>3. QED
    BY <2>1, <2>2
<1>11. QED
  BY <1>8, <1>9, <1>10 DEF Promises, SectionsEntered, FilesInOrder, RunsForward

\* A run enters its sections on a job that is being run; transition() has seen
\* its files and no request for its cancellation.
LEMMA RunStepPromises ==
    ASSUME JobInv, NEW w \in Workers, Advance(w) \/ Beat(w) \/ Handle(w)
    PROVE  Promises'
<1> DEFINE j == job[w]
<1>1. /\ w \in Procs /\ TypeOK /\ WorkerLocks(w) /\ RunStatus(w) /\ mode[w] \in {"run", "handler"} /\ plan[w] # << >>
      /\ section[w] = Outside
  BY DEF Procs, JobInv, IInv, Advance, Beat, Handle, Running, Enter, Idle
<1>2. j \in Jobs /\ record[j].status \in Processing
  BY <1>1 DEF WorkerLocks, RunStatus, Outside
<1>3. PICK op \in {"advance", "beat", "fail"} :
        /\ Enter(w, op, j, {StateLock(j)})
        /\ op = "advance" => Advance(w)
        /\ UNCHANGED <<record, files, age, purged, at, plan>>
  BY DEF Advance, Beat, Handle, disk, clock, run
<1>4. {StateLock(j)} \in SUBSET LockNames /\ op \in Op
  BY <1>2, <1>3 DEF LockNames, StateLock, Op
<1> HIDE DEF j
<1>5. /\ section'[w] = [op |-> op, job |-> j, rec |-> record[j]]
      /\ \A q \in Procs \ {w} : section'[q] = section[q]
  BY <1>1, <1>2, <1>3, <1>4, Entering
<1>6. op = "advance" => ~record[j].cancel /\ (OwnsInput(j) => "input" \in files[j])
  BY <1>3 DEF Advance, InputsPresent, j
<1>7. record[j].status \in StatusFor(op) /\ op \notin {"start", "reset", "requeue", "wipe", "expire"}
  BY <1>2, <1>3 DEF StatusFor
<1>8. Entered(w)'
  BY <1>3, <1>5, <1>6, <1>7 DEF Entered
<1>9. QED
  BY <1>1, <1>3, <1>5, <1>8, SectionStepsKeep

\* The end of a run, orderly or not, forgets what it had still to do.
LEMMA LeavingRunPromises ==
    ASSUME JobInv, NEW w \in Workers, UNCHANGED <<record, files, age, purged>>,
           section'[w] = Outside, plan'[w] = << >>,
           \A q \in Procs \ {w} : section'[q] = section[q],
           \A v \in Workers \ {w} : at'[v] = at[v] /\ plan'[v] = plan[v]
    PROVE  Promises'
<1>1. TypeOK
  BY DEF JobInv, IInv
<1>2. ASSUME NEW q \in Procs, ~Idle(q)'
      PROVE  Entered(q)'
  <2>1. q # w /\ section'[q] = section[q] /\ ~Idle(q)
    BY <1>2 DEF Idle
  <2>2. section[q].job \in Jobs
    BY <1>1, <2>1, Inside
  <2>3. age[section[q].job] \in 0 .. 2 /\ age' = age /\ files' = files
    BY <1>1, <2>2 DEF TypeOK
  <2>4. QED
    BY <2>1, <2>3, EnteredKept
<1>3. ASSUME NEW j \in Jobs
      PROVE  FilesOf(j)'
  BY DEF JobInv, FilesOf, SourcePresent, Downloadable
<1>4. ASSUME NEW v \in Workers
      PROVE  RunForward(v)'
  BY DEF JobInv, RunForward
<1>5. QED
  BY <1>2, <1>3, <1>4 DEF Promises, SectionsEntered, FilesInOrder, RunsForward

\* Time passes for jobs whose files no promise keeps for ever.
LEMMA AgePromises ==
    ASSUME JobInv, NEW j \in Jobs, Age(j)
    PROVE  Promises'
<1>1. TypeOK /\ UNCHANGED <<record, files, purged, at, plan, section>> /\ age' = [age EXCEPT ![j] = @ + 1]
  BY DEF JobInv, IInv, Age, disk, run
<1>2. \A k \in Jobs : age[k] \in 0 .. 2 /\ age'[k] \in Nat /\ age'[k] >= age[k] /\ (age'[k] = 0 => age[k] = 0)
  BY <1>1 DEF TypeOK
<1>3. ASSUME NEW q \in Procs, ~Idle(q)'
      PROVE  Entered(q)'
  <2>1. section'[q] = section[q] /\ ~Idle(q)
    BY <1>1, <1>3 DEF Idle
  <2>2. section[q].job \in Jobs
    BY <1>1, <2>1, Inside
  <2>3. QED
    BY <1>1, <1>2, <2>1, <2>2, EnteredKept
<1>4. ASSUME NEW k \in Jobs
      PROVE  FilesOf(k)'
  BY <1>1, <1>2 DEF JobInv, FilesOf, SourcePresent, Downloadable
<1>5. ASSUME NEW v \in Workers
      PROVE  RunForward(v)'
  BY <1>1 DEF JobInv, RunForward
<1>6. QED
  BY <1>3, <1>4, <1>5 DEF Promises, SectionsEntered, FilesInOrder, RunsForward

-------------------------------------------------------------------------------
(***************************************************************************)
(* The writes.                                                             *)
(***************************************************************************)
\* The next status of a run is a stage or one of its two ends.
LEMMA NextOfRun ==
    ASSUME JobInv, NEW p \in Procs, ~Idle(p), section[p].op = "advance"
    PROVE  /\ p \in Workers /\ plan[p] # << >> /\ Head(plan[p]) \in Processing \cup {"COMPLETED", "AWAITING_REVIEW"}
           /\ Tail(plan[p]) \in Seq(Status) /\ Forward(Tail(plan[p]))
           /\ Tail(plan[p]) # << >> => Onward(Head(plan[p]), Head(Tail(plan[p])))
<1>1. TypeOK /\ SectionInv(p)
  BY DEF JobInv, IInv
<1>2. p \in Workers /\ plan[p] # << >>
  BY <1>1 DEF SectionInv
<1>3. plan[p] \in Seq(Status) /\ RunLike(plan[p]) /\ Forward(plan[p])
  BY <1>1, <1>2 DEF JobInv, IInv, TypeOK, RunForward
<1>4. QED
  BY <1>2, <1>3, RestGoesForward

\* A write leaves the files of its job at least as they were, but for a delete.
LEMMA FilesGrow ==
    ASSUME NEW p \in Procs, NEW s
    PROVE  /\ section[p].op # "delete" => files[section[p].job] \subseteq FilesWritten(p, s)
           /\ section[p].op \in {"append", "admit"} => "input" \in FilesWritten(p, s)
           /\ section[p].op \notin {"append", "admit", "delete"} =>
                 ("input" \in FilesWritten(p, s) <=> "input" \in files[section[p].job])
           /\ section[p].op = "advance" /\ s = "COMPLETED" => "output" \in FilesWritten(p, s)
           /\ section[p].op = "delete" => FilesWritten(p, s) = {}
           /\ section[p].op \in {"reset", "edit", "expire"} => FilesWritten(p, s) = files[section[p].job]
BY DEF FilesWritten

\* What each write makes of the record it read.
LEMMA WrittenParts ==
    ASSUME JobInv, NEW p \in Procs, ~Idle(p), NEW r, r = section[p].rec, NEW w, w = Written(p)
    PROVE  /\ r \in Record /\ r = record[section[p].job] /\ r.status \in StatusFor(section[p].op)
           /\ section[p].op # "delete" => w.expired = r.expired \/ (section[p].op = "expire" /\ r.status \in Terminal)
           /\ section[p].op \notin {"render", "delete"} => w.ready = r.ready
           /\ section[p].op = "create" => w.status = "UPLOADING"
           /\ section[p].op = "complete" => w.status = "READY"
           /\ section[p].op \in {"admit", "start", "requeue"} => w.status = "QUEUED"
           /\ section[p].op = "render" => w.status = "QUEUED" /\ w.ready
           /\ section[p].op \in {"append", "edit", "beat"} => w = r
           /\ section[p].op = "cancel" => w.status = IF r.status \in Waiting THEN "CANCELLED" ELSE r.status
           /\ section[p].op = "reset" => w.status = r.status /\ ~w.cancel
           /\ section[p].op = "delete" => w = Gone
           /\ section[p].op = "expire" => IF r.status \in Terminal THEN w.status = r.status /\ w.done = r.done
                                          ELSE w.status = "CANCELLED"
           /\ section[p].op \in {"recover", "fail"} => w.status \in {"FAILED", "CANCELLED"}
           /\ section[p].op = "advance" => /\ w.status = Head(plan[p])
                                           /\ w.status = "COMPLETED" => w.done
<1>1. SectionInv(p) /\ Entered(p) /\ section[p].rec \in Record /\ section[p].op \in Op
  BY Inside DEF JobInv, IInv
<1>2. r \in Record /\ r = record[section[p].job] /\ r.status \in StatusFor(section[p].op)
  BY <1>1 DEF SectionInv, Entered
<1>3. CASE section[p].op \in {"create", "complete", "admit", "start", "requeue", "render"}
  BY <1>2, <1>3 DEF Written, Enqueue, Record
<1>4. CASE section[p].op \in {"append", "edit", "beat", "reset", "delete"}
  BY <1>2, <1>4 DEF Written, Record
<1>5. CASE section[p].op \in {"cancel", "expire", "recover", "fail"}
  BY <1>2, <1>5 DEF Written, CancelOf, ExpireOf, FailOf, Finish, Record
<1>6. CASE section[p].op = "advance"
  BY <1>2, <1>6 DEF Written, AdvanceOf, Finish, Record, Terminal
<1>7. CASE section[p].op \in {"purge", "wipe"}
  BY <1>2, <1>7 DEF Written
<1>8. QED
  BY <1>1, <1>2, <1>3, <1>4, <1>5, <1>6, <1>7 DEF Op

\* A saved record keeps what was promised of the files of its job.
LEMMA SaveKeepsFiles ==
    ASSUME JobInv, NEW p \in Procs, Save(p), NEW j \in Jobs, j = section[p].job
    PROVE  FilesOf(j)'
<1> DEFINE op == section[p].op
<1> PICK r \in Record, w \in Record : r = section[p].rec /\ w = Written(p)
  <2>1. ~Idle(p) /\ TypeOK /\ Written(p) \in Record
    <3>1. IInv /\ TypeOK /\ TypeOK' /\ ~Idle(p) /\ record' = [record EXCEPT ![section[p].job] = Written(p)]
      BY SaveType DEF JobInv, IInv
    <3>2. section[p].job \in Jobs
      BY <3>1, Inside
    <3>3. record'[section[p].job] = Written(p) /\ record'[section[p].job] \in Record
      BY <3>1, <3>2 DEF TypeOK
    <3>4. QED
      BY <3>1, <3>3
  <2>2. QED
    BY <2>1, Inside
<1>1. /\ TypeOK /\ ~Idle(p) /\ IInv /\ FilesOf(j) /\ Entered(p)
      /\ op \in Op \ {"purge", "wipe"}
  BY SaveType, Inside DEF JobInv, IInv, Save, Op
<1>2. /\ record'[j] = w
      /\ files'[j] = FilesWritten(p, w.status)
      /\ age'[j] = IF Keeps(p, w) THEN age[j] ELSE 0
      /\ purged'[j] = (purged[j] /\ w.status = r.status)
  <2>1. record[j] = r
    BY <1>1, WrittenParts
  <2>2. QED
    BY <1>1, <2>1 DEF Save, TypeOK
<1>3. /\ r = record[j] /\ r.status \in StatusFor(op)
      /\ op # "delete" => w.expired = r.expired \/ (op = "expire" /\ r.status \in Terminal)
      /\ op \notin {"render", "delete"} => w.ready = r.ready
  BY <1>1, WrittenParts
<1>4. /\ op # "delete" => files[j] \subseteq files'[j]
      /\ op \in {"append", "admit"} => "input" \in files'[j]
      /\ op \notin {"append", "admit", "delete"} => ("input" \in files'[j] <=> "input" \in files[j])
      /\ op = "advance" /\ w.status = "COMPLETED" => "output" \in files'[j]
      /\ op = "delete" => files'[j] = {}
      /\ op \in {"reset", "edit", "expire"} => files'[j] = files[j]
  BY <1>2, FilesGrow
\* The job is queued or run with its source.
<1>5. w.status \in {"QUEUED"} \cup Processing /\ ~w.ready => SourcePresent(j)'
  <2>1. SUFFICES ASSUME w.status \in {"QUEUED"} \cup Processing, ~w.ready
                 PROVE  SourcePresent(j)'
    OBVIOUS
  <2>2. CASE op \in {"create", "complete", "render", "delete", "recover", "fail"}
    BY <1>1, <2>1, <2>2, WrittenParts DEF Processing, Gone
  <2>3. CASE op = "admit"
    BY <1>4, <2>3 DEF SourcePresent
  <2>4. CASE op \in {"start", "requeue"}
    BY <1>1, <1>4, <2>4 DEF SourcePresent, Entered
  <2>5. CASE op \in {"append", "edit", "beat", "cancel", "reset", "expire", "advance"}
    <3>1. w.ready = r.ready /\ (w.status = r.status \/ r.status \in {"QUEUED"} \cup Processing)
      <4>1. CASE op \in {"append", "edit", "beat", "reset"}
        BY <1>1, <4>1, WrittenParts
      <4>2. CASE op = "cancel"
        BY <1>1, <2>1, <4>2, WrittenParts DEF Processing
      <4>3. CASE op = "expire"
        BY <1>1, <2>1, <4>3, WrittenParts DEF Processing
      <4>4. CASE op = "advance"
        BY <1>1, <1>3, <4>4, WrittenParts DEF StatusFor
      <4>5. QED
        BY <2>5, <4>1, <4>2, <4>3, <4>4
    <3>2. SourcePresent(j)
      BY <1>1, <1>3, <2>1, <3>1 DEF FilesOf
    <3>3. QED
      BY <1>4, <2>5, <3>2 DEF SourcePresent
  <2>6. QED
    BY <1>1, <2>2, <2>3, <2>4, <2>5 DEF Op
\* A job that expired has lost its own input.
<1>6. w.expired => /\ w.status \notin {"ABSENT", "UPLOADING", "READY"}
                   /\ OwnsInput(j) => "input" \notin files'[j]
  <2>1. SUFFICES ASSUME w.expired
                 PROVE  /\ w.status \notin {"ABSENT", "UPLOADING", "READY"}
                        /\ OwnsInput(j) => "input" \notin files'[j]
    OBVIOUS
  <2>2. op # "delete"
    BY <1>1, <2>1, WrittenParts DEF Gone
  <2>3. CASE op = "expire" /\ r.status \in Terminal
    <3>1. files[j] = {} /\ w.status = r.status
      BY <1>1, <2>3, WrittenParts DEF Entered
    <3>2. QED
      BY <1>4, <2>3, <3>1 DEF Terminal
  <2>4. CASE ~(op = "expire" /\ r.status \in Terminal)
    <3>1. r.expired
      BY <1>3, <2>1, <2>2, <2>4
    <3>2. r.status \notin {"ABSENT", "UPLOADING", "READY"} /\ (OwnsInput(j) => "input" \notin files[j])
      BY <1>1, <1>3, <3>1 DEF FilesOf
    <3>3. op \notin {"create", "admit", "append", "complete", "start"}
      BY <1>3, <3>2 DEF StatusFor
    <3>4. OwnsInput(j) => "input" \notin files'[j]
      BY <1>4, <2>2, <3>2, <3>3
    <3>5. w.status \notin {"ABSENT", "UPLOADING", "READY"}
      <4>1. CASE op = "advance"
        <5>1. Head(plan[p]) \in Processing \cup {"COMPLETED", "AWAITING_REVIEW"} /\ w.status = Head(plan[p])
          BY <1>1, <4>1, NextOfRun, WrittenParts
        <5>2. QED
          BY <5>1 DEF Processing
      <4>2. CASE op # "advance"
        BY <1>1, <2>2, <3>2, <3>3, <4>2, WrittenParts DEF Op
      <4>3. QED
        BY <4>1, <4>2
    <3>6. QED
      BY <3>4, <3>5
  <2>5. QED
    BY <2>3, <2>4
\* It is completed by its run, which leaves its results.
<1>7. /\ w.status = "COMPLETED" => w.done
      /\ OwnsInput(j) /\ w.status = "COMPLETED" /\ age'[j] = 0 /\ ~purged'[j] => "output" \in files'[j] /\ ~w.expired
  <2>1. SUFFICES ASSUME w.status = "COMPLETED"
                 PROVE  /\ w.done
                        /\ OwnsInput(j) /\ age'[j] = 0 /\ ~purged'[j] => "output" \in files'[j] /\ ~w.expired
    OBVIOUS
  <2>2. op = "expire" \/ op = "advance"
    <3>1. op \notin {"create", "complete", "admit", "start", "requeue", "render", "delete", "recover", "fail"}
      BY <1>1, <2>1, WrittenParts DEF Gone
    <3>2. op \notin {"append", "edit", "beat", "cancel", "reset"}
      <4>1. op \in {"append", "edit", "beat", "cancel", "reset"} => r.status = "COMPLETED"
        BY <1>1, <2>1, WrittenParts
      <4>2. QED
        BY <1>3, <4>1 DEF StatusFor, Waiting, Processing
    <3>3. QED
      BY <1>1, <3>1, <3>2 DEF Op
  <2>3. CASE op = "advance"
    <3>1. w.done /\ Head(plan[p]) = "COMPLETED"
      BY <1>1, <2>1, <2>3, WrittenParts
    <3>2. OwnsInput(j) => "input" \in files[j]
      BY <1>1, <2>3, <3>1 DEF Entered
    <3>3. OwnsInput(j) => ~r.expired
      BY <1>1, <1>3, <3>2 DEF FilesOf
    <3>4. QED
      BY <1>3, <1>4, <2>1, <2>3, <3>1, <3>3
  <2>4. CASE op = "expire"
    <3>1. w.done = r.done /\ r.status = "COMPLETED"
      BY <1>1, <2>1, <2>4, WrittenParts
    <3>2. r.done /\ w.done
      BY <1>1, <1>3, <3>1 DEF FilesOf
    <3>3. age'[j] = age[j] /\ purged'[j] = purged[j]
      BY <1>1, <1>2, <2>1, <3>1, <3>2 DEF Keeps, TypeOK
    <3>4. age[j] \in 0 .. 2 /\ (age[j] > 0 \/ r.expired)
      BY <1>1, <2>4 DEF Entered, TypeOK
    <3>5. OwnsInput(j) => age[j] # 0 \/ purged[j]
      BY <1>1, <1>3, <3>1, <3>4 DEF FilesOf, Downloadable
    <3>6. QED
      BY <3>2, <3>3, <3>5
  <2>5. QED
    BY <2>2, <2>3, <2>4
<1> HIDE DEF op
<1>8. FilesOf(j)'
  BY <1>2, <1>5, <1>6, <1>7 DEF FilesOf, Downloadable
<1>9. QED
  BY <1>8

\* Sections on other jobs go on as they were let in.
LEMMA OthersEntered ==
    ASSUME JobInv, NEW p \in Procs, ~Idle(p), NEW q \in Procs \ {p}, ~Idle(q), section'[q] = section[q],
           \A k \in Jobs \ {section[p].job} : files'[k] = files[k] /\ age'[k] = age[k],
           q \in Workers => at'[q] = at[q] /\ plan'[q] = plan[q]
    PROVE  Entered(q)'
<1>1. section[q].job \in Jobs /\ TypeOK /\ section[q].job # section[p].job
  BY Inside, OneSection DEF JobInv, IInv
<1>2. age[section[q].job] \in 0 .. 2
  BY <1>1 DEF TypeOK
<1>3. QED
  BY <1>1, <1>2, EnteredKept

\* The run a write belongs to is one status further, or over.
LEMMA SaveKeepsRuns ==
    ASSUME JobInv, NEW p \in Procs, Save(p)
    PROVE  RunsForward'
<1>1. TypeOK /\ ~Idle(p) /\ (Advances(p) => p \in Workers)
  BY SaveType DEF JobInv, IInv
<1>2. IF Advances(p)
      THEN /\ at' = [at EXCEPT ![p] = Written(p).status]
           /\ plan' = [plan EXCEPT ![p] = IF section[p].op = "fail" THEN << >> ELSE Tail(plan[p])]
      ELSE UNCHANGED <<at, plan>>
  BY DEF Save
<1>3. ASSUME NEW w \in Workers, w # p \/ ~Advances(p)
      PROVE  RunForward(w)'
  <2>1. at'[w] = at[w] /\ plan'[w] = plan[w]
    BY <1>1, <1>2, <1>3 DEF TypeOK
  <2>2. QED
    BY <2>1 DEF JobInv, RunForward
<1>4. ASSUME Advances(p)
      PROVE  RunForward(p)'
  <2>1. p \in Workers /\ at'[p] = Written(p).status
    BY <1>1, <1>2, <1>4, SaveType DEF JobInv, TypeOK
  <2>2. CASE section[p].op = "fail"
    <3>1. plan'[p] = << >>
      BY <1>1, <1>2, <1>4, <2>1, <2>2 DEF TypeOK
    <3>2. QED
      BY <3>1 DEF RunForward
  <2>3. CASE section[p].op = "advance"
    <3>1. plan'[p] = Tail(plan[p])
      BY <1>1, <1>2, <1>4, <2>1, <2>3 DEF TypeOK
    <3>2. Written(p).status = Head(plan[p])
      BY <1>1, <2>3, WrittenParts
    <3>3. /\ Head(plan[p]) \in Processing \cup {"COMPLETED", "AWAITING_REVIEW"}
          /\ Forward(Tail(plan[p]))
          /\ Tail(plan[p]) # << >> => Onward(Head(plan[p]), Head(Tail(plan[p])))
      BY <1>1, <2>3, NextOfRun
    <3>4. at'[p] # "QUEUED"
      BY <2>1, <3>2, <3>3 DEF Processing
    <3>5. QED
      BY <2>1, <3>1, <3>2, <3>3, <3>4 DEF RunForward
  <2>4. QED
    BY <1>4, <2>2, <2>3 DEF Advances
<1>5. ASSUME NEW w \in Workers
      PROVE  RunForward(w)'
  BY <1>3, <1>4
<1>6. QED
  BY <1>5 DEF RunsForward

LEMMA SavePromises ==
    ASSUME JobInv, NEW p \in Procs, Save(p)
    PROVE  Promises'
<1> PICK j \in Jobs : j = section[p].job
  BY SaveType, Inside DEF JobInv, IInv
<1>1. TypeOK /\ ~Idle(p) /\ Entered(p) /\ (Advances(p) => p \in Workers)
  BY SaveType DEF JobInv, IInv
<1>2. /\ \A k \in Jobs \ {j} : record'[k] = record[k] /\ files'[k] = files[k] /\ age'[k] = age[k] /\ purged'[k] = purged[k]
      /\ \A w \in Workers \ {p} : at'[w] = at[w] /\ plan'[w] = plan[w]
      /\ \A q \in Procs \ {p} : section'[q] = section[q]
  <2>1. \A k \in Jobs \ {j} : record'[k] = record[k] /\ files'[k] = files[k] /\ age'[k] = age[k] /\ purged'[k] = purged[k]
    BY <1>1 DEF Save, TypeOK
  <2>2. \A w \in Workers \ {p} : at'[w] = at[w] /\ plan'[w] = plan[w]
    BY <1>1 DEF Save, TypeOK
  <2>3. \A q \in Procs \ {p} : section'[q] = section[q]
    BY SaveSections DEF JobInv
  <2>4. QED
    BY <2>1, <2>2, <2>3
<1>3. ASSUME NEW q \in Procs, ~Idle(q)'
      PROVE  Entered(q)'
  <2>1. CASE q # p
    <3>1. section'[q] = section[q] /\ ~Idle(q)
      BY <1>2, <1>3, <2>1 DEF Idle
    <3>2. QED
      BY <1>1, <1>2, <2>1, <3>1, OthersEntered
  <2>2. CASE q = p
    <3>1. PICK op \in Follow(section[p].op) :
              IF op = "none"
              THEN Leave(p)
              ELSE section' = [section EXCEPT ![p] = [op |-> op, job |-> section[p].job, rec |-> Written(p)]]
      BY DEF Save
    <3>2. op # "none"
      BY <1>1, <1>3, <2>2, <3>1, Leaving DEF Idle
    <3>3. \/ section[p].op = "reset" /\ op = "requeue"
          \/ section[p].op = "edit" /\ op = "render"
      BY <3>1, <3>2 DEF Follow
    <3>4. section'[p] = [op |-> op, job |-> j, rec |-> Written(p)]
      BY <1>1, <3>1, <3>2 DEF TypeOK
    <3>5. /\ Written(p).status = section[p].rec.status /\ section[p].rec.status \in StatusFor(section[p].op)
          /\ section[p].op = "reset" => ~Written(p).cancel
      BY <1>1, <3>3, WrittenParts
    <3>6. files'[j] = files[j]
      <4>1. files'[j] = FilesWritten(p, Written(p).status)
        BY <1>1 DEF Save, TypeOK
      <4>2. QED
        BY <3>3, <4>1, FilesGrow
    <3>7. Written(p).status \in StatusFor(op)
      BY <3>3, <3>5 DEF StatusFor
    <3>8. op = "requeue" => SourcePresent(j) /\ ~Written(p).cancel
      BY <1>1, <3>3, <3>5 DEF Entered
    <3>9. op = "requeue" => SourcePresent(j)'
      BY <3>6, <3>8 DEF SourcePresent
    <3>10. Entered(p)'
      BY <3>3, <3>4, <3>7, <3>8, <3>9 DEF Entered
    <3>11. QED
      BY <2>2, <3>10
  <2>3. QED
    BY <2>1, <2>2
<1>4. ASSUME NEW k \in Jobs
      PROVE  FilesOf(k)'
  <2>1. CASE k = j
    BY <2>1, SaveKeepsFiles
  <2>2. CASE k # j
    <3>1. record'[k] = record[k] /\ files'[k] = files[k] /\ age'[k] = age[k] /\ purged'[k] = purged[k] /\ FilesOf(k)
      BY <1>2, <2>2 DEF JobInv
    <3>2. QED
      BY <3>1 DEF FilesOf, SourcePresent, Downloadable
  <2>3. QED
    BY <2>1, <2>2
<1>5. QED
  BY <1>3, <1>4, SaveKeepsRuns DEF Promises, SectionsEntered, FilesInOrder

\* Removed, as a whole or in part: the files of a job past its retention or of
\* one its user deletes.
LEMMA RemovalKeepsFiles ==
    ASSUME JobInv, NEW p \in Procs, ~Idle(p), section[p].op \in {"purge", "wipe"},
           NEW j \in Jobs, j = section[p].job,
           record'[j] \in {record[j], Gone}, files'[j] \subseteq files[j], age'[j] = age[j],
           section[p].op = "purge" => purged'[j],
           purged[j] => purged'[j]
    PROVE  FilesOf(j)'
<1>1. TypeOK /\ Entered(p) /\ SectionInv(p) /\ FilesOf(j) /\ section[p].rec = record[j]
  BY DEF JobInv, IInv, SectionInv
<1>2. CASE record'[j] = Gone
  BY <1>2 DEF FilesOf, Downloadable, Gone, Processing
<1>3. CASE record'[j] = record[j]
  <2>1. record[j].status \in StatusFor(section[p].op)
    BY <1>1 DEF Entered
  <2>2. record[j].status \notin {"QUEUED"} \cup Processing
    BY <2>1 DEF StatusFor, Processing, Terminal
  <2>3. OwnsInput(j) => ~(record[j].status = "COMPLETED" /\ age[j] = 0 /\ ~purged'[j])
    <3>1. SUFFICES ASSUME OwnsInput(j), record[j].status = "COMPLETED", age[j] = 0, ~purged'[j]
                   PROVE  FALSE
      OBVIOUS
    <3>2. section[p].op = "wipe" /\ ~purged[j]
      BY <3>1
    <3>3. record[j].expired
      BY <1>1, <3>1, <3>2 DEF Entered
    <3>4. QED
      BY <1>1, <3>1, <3>2, <3>3 DEF FilesOf, Downloadable
  <2>4. QED
    BY <1>1, <1>3, <2>2, <2>3 DEF FilesOf, Downloadable
<1>4. QED
  BY <1>2, <1>3

LEMMA RemoveFilesPromises ==
    ASSUME JobInv, NEW p \in Procs, RemoveFiles(p)
    PROVE  Promises'
<1> PICK j \in Jobs : j = section[p].job
  BY Inside DEF JobInv, IInv, RemoveFiles, Idle, Outside
<1>1. /\ TypeOK /\ ~Idle(p) /\ Entered(p) /\ section[p] \in Section /\ section[p].op \in {"purge", "wipe"}
  BY Inside DEF JobInv, IInv, RemoveFiles, Idle, Outside
<1>2. /\ files' = [files EXCEPT ![j] = {}] /\ UNCHANGED <<record, age, at, plan>>
      /\ purged' = [purged EXCEPT ![j] = purged[j] \/ section[p].op = "purge"]
  BY DEF RemoveFiles, run
<1>3. /\ files'[j] = {} /\ (purged[j] => purged'[j]) /\ (section[p].op = "purge" => purged'[j])
      /\ \A k \in Jobs \ {j} : files'[k] = files[k] /\ purged'[k] = purged[k]
  BY <1>1, <1>2 DEF TypeOK
<1>4. /\ \A q \in Procs \ {p} : section'[q] = section[q]
      /\ section'[p] = Outside \/ section'[p] = [section[p] EXCEPT !.op = IF section[p].op = "purge" THEN "delete" ELSE "expire"]
  <2>1. CASE Leave(p)
    BY <1>1, <2>1, Leaving
  <2>2. CASE section' = [section EXCEPT ![p].op = IF @ = "purge" THEN "delete" ELSE "expire"]
    BY <1>1, <2>2 DEF TypeOK
  <2>3. QED
    BY <2>1, <2>2 DEF RemoveFiles
<1>5. ASSUME NEW q \in Procs, ~Idle(q)'
      PROVE  Entered(q)'
  <2>1. CASE q # p
    <3>1. section'[q] = section[q] /\ ~Idle(q)
      BY <1>4, <1>5, <2>1 DEF Idle
    <3>2. QED
      BY <1>1, <1>2, <1>3, <2>1, <3>1, OthersEntered
  <2>2. CASE q = p
    <3>1. PICK op \in {"delete", "expire"} :
              /\ section'[p] = [section[p] EXCEPT !.op = op]
              /\ op = IF section[p].op = "purge" THEN "delete" ELSE "expire"
      BY <1>4, <1>5, <2>2 DEF Idle
    <3>2. section'[p].op = op /\ section'[p].job = j /\ section'[p].rec = section[p].rec
      BY <1>1, <3>1 DEF Section
    <3>3. section[p].rec.status \in StatusFor(op)
      BY <1>1, <3>1 DEF Entered, StatusFor
    <3>4. op = "expire" => age'[j] > 0 \/ section[p].rec.expired
      BY <1>1, <1>2, <3>1 DEF Entered
    <3>5. QED
      BY <1>3, <2>2, <3>2, <3>3, <3>4 DEF Entered
  <2>3. QED
    BY <2>1, <2>2
<1>6. ASSUME NEW k \in Jobs
      PROVE  FilesOf(k)'
  <2>1. CASE k = j
    <3>1. record'[j] \in {record[j], Gone} /\ files'[j] \subseteq files[j] /\ age'[j] = age[j]
      BY <1>2, <1>3
    <3>2. QED
      BY <1>1, <1>3, <2>1, <3>1, RemovalKeepsFiles
  <2>2. CASE k # j
    <3>1. files'[k] = files[k] /\ purged'[k] = purged[k] /\ FilesOf(k)
      BY <1>3, <2>2 DEF JobInv
    <3>2. QED
      BY <1>2, <3>1 DEF FilesOf, SourcePresent, Downloadable
  <2>3. QED
    BY <2>1, <2>2
<1>7. ASSUME NEW w \in Workers
      PROVE  RunForward(w)'
  BY <1>2 DEF JobInv, RunForward
<1>8. QED
  BY <1>5, <1>6, <1>7 DEF Promises, SectionsEntered, FilesInOrder, RunsForward

LEMMA AbandonPromises ==
    ASSUME JobInv, NEW p \in Procs, Abandon(p)
    PROVE  Promises'
<1> PICK j \in Jobs : j = section[p].job
  BY Inside DEF JobInv, IInv, Abandon
<1>1. /\ TypeOK /\ ~Idle(p) /\ Leave(p) /\ UNCHANGED <<age, at, plan>>
  BY DEF JobInv, IInv, Abandon, run
<1>2. section'[p] = Outside /\ \A q \in Procs \ {p} : section'[q] = section[q]
  BY <1>1, Leaving
<1>3. CASE section[p].op \notin {"purge", "wipe"}
  <2>1. UNCHANGED <<record, files, purged>>
    BY <1>3 DEF Abandon, disk
  <2>2. QED
    BY <1>1, <1>2, <2>1, SectionStepsKeep DEF Idle
<1>4. CASE section[p].op \in {"purge", "wipe"}
  <2>1. /\ \E left \in SUBSET files[j] : files' = [files EXCEPT ![j] = left]
        /\ record' \in {record, [record EXCEPT ![j] = Gone]}
        /\ purged' \in {purged, [purged EXCEPT ![j] = TRUE]}
        /\ section[p].op = "purge" => purged' = [purged EXCEPT ![j] = TRUE]
    BY <1>4 DEF Abandon
  <2>2. /\ files'[j] \subseteq files[j] /\ record'[j] \in {record[j], Gone}
        /\ (section[p].op = "purge" => purged'[j]) /\ (purged[j] => purged'[j])
    <3>1. files'[j] \subseteq files[j]
      <4>1. PICK left \in SUBSET files[j] : files' = [files EXCEPT ![j] = left]
        BY <2>1
      <4>2. QED
        BY <1>1, <4>1 DEF TypeOK
    <3>2. record'[j] \in {record[j], Gone}
      BY <1>1, <2>1 DEF TypeOK
    <3>3. section[p].op = "purge" => purged'[j] = TRUE
      BY <1>1, <2>1 DEF TypeOK
    <3>4. purged[j] => purged'[j] \in {TRUE, purged[j]}
      BY <1>1, <2>1 DEF TypeOK
    <3>5. QED
      BY <3>1, <3>2, <3>3, <3>4, Zenon
  <2>3. \A k \in Jobs \ {j} : files'[k] = files[k] /\ record'[k] = record[k] /\ purged'[k] = purged[k]
    BY <1>1, <2>1 DEF TypeOK
  <2>4. ASSUME NEW q \in Procs, ~Idle(q)'
        PROVE  Entered(q)'
    <3>1. q # p /\ section'[q] = section[q] /\ ~Idle(q)
      BY <1>2, <2>4 DEF Idle
    <3>2. QED
      BY <1>1, <2>3, <3>1, OthersEntered
  <2>5. ASSUME NEW k \in Jobs
        PROVE  FilesOf(k)'
    <3>1. CASE k = j
      BY <1>1, <1>4, <2>2, <3>1, RemovalKeepsFiles
    <3>2. CASE k # j
      <4>1. files'[k] = files[k] /\ record'[k] = record[k] /\ purged'[k] = purged[k] /\ FilesOf(k)
        BY <2>3, <3>2 DEF JobInv
      <4>2. QED
        BY <1>1, <4>1 DEF FilesOf, SourcePresent, Downloadable
    <3>3. QED
      BY <3>1, <3>2
  <2>6. ASSUME NEW w \in Workers
        PROVE  RunForward(w)'
    BY <1>1 DEF JobInv, RunForward
  <2>7. QED
    BY <2>4, <2>5, <2>6 DEF Promises, SectionsEntered, FilesInOrder, RunsForward
<1>5. QED
  BY <1>3, <1>4

-------------------------------------------------------------------------------
(***************************************************************************)
(* The invariant, and the promises about files.                            *)
(***************************************************************************)
LEMMA JobInvInit == Init => JobInv
<1> SUFFICES ASSUME Init
             PROVE  JobInv
  OBVIOUS
<1>1. IInv
  BY IInvInit
<1>2. \A p \in Procs : Idle(p)
  BY DEF Init, Idle
<1>3. ASSUME NEW j \in Jobs
      PROVE  FilesOf(j)
  BY DEF Init, Unborn, FilesOf, Downloadable, Processing
<1>4. ASSUME NEW w \in Workers
      PROVE  RunForward(w)
  BY DEF Init, RunForward
<1>5. QED
  BY <1>1, <1>2, <1>3, <1>4 DEF JobInv

LEMMA WorkerPromises ==
    ASSUME JobInv, NEW w \in Workers, WorkerStep(w)
    PROVE  Promises'
<1> USE DEF disk, clock, run
<1>1. w \in Procs /\ TypeOK
  BY DEF Procs, JobInv, IInv
<1>2. CASE TickBegin(w) \/ ListQueue(w) \/ SkipJob(w) \/ TickEnd(w)
  BY <1>2, IdleStepsKeep DEF TickBegin, ListQueue, SkipJob, TickEnd
<1>3. CASE \E j \in Jobs : BeginRun(w, j)
  BY <1>3, ClaimPromises
<1>4. CASE Advance(w) \/ Beat(w) \/ Handle(w)
  BY <1>4, RunStepPromises
<1>5. CASE Raise(w)
  <2>1. Leave(w) /\ UNCHANGED <<record, files, age, purged, at, plan>>
    BY <1>5 DEF Raise
  <2>2. section'[w] = Outside /\ \A q \in Procs \ {w} : section'[q] = section[q]
    BY <1>1, <2>1, Leaving
  <2>3. QED
    BY <1>1, <2>1, <2>2, SectionStepsKeep DEF Idle
<1>6. CASE EndRun(w)
  <2>1. /\ UNCHANGED <<record, files, age, purged, section, plan>> /\ section[w] = Outside /\ plan[w] = << >>
        /\ at' = [at EXCEPT ![w] = "none"]
    BY <1>6 DEF EndRun, Idle
  <2>2. \A v \in Workers \ {w} : at'[v] = at[v] /\ plan'[v] = plan[v]
    BY <1>1, <2>1 DEF TypeOK
  <2>3. QED
    BY <1>1, <2>1, <2>2, LeavingRunPromises
<1>7. QED
  BY <1>2, <1>3, <1>4, <1>5, <1>6 DEF WorkerStep

LEMMA ResetPromises ==
    ASSUME JobInv, NEW w \in Workers, TickFails(w) \/ Crash(w)
    PROVE  Promises'
<1>1. w \in Procs /\ TypeOK /\ Reset(w) /\ UNCHANGED <<record, files, age, purged>>
  BY DEF Procs, JobInv, IInv, TickFails, Crash, disk
<1>2. /\ section'[w] = Outside /\ plan'[w] = << >>
      /\ \A q \in Procs \ {w} : section'[q] = section[q]
      /\ \A v \in Workers \ {w} : at'[v] = at[v] /\ plan'[v] = plan[v]
  BY <1>1 DEF Reset, TypeOK
<1>3. QED
  BY <1>1, <1>2, LeavingRunPromises

\* Every step keeps it.
LEMMA JobInvStep == JobInv /\ [Next]_vars => JobInv'
<1> SUFFICES ASSUME JobInv, [Next]_vars
             PROVE  JobInv'
  OBVIOUS
<1>1. IInv'
  BY IInvStep DEF JobInv
<1>2. Promises'
  <2>1. CASE UNCHANGED vars
    BY <2>1, IdleStepsKeep DEF vars
  <2>2. ASSUME NEW c \in Clients, ClientStep(c)
        PROVE  Promises'
    BY <2>2, ClientPromises
  <2>3. ASSUME NEW p \in Collectors, BatchBegin(p) \/ BatchEnd(p)
        PROVE  Promises'
    BY <2>3, IdleStepsKeep DEF BatchBegin, BatchEnd, disk, clock, run
  <2>4. ASSUME NEW p \in Workers \cup Collectors, CollectStep(p)
        PROVE  Promises'
    BY <2>4, CollectPromises
  <2>5. ASSUME NEW w \in Workers, WorkerStep(w)
        PROVE  Promises'
    BY <2>5, WorkerPromises
  <2>6. ASSUME NEW w \in Workers, TickFails(w) \/ Stop(w) \/ Restart(w) \/ Crash(w)
        PROVE  Promises'
    <3>1. CASE TickFails(w) \/ Crash(w)
      BY <3>1, ResetPromises
    <3>2. CASE Stop(w) \/ Restart(w)
      BY <3>2, IdleStepsKeep DEF Stop, Restart, disk, clock
    <3>3. QED
      BY <2>6, <3>1, <3>2
  <2>7. ASSUME NEW p \in Procs, SectionStep(p) \/ Abandon(p)
        PROVE  Promises'
    BY <2>7, SavePromises, RemoveFilesPromises, AbandonPromises DEF SectionStep
  <2>8. ASSUME NEW j \in Jobs, Age(j)
        PROVE  Promises'
    BY <2>8, AgePromises
  <2>9. QED
    BY <2>1, <2>2, <2>3, <2>4, <2>5, <2>6, <2>7, <2>8 DEF Next
<1>3. QED
  BY <1>1, <1>2 DEF JobInv, Promises, SectionsEntered, FilesInOrder, RunsForward

\* What sections were let in by, what files a status stands for and the order
\* of the runs hold in every reachable state.
THEOREM JobInvariance == Spec => []JobInv
<1>1. Init => JobInv
  BY JobInvInit
<1>2. JobInv /\ [Next]_vars => JobInv'
  BY JobInvStep
<1>3. QED
  BY <1>1, <1>2, PTL DEF Spec

\* A job that waits for or takes its first transcription has its source,
\* whatever expired, was deleted or interrupted around it.
THEOREM QueuedHaveSource == Spec => []RunnableHasSource
<1>1. JobInv => RunnableHasSource
  BY DEF JobInv, FilesOf, RunnableHasSource
<1>2. QED
  BY <1>1, JobInvariance, PTL

\* A completed job with files of its own keeps its results for its retention
\* period unless its user deletes it.
THEOREM CompletedHaveResults == Spec => []ResultsKept
<1>1. JobInv => ResultsKept
  BY DEF JobInv, FilesOf, ResultsKept
<1>2. QED
  BY <1>1, JobInvariance, PTL

-------------------------------------------------------------------------------
(***************************************************************************)
(* The contract: every write of a record is a step a user may see.         *)
(***************************************************************************)
\* What the contract lets become of one record, seen as its status and its flag.
Allowed(r, w) ==
    \/ w.status = r.status /\ w.cancel = r.cancel
    \/ r.status = "ABSENT" /\ w.status \in {"UPLOADING", "QUEUED"} /\ w.cancel = r.cancel
    \/ w.cancel = r.cancel /\ \/ r.status = "UPLOADING" /\ w.status = "READY"
                              \/ r.status \in {"READY", "AWAITING_REVIEW"} /\ w.status = "QUEUED"
                              \/ r.status = "QUEUED" /\ w.status = "ANALYZING"
                              \/ r.status \in Waiting /\ w.status = "CANCELLED"
    \/ /\ r.status \in Processing /\ ~r.cancel /\ w.cancel = r.cancel
       /\ \/ w.status \in {"AWAITING_REVIEW", "COMPLETED"}
          \/ w.status \in Processing /\ Contract!Progress[w.status] > Contract!Progress[r.status]
    \/ /\ r.status \in Processing /\ w.cancel = r.cancel
       /\ w.status = "FAILED" \/ (r.cancel /\ w.status = "CANCELLED")
    \/ r.status \in Processing /\ w.status = r.status /\ w.cancel = TRUE
    \/ r.status \in {"FAILED", "CANCELLED"} /\ w.status = r.status /\ w.cancel = FALSE
    \/ r.status \in {"FAILED", "CANCELLED"} /\ ~r.cancel /\ w.status = "QUEUED" /\ w.cancel = r.cancel
    \/ r.status \in Terminal /\ w.status = "DELETED" /\ w.cancel = FALSE

LEMMA AllowedIsStep ==
    ASSUME TypeOK, NEW j \in Jobs, NEW w \in Record, record' = [record EXCEPT ![j] = w], Allowed(record[j], w)
    PROVE  [Contract!Next]_(Contract!jobVars)
<1> DEFINE r == record[j]
           S == [k \in Jobs |-> record[k].status]
           C == [k \in Jobs |-> record[k].cancel]
<1>1. /\ S' = [S EXCEPT ![j] = w.status] /\ C' = [C EXCEPT ![j] = w.cancel]
      /\ S[j] = r.status /\ C[j] = r.cancel
      /\ w.status = r.status => S' = S
      /\ w.cancel = r.cancel => C' = C
  BY DEF TypeOK
<1> HIDE DEF S, C
<1>2. /\ (\E k \in Jobs : Contract!Create(k) \/ Contract!Wait(k) \/ Contract!Proceed(k) \/ Contract!Stop(k)
              \/ Contract!RequestCancel(k) \/ Contract!Retry(k) \/ Contract!Delete(k)) => Contract!Next
      /\ UNCHANGED <<S, C>> => UNCHANGED Contract!jobVars
  BY DEF Contract!Next, Contract!jobVars, S, C
<1>3. CASE w.status = r.status /\ w.cancel = r.cancel
  BY <1>1, <1>2, <1>3
<1>4. CASE r.status = "ABSENT" /\ w.status \in {"UPLOADING", "QUEUED"} /\ w.cancel = r.cancel
  <2>1. Contract!Create(j)
    BY <1>1, <1>4 DEF Contract!Create, Contract!Become, S, C
  <2>2. QED
    BY <1>2, <2>1
<1>5. CASE w.cancel = r.cancel /\ \/ r.status = "UPLOADING" /\ w.status = "READY"
                                  \/ r.status \in {"READY", "AWAITING_REVIEW"} /\ w.status = "QUEUED"
                                  \/ r.status = "QUEUED" /\ w.status = "ANALYZING"
                                  \/ r.status \in Waiting /\ w.status = "CANCELLED"
  <2>1. Contract!Wait(j)
    BY <1>1, <1>5 DEF Contract!Wait, Contract!Become, Waiting, S, C
  <2>2. QED
    BY <1>2, <2>1
<1>6. CASE /\ r.status \in Processing /\ ~r.cancel /\ w.cancel = r.cancel
           /\ \/ w.status \in {"AWAITING_REVIEW", "COMPLETED"}
              \/ w.status \in Processing /\ Contract!Progress[w.status] > Contract!Progress[r.status]
  <2>1. Contract!Proceed(j)
    <3>1. /\ S[j] \in Processing /\ ~C[j] /\ C' = C
          /\ \/ S' = [S EXCEPT ![j] = "AWAITING_REVIEW"] \/ S' = [S EXCEPT ![j] = "COMPLETED"]
             \/ \E s \in Processing : Contract!Progress[s] > Contract!Progress[S[j]] /\ S' = [S EXCEPT ![j] = s]
      BY <1>1, <1>6, Zenon
    <3>2. QED
      BY <3>1 DEF Contract!Proceed, Contract!Become, Contract!Processing, Processing, S, C
  <2>2. QED
    BY <1>2, <2>1
<1>7. CASE /\ r.status \in Processing /\ w.cancel = r.cancel
           /\ w.status = "FAILED" \/ (r.cancel /\ w.status = "CANCELLED")
  <2>1. Contract!Stop(j)
    <3>1. /\ S[j] \in Processing /\ C' = C
          /\ S' = [S EXCEPT ![j] = "FAILED"] \/ (C[j] /\ S' = [S EXCEPT ![j] = "CANCELLED"])
      BY <1>1, <1>7, Zenon
    <3>2. QED
      BY <3>1 DEF Contract!Stop, Contract!Become, Contract!Processing, Processing, S, C
  <2>2. QED
    BY <1>2, <2>1
<1>8. CASE r.status \in Processing /\ w.status = r.status /\ w.cancel = TRUE
  <2>1. Contract!RequestCancel(j)
    <3>1. S[j] \in Processing /\ S' = S /\ C' = [C EXCEPT ![j] = TRUE]
      BY <1>1, <1>8, Zenon
    <3>2. QED
      BY <3>1 DEF Contract!RequestCancel, Contract!Processing, Processing, S, C
  <2>2. QED
    BY <1>2, <2>1
<1>9. CASE \/ r.status \in {"FAILED", "CANCELLED"} /\ w.status = r.status /\ w.cancel = FALSE
           \/ r.status \in {"FAILED", "CANCELLED"} /\ ~r.cancel /\ w.status = "QUEUED" /\ w.cancel = r.cancel
  <2>1. Contract!Retry(j)
    BY <1>1, <1>9 DEF Contract!Retry, Contract!Become, S, C
  <2>2. QED
    BY <1>2, <2>1
<1>10. CASE r.status \in Terminal /\ w.status = "DELETED" /\ w.cancel = FALSE
  <2>1. Contract!Delete(j)
    <3>1. S[j] \in Terminal /\ S' = [S EXCEPT ![j] = "DELETED"] /\ C' = [C EXCEPT ![j] = FALSE]
      BY <1>1, <1>10, Zenon
    <3>2. QED
      BY <3>1 DEF Contract!Delete, Contract!Become, Contract!Terminal, Terminal, S, C
  <2>2. QED
    BY <1>2, <2>1
<1>11. QED
  BY <1>3, <1>4, <1>5, <1>6, <1>7, <1>8, <1>9, <1>10 DEF Allowed

\* What each write makes of the flag.
LEMMA WrittenFlag ==
    ASSUME JobInv, NEW p \in Procs, ~Idle(p), NEW r, r = section[p].rec, NEW w, w = Written(p)
    PROVE  /\ section[p].op \notin {"cancel", "reset", "delete"} => w.cancel = r.cancel
           /\ section[p].op = "cancel" => w.cancel = IF r.status \in Waiting THEN r.cancel ELSE TRUE
           /\ section[p].op = "reset" => w.cancel = FALSE
           /\ section[p].op = "fail" => w.status = IF r.cancel THEN "CANCELLED" ELSE "FAILED"
           /\ section[p].op = "recover" => w.status = "FAILED"
<1>1. r \in Record /\ section[p].op \in Op
  BY Inside DEF JobInv, IInv
<1>2. CASE section[p].op \in {"create", "complete", "admit", "start", "requeue", "render"}
  BY <1>1, <1>2 DEF Written, Enqueue, Record
<1>3. CASE section[p].op \in {"append", "edit", "beat", "reset", "purge", "wipe"}
  BY <1>1, <1>3 DEF Written, Record
<1>4. CASE section[p].op \in {"cancel", "expire", "recover", "fail", "advance"}
  BY <1>1, <1>4 DEF Written, CancelOf, ExpireOf, FailOf, AdvanceOf, Finish, Record
<1>5. QED
  BY <1>1, <1>2, <1>3, <1>4 DEF Op

\* A run claims its job with the first stage, goes on to a later one, and only
\* when no cancellation was requested.
LEMMA AdvanceAllowed ==
    ASSUME JobInv, NEW p \in Procs, ~Idle(p), section[p].op = "advance",
           NEW r, r = section[p].rec, NEW w, w = Written(p)
    PROVE  Allowed(r, w)
<1>1. /\ TypeOK /\ SectionInv(p) /\ Entered(p) /\ p \in Workers /\ r = record[section[p].job]
      /\ w.status = Head(plan[p]) /\ w.cancel = r.cancel
      /\ Head(plan[p]) \in Processing \cup {"COMPLETED", "AWAITING_REVIEW"}
  <2>1. TypeOK /\ SectionInv(p) /\ Entered(p) /\ "advance" \notin {"cancel", "reset", "delete"}
    BY DEF JobInv, IInv
  <2>2. p \in Workers /\ Head(plan[p]) \in Processing \cup {"COMPLETED", "AWAITING_REVIEW"}
    BY NextOfRun
  <2>3. r = record[section[p].job] /\ w.status = Head(plan[p])
    BY WrittenParts
  <2>4. w.cancel = r.cancel
    BY <2>1, WrittenFlag
  <2>5. QED
    BY <2>1, <2>2, <2>3, <2>4
<1>2. /\ plan[p] # << >> /\ section[p].job = job[p] /\ mode[p] = "run"
      /\ RunStatus(p) /\ RunForward(p)
  BY <1>1 DEF JobInv, IInv, SectionInv
<1>3. r.status = at[p] /\ (at[p] \in Processing \/ at[p] = "QUEUED")
  BY <1>1, <1>2 DEF RunStatus
<1>4. CASE at[p] = "QUEUED"
  <2>1. w.status = "ANALYZING"
    BY <1>1, <1>2, <1>4 DEF RunForward
  <2>2. QED
    BY <1>1, <1>3, <1>4, <2>1 DEF Allowed
<1>5. CASE at[p] \in Processing
  <2>1. ~r.cancel
    BY <1>1, <1>5 DEF Entered, Processing
  <2>2. w.status \in Processing => Contract!Progress[r.status] <= Contract!Progress[w.status]
    BY <1>1, <1>2, <1>3, <1>5 DEF RunForward, Onward
  <2>3. CASE w.status \in Processing
    <3>1. w.status = r.status \/ Contract!Progress[w.status] > Contract!Progress[r.status]
      BY <1>3, <1>5, <2>2, <2>3 DEF Processing, Contract!Progress
    <3>2. QED
      BY <1>1, <1>3, <1>5, <2>1, <2>3, <3>1 DEF Allowed
  <2>4. CASE w.status \in {"COMPLETED", "AWAITING_REVIEW"}
    BY <1>1, <1>3, <1>5, <2>1, <2>4 DEF Allowed
  <2>5. QED
    BY <1>1, <2>3, <2>4
<1>6. QED
  BY <1>3, <1>4, <1>5

\* The same of every other write.
LEMMA SaveAllowed ==
    ASSUME JobInv, NEW p \in Procs, Save(p), NEW r, r = section[p].rec, NEW w, w = Written(p)
    PROVE  Allowed(r, w)
<1> DEFINE op == section[p].op
<1>1. ~Idle(p) /\ r \in Record /\ Entered(p) /\ op \in Op \ {"purge", "wipe"}
  BY SaveType, Inside DEF JobInv, IInv, Save
<1>2. /\ r.status \in StatusFor(op)
      /\ op = "create" => w.status = "UPLOADING"
      /\ op = "complete" => w.status = "READY"
      /\ op \in {"admit", "start", "requeue", "render"} => w.status = "QUEUED"
      /\ op \in {"append", "edit", "beat"} => w = r
      /\ op = "cancel" => w.status = IF r.status \in Waiting THEN "CANCELLED" ELSE r.status
      /\ op = "reset" => w.status = r.status
      /\ op = "delete" => w = Gone
      /\ op = "expire" => w.status = IF r.status \in Terminal THEN r.status ELSE "CANCELLED"
  BY <1>1, WrittenParts
<1>3. /\ op \notin {"cancel", "reset", "delete"} => w.cancel = r.cancel
      /\ op = "cancel" => w.cancel = IF r.status \in Waiting THEN r.cancel ELSE TRUE
      /\ op = "reset" => w.cancel = FALSE
      /\ op = "fail" => w.status = IF r.cancel THEN "CANCELLED" ELSE "FAILED"
      /\ op = "recover" => w.status = "FAILED"
  BY <1>1, WrittenFlag
<1>4. op = "requeue" => ~r.cancel
  BY <1>1 DEF Entered
<1> HIDE DEF op
<1>5. CASE op \in {"create", "admit", "complete", "start", "render", "requeue"}
  BY <1>2, <1>3, <1>4, <1>5 DEF Allowed, StatusFor
<1>6. CASE op \in {"append", "edit", "beat"}
  BY <1>2, <1>6 DEF Allowed
<1>7. CASE op = "cancel"
  BY <1>2, <1>3, <1>7 DEF Allowed, StatusFor
<1>8. CASE op = "reset"
  BY <1>2, <1>3, <1>8 DEF Allowed, StatusFor
<1>9. CASE op = "delete"
  BY <1>2, <1>9 DEF Allowed, StatusFor, Gone
<1>10. CASE op = "expire"
  BY <1>2, <1>3, <1>10 DEF Allowed, StatusFor, Waiting
<1>11. CASE op \in {"recover", "fail"}
  BY <1>2, <1>3, <1>11 DEF Allowed, StatusFor
<1>12. CASE op = "advance"
  BY <1>1, <1>12, AdvanceAllowed DEF op
<1>13. QED
  BY <1>1, <1>5, <1>6, <1>7, <1>8, <1>9, <1>10, <1>11, <1>12 DEF Op

\* An interrupted deletion may have been complete.
LEMMA AbandonAllowed ==
    ASSUME JobInv, NEW p \in Procs, Abandon(p)
    PROVE  [Contract!Next]_(Contract!jobVars)
<1>1. TypeOK /\ ~Idle(p) /\ Entered(p) /\ SectionInv(p) /\ section[p].job \in Jobs
  BY Inside DEF JobInv, IInv, Abandon
<1>2. CASE record' = record
  BY <1>2 DEF Contract!jobVars
<1>3. CASE record' # record
  <2>1. section[p].op = "purge" /\ record' = [record EXCEPT ![section[p].job] = Gone]
    BY <1>3 DEF Abandon, disk
  <2>2. record[section[p].job].status \in Terminal
    BY <1>1, <2>1 DEF Entered, SectionInv, StatusFor
  <2>3. Allowed(record[section[p].job], Gone) /\ Gone \in Record
    BY <2>2 DEF Allowed, Gone, Record
  <2>4. QED
    BY <1>1, <2>1, <2>3, AllowedIsStep
<1>4. QED
  BY <1>2, <1>3

LEMMA ContractStep == JobInv /\ [Next]_vars => [Contract!Next]_(Contract!jobVars)
<1> SUFFICES ASSUME JobInv, [Next]_vars
             PROVE  [Contract!Next]_(Contract!jobVars)
  OBVIOUS
<1>1. CASE record' = record
  BY <1>1 DEF Contract!jobVars
<1>2. CASE record' # record
  <2>1. PICK p \in Procs : Save(p) \/ Abandon(p)
    <3>1. ~(\E c \in Clients : ClientStep(c)) /\ ~(\E p \in Collectors : BatchBegin(p) \/ BatchEnd(p))
      BY <1>2 DEF ClientStep, CreateUpload, CreateWorkflow, UploadChunk, CompleteUpload, StartJob, CancelJob, RetryJob,
                  UpdateSubtitleDraft, DeleteJob, Handler, BatchBegin, BatchEnd, disk
    <3>2. ~(\E p \in Workers \cup Collectors : CollectStep(p)) /\ ~(\E j \in Jobs : Age(j))
      BY <1>2 DEF CollectStep, Collect, CollectBusy, Age, disk
    <3>3. ~(\E w \in Workers : WorkerStep(w))
      BY <1>2 DEF WorkerStep, TickBegin, ListQueue, BeginRun, SkipJob, TickEnd, Advance, Beat, Raise, Handle, EndRun, disk
    <3>4. ~(\E w \in Workers : TickFails(w) \/ Stop(w) \/ Restart(w) \/ Crash(w))
      BY <1>2 DEF TickFails, Stop, Restart, Crash, disk
    <3>5. \A p \in Procs : ~RemoveFiles(p)
      BY <1>2 DEF RemoveFiles
    <3>6. ~UNCHANGED vars
      BY <1>2 DEF vars
    <3>7. QED
      BY <3>1, <3>2, <3>3, <3>4, <3>5, <3>6 DEF Next, SectionStep
  <2>2. CASE Save(p)
    <3>1. /\ TypeOK /\ TypeOK' /\ ~Idle(p) /\ section[p].job \in Jobs
          /\ record' = [record EXCEPT ![section[p].job] = Written(p)]
      BY <2>2, SaveType, Inside DEF JobInv, IInv
    <3>2. record'[section[p].job] = Written(p) /\ record'[section[p].job] \in Record
      BY <3>1 DEF TypeOK
    <3>3. Allowed(section[p].rec, Written(p)) /\ section[p].rec = record[section[p].job]
      BY <2>2, <3>1, SaveAllowed, WrittenParts
    <3>4. QED
      BY <3>1, <3>2, <3>3, AllowedIsStep
  <2>3. CASE Abandon(p)
    BY <2>3, AbandonAllowed
  <2>4. QED
    BY <2>1, <2>2, <2>3
<1>3. QED
  BY <1>1, <1>2

\* Whatever number of requests, batches and workers act on a job and wherever
\* one of them is interrupted, its user sees what JobContract promises.
THEOREM FollowsContract == Spec => ContractSpec
<1>1. Init => Contract!Init
  BY DEF Init, Contract!Init, Unborn
<1>2. JobInv /\ [Next]_vars => [Contract!Next]_(Contract!jobVars)
  BY ContractStep
<1>3. QED
  BY <1>1, <1>2, JobInvariance, PTL DEF Spec, ContractSpec, Contract!Spec
===============================================================================
