------------------------------ MODULE JobInvariant ------------------------------
(***************************************************************************)
(* The inductive invariant of JobLifecycle: why no two processes are ever  *)
(* at work on one record, and why a run owns its job.                      *)
(***************************************************************************)
EXTENDS JobLifecycle

\* The locks of its job that a section holds for as long as it lasts; what else
\* it takes (the admission lock of a start) matters to other parts of the system.
LocksOf(op, j) ==
    CASE op \in {"create", "admit"}                                             -> {AdmissionLock}
      [] op \in {"append", "complete", "start", "cancel", "advance", "beat", "fail"} -> {StateLock(j)}
      [] OTHER                                                                  -> {ExecutionLock(j), StateLock(j)}

\* What the entry into a section established is still true inside it.
SectionInv(p) ==
    LET s == section[p]
    IN  /\ \A l \in LocksOf(s.op, s.job) : held[l] = p
        /\ s.rec = record[s.job]
        /\ s.op \in {"create", "admit"} <=> s.rec.status = "ABSENT"
        /\ s.op = "complete" => s.rec.status = "UPLOADING"
        /\ s.op = "start" => s.rec.status = "READY"
        /\ IF p \in Workers
           THEN \/ mode[p] = "collect" /\ s.op = "recover"
                \/ mode[p] = "run" /\ s.op \in {"advance", "beat"} /\ s.job = job[p] /\ plan[p] # << >>
                \/ mode[p] = "handler" /\ s.op = "fail" /\ s.job = job[p] /\ plan[p] # << >>
           ELSE s.op \notin {"advance", "beat", "fail"}

\* A tick holds the serial lock, a run the execution lock of its job as well.
WorkerLocks(w) ==
    /\ mode[w] # "idle" => held[SerialLock] = w
    /\ IF mode[w] \in {"run", "handler"}
       THEN job[w] \in Jobs /\ held[ExecutionLock(job[w])] = w
       ELSE job[w] = NoJob /\ plan[w] = << >>

\* All but the last status of a run are statuses of a job that is being run.
RunLike(p) == \A i \in 1 .. Len(p) - 1 : p[i] \in Processing

\* Only the claim of a job finds it in another status.
RunStatus(w) ==
    mode[w] \in {"run", "handler"} /\ plan[w] # << >> =>
        /\ record[job[w]].status = at[w]
        /\ at[w] \in Processing \/ (at[w] = "QUEUED" /\ section[w].op = "advance")

\* The inductive invariant: together with the types these facts make a section
\* the only one on its job, and a run's record its own.
IInv ==
    /\ TypeOK
    /\ \A p \in Procs : ~Idle(p) => SectionInv(p)
    /\ \A w \in Workers : WorkerLocks(w) /\ RunLike(plan[w]) /\ RunStatus(w)

-------------------------------------------------------------------------------
(***************************************************************************)
(* What the writes of a section rest on: the guards that let it in still   *)
(* hold, for nobody else touches its record or its files.                  *)
(***************************************************************************)
\* The status a section found.
StatusFor(op) ==
    CASE op \in {"create", "admit"}        -> {"ABSENT"}
      [] op \in {"append", "complete"}     -> {"UPLOADING"}
      [] op = "start"                      -> {"READY"}
      [] op = "cancel"                     -> Waiting \cup Processing
      [] op \in {"reset", "requeue"}       -> {"FAILED", "CANCELLED"}
      [] op \in {"edit", "render"}         -> {"AWAITING_REVIEW"}
      [] op \in {"purge", "delete"}        -> Terminal
      [] op \in {"wipe", "expire"}         -> Terminal \cup {"UPLOADING", "AWAITING_REVIEW"}
      [] op \in {"recover", "beat", "fail"} -> Processing
      [] OTHER                             -> {"QUEUED"} \cup Processing

Entered(p) ==
    LET s == section[p]
        j == s.job
    IN  /\ s.rec.status \in StatusFor(s.op)
        /\ s.op \in {"start", "reset", "requeue"} => SourcePresent(j)
        /\ s.op = "requeue" => ~s.rec.cancel
        /\ s.op \in {"wipe", "expire"} => age[j] > 0 \/ s.rec.expired
        /\ s.op = "expire" => files[j] = {}
        /\ s.op = "advance" =>
              /\ at[p] = "QUEUED" \/ ~s.rec.cancel
              /\ Head(plan[p]) = "COMPLETED" /\ OwnsInput(j) => "input" \in files[j]

\* A job that has expired has lost its own input for good, so that it cannot
\* complete again.
FilesOf(j) ==
    /\ record[j].status \in {"QUEUED"} \cup Processing /\ ~record[j].ready => SourcePresent(j)
    /\ OwnsInput(j) => Downloadable(j)
    /\ record[j].status = "COMPLETED" => record[j].done
    /\ record[j].expired =>
          /\ record[j].status \notin {"ABSENT", "UPLOADING", "READY"}
          /\ OwnsInput(j) => "input" \notin files[j]

\* A run goes through the stages in their order, and has two ends.
Onward(s, t) == t \in Processing => Contract!Progress[s] <= Contract!Progress[t]

Forward(p) ==
    /\ \A i \in 1 .. Len(p) - 1 : Onward(p[i], p[i + 1])
    /\ p # << >> => p[Len(p)] \in {"COMPLETED", "AWAITING_REVIEW"}

RunForward(w) ==
    plan[w] # << >> =>
        /\ Forward(plan[w])
        /\ at[w] = "QUEUED" => Head(plan[w]) = "ANALYZING"
        /\ at[w] \in Processing => Onward(at[w], Head(plan[w]))

\* Inductive as well, and what JobContract and the promises about files rest on.
JobInv ==
    /\ IInv
    /\ \A p \in Procs : ~Idle(p) => Entered(p)
    /\ \A j \in Jobs : FilesOf(j)
    /\ \A w \in Workers : RunForward(w)
===============================================================================
