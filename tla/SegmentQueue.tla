------------------------------ MODULE SegmentQueue ------------------------------
(***************************************************************************)
(* run_segment_queue (transcription_queue.py): the requests for the        *)
(* segments of one transcription, or the batches of one translation, a few *)
(* at a time, with a budget of attempts per segment and a receipt file     *)
(* from which a later run of the job goes on.                              *)
(*                                                                         *)
(* The loop and the requests are tasks of one event loop, so they          *)
(* interleave only where the loop awaits: each action of the loop is what  *)
(* it does between two awaits, and requests are answered in between.       *)
(***************************************************************************)
EXTENDS Naturals, FiniteSets

CONSTANTS
    Count,          \* segments of the job
    Concurrency,    \* requests in flight
    Attempts,       \* attempts per segment and run
    Placeholders,   \* a blocked segment is given a placeholder (blocked_result is passed)
    MaxDelay,       \* bound: the longest delay a provider asks for
    MaxRuns,        \* bound: runs of the job
    MaxFaults       \* bound: crashes, cancellations and failed writes

ASSUME Parameters ==
    /\ Count \in Nat
    /\ Concurrency \in Nat \ {0}
    /\ Attempts \in Nat \ {0}
    /\ Placeholders \in BOOLEAN

ASSUME Bounds == MaxDelay \in Nat /\ MaxRuns \in Nat /\ MaxFaults \in Nat

Segments == 0 .. Count - 1

VARIABLES
    \* the receipt file
    saved,        \* segments with a result in it
    savedBlanks,  \* those of them whose result is a placeholder
    savedBlocks,  \* its content_blocks
    \* the locals of the run
    results,      \* segments with a result
    blanks,       \* those of them whose result is a placeholder
    blocks,       \* content_blocks: segments the provider refused
    pending,      \* segments not yet tried
    running,      \* [Segments -> "idle", or the state of its request]
    retries,      \* segments to be tried again
    due,          \* [Segments -> time until its retry is due]
    counts,       \* [Segments -> attempts begun]
    failed,       \* segments given up
    halted,       \* nothing is admitted any more
    cooldown,     \* time until the shared cooldown is over
    pc,           \* where the run awaits
    ended,        \* how the last run ended
    runs, faults

receipt == <<saved, savedBlanks, savedBlocks>>
found == <<results, blanks, blocks>>
work == <<pending, retries, due, counts, failed, halted, cooldown>>
vars == <<saved, savedBlanks, savedBlocks, results, blanks, blocks, pending, running, retries, due, counts,
          failed, halted, cooldown, pc, ended, runs, faults>>

-------------------------------------------------------------------------------
\* A valid answer, an error or answer worth another attempt, one with a shared
\* cooldown (429), refused content, and any other error (storage included).
Outcome == {"valid", "retry", "limited", "blocked", "fatal"}

InFlight == {i \in Segments : running[i] # "idle"}
Answered == {i \in Segments : running[i] \in Outcome}
With(o) == {i \in Segments : running[i] = o}

GreaterOf(a, b) == IF a >= b THEN a ELSE b

\* The receipt file is replaced as a whole.
Write == savedBlanks' = blanks /\ savedBlocks' = blocks /\ saved' = results

\* Seeded defect: a run starts from the beginning.
BeginAfresh ==
    /\ pc = "idle" /\ pc' = "opening"
    /\ runs < MaxRuns /\ runs' = runs + 1
    /\ results' = {} /\ blanks' = {} /\ blocks' = {}
    /\ pending' = Segments
    /\ retries' = {} /\ failed' = {} /\ halted' = FALSE /\ cooldown' = 0
    /\ counts' = [i \in Segments |-> 0] /\ due' = [i \in Segments |-> 0]
    /\ UNCHANGED <<receipt, running, ended, faults>>

\* The run goes on from the receipt; every missing segment gets a new budget.
Begin ==
    /\ pc = "idle" /\ pc' = "opening"
    /\ runs < MaxRuns /\ runs' = runs + 1
    /\ results' = saved /\ blanks' = savedBlanks /\ blocks' = savedBlocks \cap saved
    /\ pending' = Segments \ saved
    /\ retries' = {} /\ failed' = {} /\ halted' = FALSE /\ cooldown' = 0
    /\ counts' = [i \in Segments |-> 0] /\ due' = [i \in Segments |-> 0]
    /\ UNCHANGED <<receipt, running, ended, faults>>

\* publish(): the receipt, then the progress of the job record.
After == [opening |-> "loop", admitted |-> "waiting", inspected |-> "loop"]

Publish ==
    /\ pc \in DOMAIN After
    /\ pc' = After[pc]
    /\ Write
    /\ UNCHANGED <<found, running, work, ended, runs, faults>>

\* Either of the two writes fails; the run is left through its finally clause.
PublishFails ==
    /\ pc \in DOMAIN After
    /\ pc' = "unwinding"
    /\ Write \/ UNCHANGED receipt
    /\ faults < MaxFaults /\ faults' = faults + 1
    /\ UNCHANGED <<found, running, work, ended, runs>>

-------------------------------------------------------------------------------
(***************************************************************************)
(* Admission, after check() has returned.                                  *)
(***************************************************************************)
Left == pending # {} \/ retries # {} \/ InFlight # {}
DueRetries == {i \in retries : due[i] = 0}
Ready == DueRetries \cup pending

\* Due retries by index, then untouched segments by index.
Before(i, k) == IF i \in DueRetries <=> k \in DueRetries THEN i < k ELSE i \in DueRetries

\* The requests that fill the free slots.
Admissible(S) ==
    /\ S \subseteq Ready
    /\ \A i \in S, k \in Ready \ S : Before(i, k)
    /\ Cardinality(S) + Cardinality(InFlight) <= Concurrency
    /\ Cardinality(S) + Cardinality(InFlight) = Concurrency \/ S = Ready

\* Seeded defect: attempts are not counted.
StartUncounted(S) ==
    /\ pending' = pending \ S
    /\ retries' = retries \ S
    /\ running' = [i \in Segments |-> IF i \in S THEN "open" ELSE running[i]]
    /\ counts' = [i \in Segments |-> IF i \in S THEN 1 ELSE counts[i]]
    /\ UNCHANGED <<due, failed, halted, cooldown>>

Start(S) ==
    /\ pending' = pending \ S
    /\ retries' = retries \ S
    /\ counts' = [i \in Segments |-> IF i \in S THEN counts[i] + 1 ELSE counts[i]]
    /\ running' = [i \in Segments |-> IF i \in S THEN "open" ELSE running[i]]
    /\ UNCHANGED <<due, failed, halted, cooldown>>

Admit ==
    /\ pc = "loop"
    /\ Left
    /\ ~halted
    /\ cooldown = 0
    /\ \E S \in SUBSET Ready :
          /\ Admissible(S)
          /\ S # {}
          /\ Start(S)
    /\ pc' = "admitted"
    /\ UNCHANGED <<receipt, found, ended, runs, faults>>

\* Nothing to admit: wait for the requests in flight.  Without any the loop
\* sleeps and looks again, which is no step.
Await ==
    /\ pc = "loop"
    /\ InFlight # {}
    /\ halted \/ cooldown > 0 \/ Ready = {} \/ Cardinality(InFlight) >= Concurrency
    /\ pc' = "waiting"
    /\ UNCHANGED <<receipt, found, running, work, ended, runs, faults>>

\* Seeded defect: a failure ends the loop at once.
FinishAtOnce ==
    /\ pc = "loop"
    /\ halted \/ ~Left
    /\ pc' = "idle"
    /\ ended' = IF failed = {} THEN "complete" ELSE "partial"
    /\ running' = [i \in Segments |-> "idle"]
    /\ UNCHANGED <<receipt, found, work, runs, faults>>

\* The loop ends: everything is done, or a failure has stopped admission and
\* the last request in flight has been answered.
Finish ==
    /\ pc = "loop"
    /\ InFlight = {}
    /\ halted \/ ~Left
    /\ pc' = "idle"
    /\ ended' = IF failed = {} THEN "complete" ELSE "partial"
    /\ UNCHANGED <<receipt, found, running, work, runs, faults>>

\* check() raises: the job is cancelled or the worker is stopping.
CheckFails ==
    /\ pc = "loop"
    /\ Left
    /\ pc' = "unwinding"
    /\ faults < MaxFaults /\ faults' = faults + 1
    /\ UNCHANGED <<receipt, found, running, work, ended, runs>>

-------------------------------------------------------------------------------
(***************************************************************************)
(* Answers.                                                                *)
(***************************************************************************)
Reply(i, o) ==
    /\ running[i] = "open"
    /\ running' = [running EXCEPT ![i] = o]
    /\ UNCHANGED <<receipt, found, work, pc, ended, runs, faults>>

\* The attempts that may be repeated, and those that were the last.
Again == {i \in With("retry") \cup With("limited") : counts[i] < Attempts}
Spent == (With("retry") \cup With("limited")) \ Again

\* Twice as long every time, and at least as long as the provider asks for.
Backoff(i, asked) == GreaterOf(2 ^ (counts[i] - 1), asked)

LastOf(D, d) == CHOOSE m \in {d[i] : i \in D} : \A i \in D : d[i] <= m

\* asyncio.wait has returned: every answered request is inspected before
\* anything new is admitted, also after one of them has failed.
Inspect ==
    LET refused == IF Placeholders THEN {} ELSE With("blocked")
        worse == Spent \cup With("fatal") \cup refused
        kept == Answered \ (Again \cup worse)
    IN  /\ pc = "waiting"
        /\ Answered # {}
        /\ pc' = "inspected"
        /\ results' = results \cup kept
        /\ blanks' = blanks \cup (kept \cap With("blocked"))
        /\ blocks' = blocks \cup With("blocked")
        /\ failed' = failed \cup worse
        /\ halted' = (halted \/ worse # {})
        /\ retries' = retries \cup Again
        /\ \E asked \in [Again -> 0 .. MaxDelay] :
              /\ due' = [i \in Segments |-> IF i \in Again THEN Backoff(i, asked[i]) ELSE due[i]]
              /\ cooldown' = IF Again \cap With("limited") = {} THEN cooldown
                             ELSE GreaterOf(cooldown, LastOf(Again \cap With("limited"), due'))
        /\ running' = [i \in Segments |-> IF i \in Answered THEN "idle" ELSE running[i]]
        /\ UNCHANGED <<receipt, pending, counts, ended, runs, faults>>

\* A quarter of a second without an answer.
WaitTimeout ==
    /\ pc = "waiting"
    /\ Answered = {}
    /\ pc' = "loop"
    /\ UNCHANGED <<receipt, found, running, work, ended, runs, faults>>

\* Time passes.
Tick ==
    /\ pc # "idle"
    /\ cooldown > 0 \/ \E i \in retries : due[i] > 0
    /\ due' = [i \in Segments |-> IF due[i] > 0 THEN due[i] - 1 ELSE 0]
    /\ cooldown' = IF cooldown > 0 THEN cooldown - 1 ELSE 0
    /\ UNCHANGED <<receipt, found, running, pending, retries, counts, failed, halted, pc, ended, runs, faults>>

-------------------------------------------------------------------------------
\* finally: the requests in flight are cancelled and waited for.
Unwind ==
    /\ pc = "unwinding"
    /\ \E i \in InFlight : running' = [running EXCEPT ![i] = "idle"]
    /\ UNCHANGED <<receipt, found, work, pc, ended, runs, faults>>

\* Seeded defect: cancelled requests are not waited for.
UnwoundEarly ==
    /\ pc = "unwinding"
    /\ pc' = "idle"
    /\ ended' = "interrupted"
    /\ UNCHANGED <<receipt, found, running, work, runs, faults>>

Unwound ==
    /\ pc = "unwinding"
    /\ InFlight = {}
    /\ pc' = "idle"
    /\ ended' = "interrupted"
    /\ UNCHANGED <<receipt, found, running, work, runs, faults>>

\* The worker process ends and takes its requests with it.
Crash ==
    /\ pc # "idle"
    /\ pc' = "idle"
    /\ ended' = "interrupted"
    /\ running' = [i \in Segments |-> "idle"]
    /\ faults < MaxFaults /\ faults' = faults + 1
    /\ UNCHANGED <<receipt, found, work, runs>>

-------------------------------------------------------------------------------
Init ==
    /\ saved = {} /\ savedBlanks = {} /\ savedBlocks = {}
    /\ results = {} /\ blanks = {} /\ blocks = {}
    /\ pending = {} /\ retries = {} /\ failed = {}
    /\ running = [i \in Segments |-> "idle"]
    /\ due = [i \in Segments |-> 0]
    /\ counts = [i \in Segments |-> 0]
    /\ halted = FALSE
    /\ cooldown = 0
    /\ pc = "idle"
    /\ ended = "none"
    /\ runs = 0 /\ faults = 0

Loop == Publish \/ Admit \/ Await \/ Finish \/ Inspect \/ WaitTimeout \/ Unwind \/ Unwound

Next ==
    \/ Begin
    \/ Loop
    \/ Tick
    \/ PublishFails \/ CheckFails \/ Crash
    \/ \E i \in Segments, o \in Outcome : Reply(i, o)

Spec == Init /\ [][Next]_vars

\* The event loop runs the loop and the requests, time passes, and the deadline
\* of the transport answers a request that nobody answers.
Fairness ==
    /\ WF_vars(Loop)
    /\ WF_vars(Tick)
    /\ \A i \in Segments : WF_vars(\E o \in Outcome : Reply(i, o))

FairSpec == Spec /\ Fairness

-------------------------------------------------------------------------------
(***************************************************************************)
(* Properties.                                                             *)
(***************************************************************************)
\* Every variable has its type.
TypeOK ==
    /\ saved \subseteq Segments /\ savedBlanks \subseteq Segments /\ savedBlocks \subseteq Segments
    /\ results \subseteq Segments /\ blanks \subseteq Segments /\ blocks \subseteq Segments
    /\ pending \subseteq Segments /\ retries \subseteq Segments /\ failed \subseteq Segments
    /\ running \in [Segments -> Outcome \cup {"idle", "open"}]
    /\ counts \in [Segments -> 0 .. Attempts]
    /\ halted \in BOOLEAN
    /\ pc \in {"idle", "opening", "loop", "admitted", "waiting", "inspected", "unwinding"}
    /\ ended \in {"none", "complete", "partial", "interrupted"}

\* Every segment of a run is in exactly one place: it has a result, is untried,
\* is asked for, waits for another attempt, or is given up.
Accounted ==
    /\ results \cup pending \cup InFlight \cup retries \cup failed = Segments
    /\ results \cap (pending \cup InFlight \cup retries \cup failed) = {}
    /\ pending \cap (InFlight \cup retries \cup failed) = {}
    /\ InFlight \cap (retries \cup failed) = {}
    /\ retries \cap failed = {}

\* The inductive invariant.  A live run knows at least what is on disk and has
\* attempts left for whatever it may still ask; only a failure halts it.
SegmentInv ==
    /\ TypeOK
    /\ savedBlanks \subseteq saved \cap savedBlocks
    /\ pc = "idle" => InFlight = {}
    /\ pc \notin {"idle", "unwinding"} =>
          /\ Accounted
          /\ halted <=> failed # {}
    /\ pc # "idle" =>
          /\ saved \subseteq results
          /\ blanks \subseteq results \cap blocks
          /\ results \cap InFlight = {}
          /\ (results \ saved) \cap (pending \cup retries) = {}
    /\ pc \in {"loop", "admitted", "waiting"} => saved = results /\ savedBlanks = blanks
    /\ \A i \in Segments : pc # "idle" /\ i \in pending \cup retries => counts[i] < Attempts

\* A run that ends on its own leaves every result it got in the receipt file: a
\* complete one has them all, a partial one has something it gave up.
EndSound ==
    /\ ended = "complete" /\ pc = "idle" => saved = Segments
    /\ ended = "partial" /\ pc = "idle" => saved = results /\ failed # {} /\ failed \cap saved = {}

\* No result that stands in for refused content goes unreported, also in a run
\* that found it in the receipt of an earlier one: the job record tells from the
\* content_blocks of the queue which passages have to be looked at.
BlanksReported == pc # "idle" => blanks \subseteq blocks

\* After a failure nothing more is asked, and no valid answer that arrives
\* afterwards, or arrived together with the failure, is dropped unless the run
\* is interrupted.
StopAndDrain ==
    [][pc \notin {"idle", "unwinding"} /\ (pc' = "idle" => ended' # "interrupted") =>
          /\ failed # {} => \A i \in Segments : running[i] = "idle" => running'[i] = "idle"
          /\ \A i \in Segments : running[i] = "valid" /\ running'[i] = "idle" => i \in results']_vars

\* What was paid for and kept is never asked for again, run after run.
Receipts == INSTANCE SegmentReceipts WITH
                kept <- saved,
                asked <- IF pc = "idle" THEN {} ELSE InFlight \cup (results \ saved)
ReceiptsSpec == Receipts!Spec

\* A run whose requests are answered, or cut off by their deadline, ends.
RunEnds == pc # "idle" ~> pc = "idle"

\* What a live run knows, and what it leaves when it ends.
QueueSound == SegmentInv /\ EndSound
===============================================================================
