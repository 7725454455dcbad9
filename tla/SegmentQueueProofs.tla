--------------------------- MODULE SegmentQueueProofs ---------------------------
(***************************************************************************)
(* Theorems about SegmentQueue, for any number of segments, slots and      *)
(* attempts.                                                               *)
(***************************************************************************)
EXTENDS SegmentQueue, ProcessRun, TLAPS

\* The initial state, in which nothing is in flight.
LEMMA SegmentInit == Init => SegmentInv
  <1> SUFFICES ASSUME Init PROVE SegmentInv
    OBVIOUS
  <1>1. counts \in [Segments -> 0 .. Attempts]
    BY Parameters DEF Init
  <1>2. TypeOK
    BY <1>1 DEF Init, TypeOK
  <1>3. InFlight = {}
    BY DEF Init, InFlight
  <1> QED
    BY <1>2, <1>3 DEF Init, SegmentInv

\* A run begins with exactly what the receipt has, and tries the rest.
LEMMA BeginStep == SegmentInv /\ Begin => SegmentInv'
  <1> SUFFICES ASSUME SegmentInv, Begin PROVE SegmentInv'
    OBVIOUS
  <1>0. counts' \in [Segments -> 0 .. Attempts]
    BY Parameters DEF Begin
  <1>1. TypeOK'
    BY <1>0 DEF SegmentInv, TypeOK, Begin, receipt
  <1>2. InFlight' = {} /\ InFlight = {}
    BY DEF SegmentInv, Begin, InFlight
  <1>3. Accounted'
    BY <1>2 DEF SegmentInv, TypeOK, Begin, receipt, Accounted
  <1> QED
    BY <1>1, <1>2, <1>3, Parameters DEF SegmentInv, TypeOK, Begin, receipt

\* What is written is what the run has, a superset of what was there.
LEMMA WriteStep ==
    ASSUME SegmentInv, Publish \/ PublishFails
    PROVE  SegmentInv'
  <1>1. TypeOK'
    BY DEF SegmentInv, TypeOK, Publish, PublishFails, Write, After, receipt, found, work
  <1>2. InFlight' = InFlight
    BY DEF Publish, PublishFails, InFlight
  <1>3. pc # "idle" /\ pc # "unwinding" /\ pc' # "idle" /\ pc \in {"opening", "admitted", "inspected"}
    BY DEF Publish, PublishFails, After
  <1>4. Accounted' /\ (halted <=> failed # {})'
    BY <1>2, <1>3 DEF SegmentInv, Accounted, Publish, PublishFails, found, work
  <1>5. \/ UNCHANGED receipt
        \/ saved' = results /\ savedBlanks' = blanks /\ savedBlocks' = blocks
    BY DEF Publish, PublishFails, Write
  <1>6. UNCHANGED <<results, blanks, blocks, pending, retries, counts>>
    BY DEF Publish, PublishFails, found, work
  <1>7. pc' = "unwinding" \/ (saved' = results /\ savedBlanks' = blanks)
    BY DEF Publish, PublishFails, Write
  <1>8. /\ savedBlanks' \subseteq saved' \cap savedBlocks'
        /\ saved' \subseteq results'
        /\ blanks' \subseteq results' \cap blocks'
        /\ (results \cap InFlight)' = {}
        /\ ((results \ saved) \cap (pending \cup retries))' = {}
    BY <1>2, <1>3, <1>5, <1>6 DEF SegmentInv, receipt
  <1>9. \A i \in Segments : i \in (pending \cup retries)' => counts'[i] < Attempts
    BY <1>3, <1>6 DEF SegmentInv
  <1> QED
    BY <1>1, <1>2, <1>3, <1>4, <1>6, <1>7, <1>8, <1>9 DEF SegmentInv

\* Only segments that are untried or wait for another attempt are asked for.
LEMMA AdmitStep == SegmentInv /\ Admit => SegmentInv'
  <1> SUFFICES ASSUME SegmentInv, Admit PROVE SegmentInv'
    OBVIOUS
  <1>1. PICK S \in SUBSET Ready : Admissible(S) /\ S # {} /\ Start(S)
    BY DEF Admit
  <1>2. S \subseteq pending \cup retries /\ S \subseteq Segments
    BY DEF Ready, DueRetries, SegmentInv, TypeOK
  <1>3. /\ pc = "loop" /\ pc' = "admitted"
        /\ UNCHANGED <<saved, savedBlanks, savedBlocks, results, blanks, blocks, failed, halted, ended>>
        /\ pending' = pending \ S /\ retries' = retries \ S
        /\ counts' = [i \in Segments |-> IF i \in S THEN counts[i] + 1 ELSE counts[i]]
        /\ running' = [i \in Segments |-> IF i \in S THEN "open" ELSE running[i]]
    BY <1>1 DEF Admit, Start, receipt, found
  <1>4. counts' \in [Segments -> 0 .. Attempts]
    BY <1>2, <1>3, Parameters DEF SegmentInv, TypeOK
  <1>5. TypeOK'
    BY <1>3, <1>4 DEF SegmentInv, TypeOK
  <1>6. InFlight' = InFlight \cup S
    BY <1>2, <1>3 DEF InFlight
  <1>7. Accounted'
    BY <1>2, <1>3, <1>6 DEF SegmentInv, Accounted
  <1>8. \A i \in Segments : i \in (pending \cup retries)' => counts'[i] < Attempts
    BY <1>2, <1>3 DEF SegmentInv
  <1> QED
    BY <1>3, <1>5, <1>6, <1>7, <1>8 DEF SegmentInv, Accounted

\* An answer changes nothing but the state of its request.
LEMMA ReplyStep ==
    ASSUME SegmentInv, NEW i \in Segments, NEW o \in Outcome, Reply(i, o)
    PROVE  SegmentInv'
  <1>1. UNCHANGED <<saved, savedBlanks, savedBlocks, results, blanks, blocks, pending, retries, counts, failed,
                    halted, pc, ended>>
    BY DEF Reply, receipt, found, work
  <1>2. TypeOK'
    BY <1>1 DEF SegmentInv, TypeOK, Reply
  <1>3. InFlight' = InFlight
    BY DEF SegmentInv, TypeOK, Reply, InFlight, Outcome
  <1>4. Accounted <=> Accounted'
    BY <1>1, <1>3 DEF Accounted
  <1> QED
    BY <1>1, <1>2, <1>3, <1>4 DEF SegmentInv

\* Every answered segment moves to exactly one of the results, the retries and
\* the segments given up.
LEMMA InspectStep == SegmentInv /\ Inspect => SegmentInv'
  <1> SUFFICES ASSUME SegmentInv, Inspect PROVE SegmentInv'
    OBVIOUS
  <1> DEFINE refused == IF Placeholders THEN {} ELSE With("blocked")
             worse == Spent \cup With("fatal") \cup refused
             kept == Answered \ (Again \cup worse)
  <1>1. /\ pc = "waiting" /\ pc' = "inspected"
        /\ results' = results \cup kept
        /\ blanks' = blanks \cup (kept \cap With("blocked"))
        /\ blocks' = blocks \cup With("blocked")
        /\ failed' = failed \cup worse
        /\ halted' = (halted \/ worse # {})
        /\ retries' = retries \cup Again
        /\ running' = [i \in Segments |-> IF i \in Answered THEN "idle" ELSE running[i]]
        /\ UNCHANGED <<saved, savedBlanks, savedBlocks, pending, counts, ended>>
    BY DEF Inspect, receipt
  <1>2. /\ Answered \subseteq InFlight /\ InFlight \subseteq Segments
        /\ Again \subseteq Answered /\ worse \subseteq Answered
        /\ With("blocked") \subseteq Answered
        /\ Again \cap worse = {} /\ kept \subseteq Answered
        /\ Answered = kept \cup Again \cup worse
        /\ kept \cap (Again \cup worse) = {}
    BY DEF Answered, InFlight, Again, Spent, With, Outcome
  <1>3. \A i \in Again : counts[i] < Attempts
    BY DEF Again
  <1> HIDE DEF kept, worse
  <1>4. TypeOK'
    BY <1>1, <1>2 DEF SegmentInv, TypeOK, Outcome
  <1>5. InFlight' = InFlight \ Answered
    BY <1>1 DEF InFlight, Answered
  <1>6. Accounted /\ saved = results /\ savedBlanks = blanks
    BY <1>1 DEF SegmentInv
  <1>7. Accounted'
    <2>1. (results \cup pending \cup InFlight \cup retries \cup failed)' = Segments
      BY <1>1, <1>2, <1>5, <1>6 DEF Accounted
    <2>2. (results \cap (pending \cup InFlight \cup retries \cup failed))' = {}
      BY <1>1, <1>2, <1>5, <1>6 DEF Accounted
    <2>3. (pending \cap (InFlight \cup retries \cup failed))' = {}
      BY <1>1, <1>2, <1>5, <1>6 DEF Accounted
    <2>4. (InFlight \cap (retries \cup failed))' = {}
      BY <1>1, <1>2, <1>5, <1>6 DEF Accounted
    <2>5. (retries \cap failed)' = {}
      BY <1>1, <1>2, <1>5, <1>6 DEF Accounted
    <2> QED
      BY <2>1, <2>2, <2>3, <2>4, <2>5 DEF Accounted
  <1>8. (halted <=> failed # {})'
    BY <1>1 DEF SegmentInv
  <1>9. blanks' \subseteq results' \cap blocks' /\ saved' \subseteq results' /\ (results \cap InFlight)' = {}
    BY <1>1, <1>2, <1>5, <1>6, <1>7 DEF SegmentInv, Accounted
  <1>10. ((results \ saved) \cap (pending \cup retries))' = {}
    BY <1>7 DEF Accounted
  <1>11. \A i \in Segments : i \in (pending \cup retries)' => counts'[i] < Attempts
    BY <1>1, <1>3 DEF SegmentInv
  <1> QED
    BY <1>1, <1>4, <1>7, <1>8, <1>9, <1>10, <1>11 DEF SegmentInv

\* Steps that only move control, the timers or drop requests of a run that is
\* being left.
LEMMA ControlStep ==
    ASSUME SegmentInv, Await \/ Finish \/ WaitTimeout \/ CheckFails \/ Tick \/ Unwind \/ Unwound \/ Crash
    PROVE  SegmentInv'
  <1>1. UNCHANGED <<saved, savedBlanks, savedBlocks, results, blanks, blocks, pending, retries, counts, failed, halted>>
    BY DEF Await, Finish, WaitTimeout, CheckFails, Tick, Unwind, Unwound, Crash, receipt, found, work
  <1>2. CASE Await \/ WaitTimeout \/ CheckFails \/ Tick
    <2>1. running' = running /\ ended' = ended
      BY <1>2 DEF Await, WaitTimeout, CheckFails, Tick, found
    <2>2. /\ pc \in {"loop", "waiting"} /\ pc' \in {"loop", "waiting", "unwinding"}
          \/ pc' = pc
      BY <1>2 DEF Await, WaitTimeout, CheckFails, Tick
    <2>3. InFlight' = InFlight /\ (Accounted <=> Accounted')
      BY <1>1, <2>1 DEF InFlight, Accounted
    <2>4. TypeOK'
      BY <1>1, <2>1, <2>2 DEF SegmentInv, TypeOK
    <2> QED
      BY <1>1, <2>1, <2>2, <2>3, <2>4 DEF SegmentInv
  <1>3. CASE Finish \/ Unwound \/ Crash
    <2>1. pc' = "idle" /\ InFlight' = {}
      BY <1>3 DEF Finish, Unwound, Crash, InFlight
    <2>2. TypeOK'
      BY <1>1, <1>3, <2>1 DEF SegmentInv, TypeOK, Finish, Unwound, Crash, work
    <2> QED
      BY <1>1, <2>1, <2>2 DEF SegmentInv
  <1>4. CASE Unwind
    <2>1. pc = "unwinding" /\ pc' = pc /\ ended' = ended
      BY <1>4 DEF Unwind
    <2>2. PICK i \in InFlight : running' = [running EXCEPT ![i] = "idle"]
      BY <1>4 DEF Unwind
    <2>3. TypeOK'
      BY <1>1, <2>1, <2>2 DEF SegmentInv, TypeOK
    <2>4. InFlight' \subseteq InFlight
      BY <2>2 DEF InFlight, SegmentInv, TypeOK
    <2> QED
      BY <1>1, <2>1, <2>3, <2>4 DEF SegmentInv
  <1> QED
    BY <1>2, <1>3, <1>4

\* Every step preserves the invariant.
LEMMA SegmentStep == SegmentInv /\ [Next]_vars => SegmentInv'
  <1> SUFFICES ASSUME SegmentInv, [Next]_vars PROVE SegmentInv'
    OBVIOUS
  <1>1. CASE UNCHANGED vars
    <2>1. InFlight' = InFlight
      BY <1>1 DEF vars, InFlight
    <2> QED
      BY <1>1, <2>1 DEF vars, SegmentInv, TypeOK, Accounted
  <1>2. CASE Next
    BY <1>2, BeginStep, WriteStep, AdmitStep, ReplyStep, InspectStep, ControlStep DEF Next, Loop
  <1> QED
    BY <1>1, <1>2

\* In every reachable state each segment of a live run is in exactly one place,
\* has attempts left as long as it may be asked for, and what is on disk is known
\* to the run.
THEOREM SegmentInvariance == Spec => []SegmentInv
  BY SegmentInit, SegmentStep, PTL DEF Spec

\* A placeholder is always reported, also by the run that found it on disk.
THEOREM PlaceholdersReported == Spec => []BlanksReported
  <1>1. SegmentInv => BlanksReported
    BY DEF SegmentInv, BlanksReported
  <1> QED
    BY <1>1, SegmentInvariance, PTL

\* A complete run has everything on disk, a partial one everything it received.
THEOREM SoundEnd == Spec => []EndSound
  <1>1. Init => EndSound
    BY DEF Init, EndSound
  <1>2. SegmentInv /\ SegmentInv' /\ EndSound /\ [Next]_vars => EndSound'
    <2> SUFFICES ASSUME SegmentInv, EndSound, [Next]_vars, pc' = "idle" PROVE EndSound'
      BY DEF EndSound
    <2>1. CASE UNCHANGED vars
      BY <2>1 DEF vars, EndSound
    <2>2. CASE Finish
      <3>1. /\ pc = "loop" /\ InFlight = {} /\ (halted \/ ~Left)
            /\ ended' = IF failed = {} THEN "complete" ELSE "partial"
            /\ UNCHANGED <<saved, results, failed>>
        BY <2>2 DEF Finish, receipt, found, work
      <3>2. Accounted /\ saved = results /\ (halted <=> failed # {})
        BY <3>1 DEF SegmentInv
      <3>3. failed = {} => saved = Segments
        BY <3>1, <3>2 DEF Left, Accounted
      <3> QED
        BY <3>1, <3>2, <3>3 DEF EndSound, Accounted
    <2>3. CASE Unwound \/ Crash
      BY <2>3 DEF Unwound, Crash, EndSound
    <2>4. CASE \E i \in Segments, o \in Outcome : Reply(i, o)
      BY <2>4 DEF Reply, EndSound, receipt, found, work
    <2>5. CASE Begin \/ Publish \/ PublishFails \/ Admit \/ Await \/ Inspect \/ WaitTimeout \/ Unwind \/ Tick \/ CheckFails
      BY <2>5 DEF Begin, Publish, PublishFails, After, Admit, Await, Inspect, WaitTimeout, Unwind, Tick, CheckFails
    <2> QED
      BY <2>1, <2>2, <2>3, <2>4, <2>5 DEF Next, Loop
  <1> QED
    BY <1>1, <1>2, SegmentInvariance, PTL DEF Spec

\* The segment queue is sound in every reachable state: the invariant of a live run,
\* and what a run leaves on disk when it ends.
THEOREM QueuesSound == Spec => []QueueSound
  BY SegmentInvariance, SoundEnd, PTL DEF QueueSound

\* A failure stops admission, and the answers that are still to come are kept: while
\* something is given up the run is halted, and an answer leaves its place only when
\* it is inspected, with its result kept, unless the run is interrupted.
THEOREM StopsAndDrains == Spec => StopAndDrain
  <1> DEFINE Uninterrupted == pc \notin {"idle", "unwinding"} /\ (pc' = "idle" => ended' # "interrupted")
             Stopped == failed # {} => \A i \in Segments : running[i] = "idle" => running'[i] = "idle"
             Kept == \A i \in Segments : running[i] = "valid" /\ running'[i] = "idle" => i \in results'
  <1>1. SegmentInv /\ [Next]_vars => (Uninterrupted => Stopped /\ Kept)
    <2> SUFFICES ASSUME SegmentInv, [Next]_vars, Uninterrupted PROVE Stopped /\ Kept
      OBVIOUS
    <2>0. TypeOK /\ (halted <=> failed # {})
      BY DEF SegmentInv
    <2>1. CASE Inspect
      <3>1. running' = [i \in Segments |-> IF i \in Answered THEN "idle" ELSE running[i]]
        BY <2>1 DEF Inspect
      <3>2. Stopped
        BY <3>1
      <3>3. ASSUME NEW i \in Segments, running[i] = "valid" PROVE i \in results'
        <4>1. i \in Answered /\ i \notin Again \cup Spent \cup With("fatal") \cup With("blocked")
          BY <3>3 DEF Answered, Outcome, Again, Spent, With
        <4> QED
          BY <2>1, <4>1 DEF Inspect
      <3> QED
        BY <3>2, <3>3
    <2>2. CASE Admit
      <3>1. PICK S \in SUBSET Ready : Start(S)
        BY <2>2 DEF Admit
      <3>2. running' = [i \in Segments |-> IF i \in S THEN "open" ELSE running[i]] /\ ~halted
        BY <2>2, <3>1 DEF Start, Admit
      <3> QED
        BY <2>0, <3>2
    <2>3. CASE \E i \in Segments, o \in Outcome : Reply(i, o)
      <3>1. PICK i \in Segments, o \in Outcome : running[i] = "open" /\ running' = [running EXCEPT ![i] = o]
        BY <2>3 DEF Reply
      <3>2. o # "idle"
        BY DEF Outcome
      <3> QED
        BY <2>0, <3>1, <3>2 DEF TypeOK
    <2>4. CASE Unwind \/ Unwound \/ Crash \/ Begin
      BY <2>4 DEF Unwind, Unwound, Crash, Begin
    <2>5. CASE Publish \/ PublishFails \/ Await \/ Finish \/ WaitTimeout \/ CheckFails \/ Tick \/ UNCHANGED vars
      <3>1. running' = running
        BY <2>5 DEF Publish, PublishFails, Await, Finish, WaitTimeout, CheckFails, Tick, vars
      <3> QED
        BY <3>1
    <2> QED
      BY <2>1, <2>2, <2>3, <2>4, <2>5 DEF Next, Loop
  <1> QED
    BY <1>1, SegmentInvariance, PTL DEF Spec, StopAndDrain

\* Every step is a step of the abstract receipts, or none.
LEMMA ReceiptStep == SegmentInv /\ SegmentInv' /\ [Next]_vars => [Receipts!Next]_<<saved, IF pc = "idle" THEN {} ELSE InFlight \cup (results \ saved)>>
  <1> DEFINE open == IF pc = "idle" THEN {} ELSE InFlight \cup (results \ saved)
  <1> SUFFICES ASSUME SegmentInv, SegmentInv', [Next]_vars
               PROVE  Receipts!Next \/ UNCHANGED <<saved, open>>
    OBVIOUS
  <1>0. open \subseteq Segments /\ InFlight \subseteq Segments /\ results \subseteq Segments /\ saved \subseteq Segments
    BY DEF InFlight, SegmentInv, TypeOK
  <1>1. CASE UNCHANGED vars
    BY <1>1 DEF vars, InFlight
  <1>2. CASE Begin
    <2>1. open = {} /\ open' = {} /\ saved' = saved
      BY <1>2 DEF Begin, receipt, SegmentInv, InFlight
    <2> QED
      BY <2>1
  <1>3. CASE Publish \/ PublishFails
    <2>1. pc # "idle" /\ pc' # "idle" /\ InFlight' = InFlight /\ results' = results /\ (saved' = saved \/ saved' = results)
      BY <1>3 DEF Publish, PublishFails, After, Write, InFlight, found, receipt
    <2>2. CASE saved' = saved
      BY <2>1, <2>2
    <2>3. CASE saved' = results
      <3>1. saved \subseteq results /\ results \cap InFlight = {}
        BY <2>1 DEF SegmentInv
      <3>2. Receipts!Keep(results \ saved)
        BY <2>1, <2>3, <3>1 DEF Receipts!Keep
      <3> QED
        BY <1>0, <3>2 DEF Receipts!Next
    <2> QED
      BY <2>1, <2>2, <2>3
  <1>4. CASE Admit
    <2>1. PICK S \in SUBSET Ready : Start(S)
      BY <1>4 DEF Admit
    <2>2. S \subseteq pending \cup retries /\ S \subseteq Segments
      BY DEF Ready, DueRetries, SegmentInv, TypeOK
    <2>3. pc = "loop" /\ pc' = "admitted" /\ saved' = saved /\ results' = results
      BY <1>4 DEF Admit, receipt, found
    <2>4. InFlight' = InFlight \cup S
      BY <2>1, <2>2 DEF Start, InFlight
    <2>5. S \cap saved = {}
      BY <2>2, <2>3 DEF SegmentInv, Accounted
    <2>6. Receipts!Ask(S)
      BY <2>2, <2>3, <2>4, <2>5 DEF Receipts!Ask
    <2> QED
      BY <2>2, <2>6 DEF Receipts!Next
  <1>5. CASE Inspect
    <2>1. pc = "waiting" /\ pc' = "inspected" /\ saved' = saved /\ saved = results
      BY <1>5 DEF Inspect, receipt, SegmentInv
    <2>2. results' \subseteq results \cup Answered /\ results \subseteq results'
      BY <1>5 DEF Inspect
    <2>3. InFlight' = InFlight \ Answered /\ Answered \subseteq InFlight
      BY <1>5 DEF Inspect, InFlight, Answered, Outcome
    <2>4. open' \subseteq open
      BY <2>1, <2>2, <2>3
    <2>5. Receipts!Forget(open \ open')
      BY <2>1, <2>4 DEF Receipts!Forget
    <2> QED
      BY <1>0, <2>5 DEF Receipts!Next
  <1>6. CASE \E i \in Segments, o \in Outcome : Reply(i, o)
    <2>1. InFlight' = InFlight /\ UNCHANGED <<saved, results, pc>>
      BY <1>6 DEF Reply, InFlight, Outcome, receipt, found, SegmentInv, TypeOK
    <2> QED
      BY <2>1
  <1>7. CASE Await \/ WaitTimeout \/ CheckFails \/ Tick \/ Finish \/ Unwind \/ Unwound \/ Crash
    <2>1. saved' = saved /\ results' = results /\ (pc # "idle" \/ pc' = "idle")
      BY <1>7 DEF Await, WaitTimeout, CheckFails, Tick, Finish, Unwind, Unwound, Crash, receipt, found
    <2>2. InFlight' \subseteq InFlight
      BY <1>7 DEF Await, WaitTimeout, CheckFails, Tick, Finish, Unwind, Unwound, Crash, InFlight, SegmentInv, TypeOK
    <2>3. open' \subseteq open
      BY <2>1, <2>2
    <2>4. Receipts!Forget(open \ open')
      BY <2>1, <2>3 DEF Receipts!Forget
    <2> QED
      BY <1>0, <2>4 DEF Receipts!Next
  <1> QED
    BY <1>1, <1>2, <1>3, <1>4, <1>5, <1>6, <1>7 DEF Next, Loop

\* The queue implements the receipts: what was paid for and kept is never asked
\* for again, whatever is cancelled, interrupted or killed.
THEOREM PaidOnce == Spec => ReceiptsSpec
  <1>1. Init => Receipts!Init
    BY DEF Init, Receipts!Init
  <1> QED
    BY <1>1, ReceiptStep, SegmentInvariance, PTL DEF Spec, ReceiptsSpec, Receipts!Spec

-------------------------------------------------------------------------------
(***************************************************************************)
(* A run of a media tool (ProcessRun), for every number of outputs, every  *)
(* limit and every size of a pipe.  What its invariant consists of:        *)
(***************************************************************************)
ToolTyped ==
    /\ child \in {"running", "hung", "ended", "broke", "killed"} /\ told \in BOOLEAN
    /\ outputs \subseteq Streams
    /\ wrote \in [Streams -> Nat] /\ pipe \in [Streams -> Nat] /\ log \in [Streams -> Nat]
    /\ reader \in [Streams -> {"reading", "ended"}]
    /\ overflow \in BOOLEAN /\ failures \in BOOLEAN
    /\ caller \in {"poll", "join", "verdict", "finally", "wait", "drain", "done"}
    /\ result \in {"none", "returned", "raised"}

\* As long as the tool is there its outputs are open.
OutputsOpen == Alive => outputs = Streams

\* Unless something was given up, every chunk is in a pipe or saved.
ChunksAccounted == ~overflow /\ ~failures => \A s \in Streams : log[s] + pipe[s] = wrote[s]

\* A thread that ended well has left nothing behind, and nothing can come.
PipesDrained == ~failures => \A s \in Streams : reader[s] = "ended" => pipe[s] = 0 /\ s \notin outputs

\* Where the caller is says what it knows of the tool and of the threads.
CallerKnows ==
    /\ caller \in {"join", "verdict", "drain", "done"} => ~Alive
    /\ caller = "verdict" => Ended

\* A result is final.
ResultSound == result = "returned" => child = "ended" /\ ~failures /\ ~overflow /\ Ended

ToolInv == ToolTyped /\ OutputsOpen /\ ChunksAccounted /\ PipesDrained /\ CallerKnows /\ ResultSound

-------------------------------------------------------------------------------
(***************************************************************************)
(* The invariant                                                           *)
(***************************************************************************)
\* A chunk that is written is in the pipe of a stream whose thread is still there.
LEMMA WriteOutKeeps == ASSUME ToolInv, NEW s \in Streams, WriteOut(s) PROVE ToolInv'
<1> USE DEF ToolInv
<1>1. ToolTyped'
  BY DEF ToolTyped, WriteOut, drain
<1>2. OutputsOpen' /\ CallerKnows' /\ ResultSound'
  BY DEF OutputsOpen, CallerKnows, ResultSound, Ended, Alive, WriteOut, drain
<1>3. ChunksAccounted'
  BY DEF ToolTyped, ChunksAccounted, WriteOut, drain
<1>4. PipesDrained'
  <2>1. ~failures => reader[s] # "ended"
    BY DEF WriteOut, OutputsOpen, Alive, PipesDrained
  <2>. QED
    BY <2>1 DEF ToolTyped, PipesDrained, WriteOut, drain
<1>. QED  BY <1>1, <1>2, <1>3, <1>4

\* What else the tool does: it ends, hangs, heeds the signal; its own process ends.
LEMMA ToolKeeps == ASSUME ToolInv, Exit \/ Hang \/ Obey \/ Release PROVE ToolInv'
<1> USE DEF ToolInv, Exit, Hang, Obey, Release, Leave, drain
<1>1. ToolTyped'
  BY DEF ToolTyped
<1>2. OutputsOpen' /\ CallerKnows' /\ ResultSound'
  BY DEF OutputsOpen, CallerKnows, ResultSound, Ended, Alive, ToolTyped
<1>3. ChunksAccounted'
  BY DEF ChunksAccounted
<1>4. PipesDrained'
  BY DEF PipesDrained, ToolTyped
<1>. QED  BY <1>1, <1>2, <1>3, <1>4

\* A thread takes a chunk out of its pipe, saves it or says that it could not.
LEMMA ReadersKeep == ASSUME ToolInv, NEW s \in Streams, Reader(s) PROVE ToolInv'
<1> USE DEF ToolInv, process
<1>1. CASE Read(s)
  <2>1. ToolTyped'
    <3>1. pipe' \in [Streams -> Nat] /\ log' \in [Streams -> Nat]
      BY <1>1 DEF ToolTyped, Read
    <3>2. overflow' \in BOOLEAN
      BY <1>1 DEF ToolTyped, Read
    <3>. QED  BY <1>1, <3>1, <3>2 DEF ToolTyped, Read
  <2>2. OutputsOpen' /\ CallerKnows' /\ ResultSound'
    BY <1>1 DEF OutputsOpen, CallerKnows, ResultSound, Ended, Alive, Read
  <2>3. ChunksAccounted'
    BY <1>1 DEF ToolTyped, ChunksAccounted, Read
  <2>4. PipesDrained'
    BY <1>1 DEF ToolTyped, PipesDrained, Read
  <2>. QED  BY <2>1, <2>2, <2>3, <2>4
<1>2. CASE Spoil(s)
  <2>1. ToolTyped'
    BY <1>2 DEF ToolTyped, Spoil
  <2>2. OutputsOpen' /\ ResultSound'
    BY <1>2 DEF OutputsOpen, ResultSound, Ended, Alive, Spoil
  <2>3. CallerKnows'
    BY <1>2 DEF CallerKnows, Ended, Alive, Spoil, ToolTyped
  <2>4. ChunksAccounted' /\ PipesDrained'
    BY <1>2 DEF ChunksAccounted, PipesDrained, Spoil
  <2>. QED  BY <2>1, <2>2, <2>3, <2>4
<1>3. CASE EndOfStream(s)
  <2>1. ToolTyped'
    BY <1>3 DEF ToolTyped, EndOfStream
  <2>2. OutputsOpen' /\ ChunksAccounted'
    BY <1>3 DEF OutputsOpen, ChunksAccounted, Alive, EndOfStream
  <2>3. CallerKnows' /\ ResultSound'
    BY <1>3 DEF CallerKnows, ResultSound, Ended, Alive, EndOfStream, ToolTyped
  <2>4. PipesDrained'
    BY <1>3 DEF ToolTyped, PipesDrained, EndOfStream
  <2>. QED  BY <2>1, <2>2, <2>3, <2>4
<1>. QED  BY <1>1, <1>2, <1>3 DEF Reader

\* The caller moves on, and decides on the outcome once.
LEMMA CallerKeeps == ASSUME ToolInv, Caller PROVE ToolInv'
<1> USE DEF ToolInv, process, drain
<1>1. CASE Poll \/ Cancel \/ TimeOut \/ Join
  BY <1>1 DEF Poll, Cancel, TimeOut, Join, To, Result, ToolTyped, OutputsOpen, ChunksAccounted, PipesDrained, CallerKnows, ResultSound, Ended, Alive
<1>2. CASE Verdict
  <2>1. ~Alive /\ Ended
    BY <1>2 DEF Verdict, CallerKnows
  <2>2. ToolTyped' /\ OutputsOpen' /\ ChunksAccounted' /\ PipesDrained' /\ CallerKnows'
    BY <1>2 DEF Verdict, Result, ToolTyped, OutputsOpen, ChunksAccounted, PipesDrained, CallerKnows, Alive
  <2>3. ResultSound'
    BY <1>2, <2>1 DEF Verdict, Result, ResultSound, Ended
  <2>. QED  BY <2>2, <2>3
<1>3. CASE Finally
  <2>1. ToolTyped'
    BY <1>3 DEF Finally, To, ToolTyped
  <2>2. OutputsOpen' /\ ChunksAccounted' /\ PipesDrained'
    BY <1>3 DEF Finally, To, OutputsOpen, ChunksAccounted, PipesDrained, Alive
  <2>3. CallerKnows' /\ ResultSound'
    BY <1>3 DEF Finally, To, CallerKnows, ResultSound, Ended, Alive
  <2>. QED  BY <2>1, <2>2, <2>3
<1>4. CASE Kill
  BY <1>4 DEF Kill, Leave, To, ToolTyped, OutputsOpen, ChunksAccounted, PipesDrained, CallerKnows, ResultSound, Ended, Alive
<1>5. CASE Close
  BY <1>5 DEF Close, To, ToolTyped, OutputsOpen, ChunksAccounted, PipesDrained, CallerKnows, ResultSound, Ended, Alive
<1>. QED  BY <1>1, <1>2, <1>3, <1>4, <1>5 DEF Caller

\* The inductive invariant of a run of a tool (run_process).
THEOREM ToolInvariance == ToolSpec => []ToolInv
<1>1. ToolInit => ToolInv
  <2> SUFFICES ASSUME ToolInit PROVE ToolInv
    OBVIOUS
  <2>1. ToolTyped
    BY DEF ToolInit, ToolTyped
  <2>2. ChunksAccounted /\ PipesDrained
    BY DEF ToolInit, ChunksAccounted, PipesDrained
  <2>3. OutputsOpen /\ CallerKnows /\ ResultSound
    BY DEF ToolInit, OutputsOpen, CallerKnows, ResultSound, Alive
  <2>. QED  BY <2>1, <2>2, <2>3 DEF ToolInv
<1>2. ToolInv /\ [ToolNext]_toolVars => ToolInv'
  <2> SUFFICES ASSUME ToolInv, [ToolNext]_toolVars PROVE ToolInv'
    OBVIOUS
  <2>1. CASE Tool
    BY <2>1, WriteOutKeeps, ToolKeeps DEF Tool
  <2>2. ASSUME NEW s \in Streams, Reader(s) PROVE ToolInv'
    BY <2>2, ReadersKeep
  <2>3. CASE Caller
    BY <2>3, CallerKeeps
  <2>4. CASE UNCHANGED toolVars
    BY <2>4 DEF toolVars, ToolInv, ToolTyped, OutputsOpen, ChunksAccounted, PipesDrained, CallerKnows, ResultSound, Ended, Alive
  <2>. QED  BY <2>1, <2>2, <2>3, <2>4 DEF ToolNext
<1>. QED  BY <1>1, <1>2, PTL DEF ToolSpec

-------------------------------------------------------------------------------
(***************************************************************************)
(* What follows                                                            *)
(***************************************************************************)
\* The log of a run that returns is complete: every thread has ended without a
\* failure, so its pipe is empty, and nothing was given up.
THEOREM LogsWhole == ToolSpec => []LogWhole
<1>1. ToolInv => LogWhole
  <2> SUFFICES ASSUME ToolInv, result = "returned", NEW s \in Streams PROVE child = "ended" /\ log[s] = wrote[s]
    BY DEF LogWhole, ToolInv, ResultSound
  <2>1. child = "ended" /\ ~failures /\ ~overflow /\ reader[s] = "ended"
    BY DEF ToolInv, ResultSound, Ended
  <2>2. pipe[s] = 0 /\ log[s] + pipe[s] = wrote[s]
    BY <2>1 DEF ToolInv, PipesDrained, ChunksAccounted
  <2>. QED  BY <2>1, <2>2 DEF ToolInv, ToolTyped
<1>. QED  BY <1>1, ToolInvariance, PTL

\* A run that is over, whatever its outcome, has left no tool running.
THEOREM ToolsReaped == ToolSpec => []Reaped
<1>1. ToolInv => Reaped
  BY DEF ToolInv, CallerKnows, Reaped
<1>. QED  BY <1>1, ToolInvariance, PTL
===============================================================================
