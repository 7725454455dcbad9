-------------------------------- MODULE ProcessRun --------------------------------
(***************************************************************************)
(* How a media tool is run (run_process): a thread for each of its outputs *)
(* saves it up to a limit and reads the rest away, while the caller polls  *)
(* the process, looks for a cancellation, a full log and the time, and     *)
(* kills what does not end.  The tool may leave a process of its own that  *)
(* holds on to its outputs.  Output is counted in chunks.                  *)
(***************************************************************************)
EXTENDS Naturals

CONSTANTS
    Streams,    \* stdout, and stderr if it is read apart
    Limit,      \* chunks that are saved of each
    Pipe,       \* chunks that fit in a pipe
    Output      \* bound: chunks written to each

ASSUME Sizes == {Limit, Pipe} \subseteq Nat \ {0} /\ Output \in Nat

VARIABLES
    child,      \* "running", "hung", "ended", "broke" or "killed"
    told,       \* ghost for the signal: terminate() has been called
    outputs,    \* streams whose other end is open
    wrote,      \* [stream -> chunks written by the tool]
    pipe,       \* of them those not read yet
    log,        \* and those saved
    reader,     \* [stream -> "reading", "ended"]
    overflow,   \* a chunk was not saved
    failures,   \* a thread could not save
    caller,     \* where the caller is
    result      \* "returned", "raised", or "none" so far

toolVars == <<child, told, outputs, wrote, pipe, log, reader, overflow, failures, caller, result>>
process == <<child, told, outputs, wrote>>
drain == <<log, reader, overflow, failures>>

Alive == child \in {"running", "hung"}

-------------------------------------------------------------------------------
(***************************************************************************)
(* The tool                                                                *)
(***************************************************************************)
\* With a full pipe it has to wait.
WriteOut(s) ==
    /\ child = "running" /\ wrote[s] < Output /\ pipe[s] < Pipe
    /\ wrote' = [wrote EXCEPT ![s] = @ + 1]
    /\ pipe' = [pipe EXCEPT ![s] = @ + 1]
    /\ UNCHANGED <<child, told, outputs, drain, caller, result>>

\* Its outputs are closed, unless a process that it started has them too.
Leave(state) == child' = state /\ outputs' \in {{}, outputs}

Exit ==
    /\ child = "running"
    /\ Leave("ended") \/ Leave("broke")
    /\ UNCHANGED <<told, wrote, pipe, drain, caller, result>>

Hang ==
    /\ child = "running" /\ child' = "hung"
    /\ UNCHANGED <<told, outputs, wrote, pipe, drain, caller, result>>

\* A tool that hangs need not heed it.
Obey ==
    /\ child = "running" /\ told
    /\ Leave("killed")
    /\ UNCHANGED <<told, wrote, pipe, drain, caller, result>>

\* The process it started ends.
Release ==
    /\ ~Alive /\ outputs # {} /\ outputs' = {}
    /\ UNCHANGED <<child, told, wrote, pipe, drain, caller, result>>

-------------------------------------------------------------------------------
(***************************************************************************)
(* The threads that read its outputs                                       *)
(***************************************************************************)
Read(s) ==
    /\ reader[s] = "reading" /\ pipe[s] > 0
    /\ pipe' = [pipe EXCEPT ![s] = @ - 1]
    /\ IF log[s] < Limit THEN log' = [log EXCEPT ![s] = @ + 1] /\ UNCHANGED overflow
       ELSE overflow' = TRUE /\ UNCHANGED log
    /\ UNCHANGED <<process, reader, failures, caller, result>>

\* The disk refuses the chunk.
Spoil(s) ==
    /\ reader[s] = "reading" /\ pipe[s] > 0 /\ log[s] < Limit
    /\ pipe' = [pipe EXCEPT ![s] = @ - 1]
    /\ failures' = TRUE
    /\ reader' = [reader EXCEPT ![s] = "ended"]
    /\ UNCHANGED <<process, log, overflow, caller, result>>

EndOfStream(s) ==
    /\ reader[s] = "reading" /\ pipe[s] = 0 /\ s \notin outputs
    /\ reader' = [reader EXCEPT ![s] = "ended"]
    /\ UNCHANGED <<process, pipe, log, overflow, failures, caller, result>>

-------------------------------------------------------------------------------
(***************************************************************************)
(* The caller                                                              *)
(***************************************************************************)
To(place) == caller' = place /\ UNCHANGED <<process, pipe, drain, result>>
Result(kind) == caller' = "finally" /\ result' = kind /\ UNCHANGED <<process, pipe, drain>>

Ended == \A s \in Streams : reader[s] = "ended"

\* Seeded defect: what the threads have not read yet is not waited for.
PollOnly ==
    \/ caller = "poll" /\ ~Alive /\ To("verdict")
    \/ caller = "poll" /\ Alive /\ (failures \/ overflow) /\ Result("raised")

\* process.poll(), failures and overflow
Poll ==
    \/ caller = "poll" /\ ~Alive /\ To("join")
    \/ caller = "poll" /\ Alive /\ (failures \/ overflow) /\ Result("raised")

\* check(), and the time
Cancel == caller = "poll" /\ Alive /\ Result("raised")
TimeOut == caller = "poll" /\ Alive /\ Result("raised")

\* For five seconds.
Join ==
    \/ caller = "join" /\ Ended /\ To("verdict")
    \/ caller = "join" /\ ~Ended /\ Result("raised")

Verdict ==
    /\ caller = "verdict"
    /\ Result(IF failures \/ overflow \/ child # "ended" THEN "raised" ELSE "returned") \/ Result("raised")

\* Seeded defect: there is no end to the waiting for a tool that was told to end.
KillNever == caller = "wait" /\ ~Alive /\ To("drain")

Finally ==
    \/ caller = "finally" /\ Alive /\ told' = TRUE /\ caller' = "wait"
       /\ UNCHANGED <<child, outputs, wrote, pipe, drain, result>>
    \/ caller = "finally" /\ ~Alive /\ To("drain")

\* After five seconds the tool is killed.
Kill ==
    \/ caller = "wait" /\ ~Alive /\ To("drain")
    \/ /\ caller = "wait" /\ Alive
       /\ Leave("killed") /\ caller' = "drain"
       /\ UNCHANGED <<told, wrote, pipe, drain, result>>

\* The threads have some seconds more; one that is still blocked is left behind.
Close == caller = "drain" /\ To("done")

-------------------------------------------------------------------------------
ToolInit ==
    /\ child = "running" /\ told = FALSE /\ outputs = Streams
    /\ wrote = [s \in Streams |-> 0] /\ pipe = wrote /\ log = wrote
    /\ reader = [s \in Streams |-> "reading"]
    /\ overflow = FALSE /\ failures = FALSE
    /\ caller = "poll" /\ result = "none"

Tool == (\E s \in Streams : WriteOut(s)) \/ Exit \/ Hang \/ Obey \/ Release
Reader(s) == Read(s) \/ Spoil(s) \/ EndOfStream(s)
Caller == Poll \/ Cancel \/ TimeOut \/ Join \/ Verdict \/ Finally \/ Kill \/ Close

ToolNext == Tool \/ (\E s \in Streams : Reader(s)) \/ Caller

ToolSpec == ToolInit /\ [][ToolNext]_toolVars

\* The operating system runs the threads and the caller, and time passes.
FairToolSpec ==
    /\ ToolSpec
    /\ \A s \in Streams : WF_toolVars(Reader(s))
    /\ WF_toolVars(Poll) /\ WF_toolVars(TimeOut) /\ WF_toolVars(Join) /\ WF_toolVars(Verdict)
    /\ WF_toolVars(Finally) /\ WF_toolVars(Kill) /\ WF_toolVars(Close)

-------------------------------------------------------------------------------
(***************************************************************************)
(* Properties                                                              *)
(***************************************************************************)
\* The log of a run that returns is all that the tool has written, and it ended
\* well: neither what is still in a pipe when the tool ends, nor a chunk beyond
\* the limit, nor a process that holds the outputs, makes an incomplete log pass.
LogWhole == result = "returned" => child = "ended" /\ \A s \in Streams : log[s] = wrote[s]

\* However it ends, no tool is left running beside the job's next step.
Reaped == caller = "done" => ~Alive

\* Every run of a tool ends, if the tool hangs, waits for a full pipe, ignores
\* being told to end or leaves its outputs open.
ToolReturns == <>(caller = "done")
===============================================================================
