------------------------------- MODULE MCWorker -------------------------------
(***************************************************************************)
(* What a worker waits for, on small instances: the requests of a segment  *)
(* queue, a single call of a provider, a media tool.  The three share no   *)
(* state; one of them, chosen in the beginning, is at work, and the others *)
(* stay as they are.                                                       *)
(***************************************************************************)
EXTENDS SegmentQueue, ProcessRun

CONSTANT s1

VARIABLES
    part,
    \* the call
    sdk, policy, active, at, attempts, tries, model, got, hold, verdict, trace, outcome,
    stop, cancelled, deaf, misses, asked, barred

\* Three tries through the SDK, no second model.
Call == INSTANCE ModelRequests WITH
            Segments <- {s1}, Attempts <- 1, Tries <- 3, Routes <- {{"primary", "fallback"}},
            Policies <- {{}}, MaxFaults <- 2, held <- hold, halted <- stop, faults <- misses

call == <<sdk, policy, active, at, attempts, tries, model, got, hold, verdict, trace, outcome,
          stop, cancelled, deaf, misses, asked, barred>>
all == <<part, vars, call, toolVars>>

WorkerInit == part \in {"queue", "call", "tool"} /\ Init /\ Call!RequestsInit /\ ToolInit

WorkerNext ==
    \/ part = "queue" /\ Next /\ UNCHANGED <<part, call, toolVars>>
    \/ part = "call" /\ Call!RequestsNext /\ UNCHANGED <<part, vars, toolVars>>
    \/ part = "tool" /\ ToolNext /\ UNCHANGED <<part, vars, call>>

\* The fairness of each; that of the queue asks nothing before it has begun.
FairCall == WF_all(part = "call" /\ Call!Serve(s1) /\ UNCHANGED <<part, vars, toolVars>>)

InTool(A) == part = "tool" /\ A /\ UNCHANGED <<part, vars, call>>
FairTool ==
    /\ \A s \in Streams : WF_all(InTool(Reader(s)))
    /\ WF_all(InTool(Poll)) /\ WF_all(InTool(TimeOut)) /\ WF_all(InTool(Join))
    /\ WF_all(InTool(Verdict)) /\ WF_all(InTool(Finally)) /\ WF_all(InTool(Kill))
    /\ WF_all(InTool(Close))

WorkerSpec == WorkerInit /\ [][WorkerNext]_all /\ Fairness /\ FairCall /\ FairTool

-------------------------------------------------------------------------------
\* ModelRequests: every request comes to an end, whatever the provider does.
RequestsEnd == part = "call" => Call!RequestsEnd

\* ProcessRun: every run of a tool ends.
RunReturns == part = "tool" => ToolReturns
===============================================================================
