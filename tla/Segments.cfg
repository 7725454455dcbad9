\* Three segments, two requests in flight, two attempts, two runs of the job;
\* a tool with two outputs of up to three chunks, of which two are saved and two fit in a pipe.
CONSTANTS
    Count = 3
    Concurrency = 2
    Attempts = 2
    Placeholders = TRUE
    MaxDelay = 2
    MaxRuns = 2
    MaxFaults = 2
    s1 = s1
    Streams = {stdout, stderr}
    Limit = 2
    Pipe = 2
    Output = 3
SPECIFICATION WorkerSpec
INVARIANTS
    QueueSound
    LogWhole
PROPERTIES
    StopAndDrain
    ReceiptsSpec
    RunEnds
    RequestsEnd
    RunReturns
CHECK_DEADLOCK FALSE
