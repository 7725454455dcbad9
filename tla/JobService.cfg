\* One translation job on a registered video, with a snapshot of its subtitle and
\* retries; two workers, of which one may fail once.  The job expires by what a
\* worker does before it looks for work.
CONSTANTS
    w1 = w1
    w2 = w2
    c1 = c1
    c2 = c2
    j1 = j1
    j2 = j2
    b1 = b1
    Admission = Admission
    Serial = Serial
    Nobody = Nobody
    NoJob = NoJob
    Jobs = {j1}
    Workers = {w1, w2}
    Clients = {c1}
    Collectors = {}
    AssetJobs = {j1}
    RequestOf <- TranslateRequest
    MaxEnqueued = 3
    MaxFaults = 1
SPECIFICATION FairSpec
PROPERTIES
    CancelHeeded
    StopHeeded
    QueuedServed
