\* Two short jobs, two workers and two API threads.
CONSTANTS
    w1 = w1
    w2 = w2
    c1 = c1
    c2 = c2
    j1 = j1
    j2 = j2
    b1 = b1
    Admission = Admission
    Serial = Serial
    Nobody = Nobody
    NoJob = NoJob
    Jobs = {j1, j2}
    Workers = {w1, w2}
    Clients = {c1, c2}
    Collectors = {}
    AssetJobs = {j1, j2}
    RequestOf <- ExtractRequest
    MaxEnqueued = 3
    MaxFaults = 1
SPECIFICATION Spec
SYMMETRY InterchangeableJobs
INVARIANTS
    OneRun
