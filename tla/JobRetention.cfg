\* A transcription of a registered video that is retried after its expiry.
CONSTANTS
    w1 = w1
    w2 = w2
    c1 = c1
    c2 = c2
    j1 = j1
    j2 = j2
    b1 = b1
    Admission = Admission
    Serial = Serial
    Nobody = Nobody
    NoJob = NoJob
    Jobs = {j1}
    Workers = {w1}
    Clients = {c1}
    Collectors = {b1}
    AssetJobs = {j1}
    RequestOf <- TranscribeRequest
    MaxEnqueued = 2
    MaxFaults = 0
SPECIFICATION Spec
INVARIANTS
    ResultGuarantee
