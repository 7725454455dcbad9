\* One job on an own upload, taken through subtitle review by two workers, two
\* API threads and an expiry batch.
CONSTANTS
    w1 = w1
    w2 = w2
    c1 = c1
    c2 = c2
    j1 = j1
    j2 = j2
    b1 = b1
    Admission = Admission
    Serial = Serial
    Nobody = Nobody
    NoJob = NoJob
    Jobs = {j1}
    Workers = {w1, w2}
    Clients = {c1, c2}
    Collectors = {b1}
    AssetJobs = {}
    RequestOf <- UploadRequest
    MaxEnqueued = 3
    MaxFaults = 2
SPECIFICATION Spec
SYMMETRY Interchangeable
INVARIANTS
    RunnableHasSource
    ResultsKept
    JobInv
PROPERTIES
    ContractSpec
