\* Three downloads and two executors of one job, dying up to three times; a user
\* with two windows; an upload and a job.
CONSTANTS
    Nobody = Nobody
    Readers = {r1, r2, r3}
    Executors = {e1, e2}
    MaxCrashes = 3
    t1 = t1
    t2 = t2
    p1 = p1
    user = user
    upload = upload
    workflow = workflow
    None = None
SPECIFICATION EndsSpec
PROPERTIES
    LockSpec
    Served
    Dismissed
    JobOrphansGo
CHECK_DEADLOCK FALSE
