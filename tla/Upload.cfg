\* Two windows with three transfers, retries and one crash of the API; two users
\* who log in twice.
CONSTANTS
    f1 = f1
    f2 = f2
    None = None
    Nobody = Nobody
    Nothing = Nothing
    Tabs = {t1, t2}
    Files = {f1, f2}
    Data = {1, 2}
    Bytes <- Contents
    Size = 3
    Chunk = 2
    MaxRetries = 1
    MaxStarts = 3
    MaxCrashes = 1
    Users = {u1, u2}
    Windows = {w1, w2}
    Polls = {p1}
    MaxSessions = 2
    MaxResets = 1
    Kept = 1
SPECIFICATION WindowsSpec
SYMMETRY Alike
INVARIANTS
    UploadInv
    SessionsSound
PROPERTIES
    FinishedByOwner
    WorkAsShown
    LateRefusal
    EndedForCause
CHECK_DEADLOCK FALSE
