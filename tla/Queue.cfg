\* Two files, four events of the user or the page, a session of two chunks.
CONSTANTS
    MaxItems = 2
    MaxEvents = 4
    None = None
    f1 = f1
    f2 = f2
    page = page
    Nobody = Nobody
    Nothing = Nothing
    Files = {f1, f2}
    Data = {1, 2}
    Bytes <- Contents
    Size = 2
    Chunk = 1
    MaxRetries = 1
    MaxCrashes = 1
SPECIFICATION PageSpec
INVARIANTS
    QueueInv
    PageInv
PROPERTIES
    QueueSpec
CHECK_DEADLOCK FALSE
