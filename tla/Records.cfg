\* One session, one legacy job, one workflow job and a failure; two owners and two
\* settings pages; two tenants of space, videos of one unit, beside which a margin is
\* nothing, and a quota of four; two requests that may change models after an error or
\* after a refusal, and a failure.
CONSTANTS
    Sessions = {s1}
    Legacy = {l1}
    Workflows = {w1}
    MaxCrashes = 1
    None = None
    Tenants = {h1, h2}
    Size = 1
    Small = 1
    Margin = 0
    Quota = 4
    MaxDrift = 1
    Nobody = Nobody
    Owners = {o1, o2}
    Forms = {f1, f2}
    Providers = {gemini, openai}
    Default = gemini
    MaxSaves = 2
    MaxKeys = 2
    Nothing = Nothing
    Segments = {c1, c2}
    Attempts = 2
    Tries = 1
    Routes = {{"primary"}}
    Policies = {{"error"}, {"block"}}
    MaxFaults = 1
SPECIFICATION RecordsSpec
SYMMETRY Alike
INVARIANTS
    RegistryInv
    SpaceSound
    SettingsSound
    RequestSound
PROPERTIES
    NothingLost
    NotAskedAgain
CHECK_DEADLOCK FALSE
