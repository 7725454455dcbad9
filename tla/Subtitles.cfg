\* Two windows, five contents and three runs for the review; two models each for
\* transcription and translation,
\* and three attempts that end anywhere.
CONSTANTS
    Editors = {e1, e2}
    MaxContents = 5
    MaxRuns = 3
    None = None
    x = x
    y = y
    z = z
    Timelines <- Shortened
    Window = 3
    Slack = 1
    Texts <- Sayings
    Labels <- Noises
    Blocked = blocked
    Near = 1
    Long = 5
    Batch = 2
    MaxCues = 3
    Stt = {s1, s2}
    Tr = {t1, t2}
    Cuts = {c1, c2}
    Parts = {v1, v2}
    Unknown = Unknown
    MaxAttempts = 3
    Length = 7
    Silent = 4
    Padding = 1
    Edge = 1
    Guard = 1
    Shortest = 1
    Longest = 3
    MaxFindings = 3
    Languages <- Tongues
    Duration = 9
    Leeway = 1
    MaxLines = 2
    MaxUtterances = 2
    Wordings <- Spoken
SPECIFICATION SubtitlesSpec
INVARIANTS
    ReviewSound
    CutSound
    TracksSound
    ResultsSound
    LayoutSound
PROPERTIES
    SavesBuildOn
CHECK_DEADLOCK FALSE
