\* One name edited twice, with a restart and a failing statement anywhere.
SPECIFICATION FairSpec
CONSTANTS
    Paths = {p1}
    Contents = {a, b, Empty, Outside}
    Empty = Empty
    Outside = Outside
    NoHash = NoHash
    DeleteSource = {FALSE, TRUE}
    IngestConcurrency = 1
    MaxEdits = 2
    MaxCrashes = 1
    MaxFaults = 1
INVARIANTS
    SkippedIsArchived
    LinksNotFollowed
    RecordedIsArchived
PROPERTY QuietFilesArchived
