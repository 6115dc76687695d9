SPECIFICATION FairDownload
CONSTANTS
    Limit = 2
    KnownSize = 4
    InvSize = 4
    PowBlocks = {1, 2, 4}
    Recent = 3
    StartHeight = 6
    MaxHeight = 7
    MaxConnects = 2
INVARIANT DownloadCompletes
CHECK_DEADLOCK FALSE
