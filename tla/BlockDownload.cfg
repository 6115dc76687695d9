SPECIFICATION FairDownload
CONSTANTS
    Limit = 2
    KnownSize = 4
    InvSize = 4
    PowBlocks = {1, 3, 5}
    Recent = 3
    StartHeight = 6
    MaxHeight = 7
    MaxConnects = 2
INVARIANT KnownComes
INVARIANT BatchArrives
INVARIANT NewBlockResumes
INVARIANT DownloadedToPow
PROPERTY ExchangeEnds
CHECK_DEADLOCK FALSE
