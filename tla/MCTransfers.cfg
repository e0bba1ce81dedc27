SPECIFICATION TransfersSpec
CONSTANTS
    Node = {n1, n2, n3}
    Data = {d1, d2}
    NULL = NULL
    MaxTotal = 4
    MaxClient = 3
    Token <- Tokens
    MaxUpdates = 2
    MaxDrops = 1
    Client = {c1, c2}
    Fd = {f1, f2}
    Msg = {m1, m2}
    Worker = {w1, w2}
    MaxRequests = 3
    MaxSongClient = 2
    MaxSongRequests = 4
    MaxFailures = 1
    Song <- Songs
    Length <- Lengths
    FileName <- FileNames
    NoSong = NoSong
    Block = 2
    MaxDownloads = 3
    MaxCrashes = 1
INVARIANTS
    TransfersTypeOK
    NoNodeIsLost
    PacketsArrive
    EveryoneElseIsTold
    ConnectionsAreOwned
    AnswersFollowRequests
    ReadyFileIsSong
    DescriptorsAreClosed
    OneAnswerIsAwaited
    OnlyStaleClearsHurt
PROPERTIES
    ImplementsSeqList
CHECK_DEADLOCK FALSE
