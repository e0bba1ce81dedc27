SPECIFICATION Spec
CONSTANTS
    MaxClient = 3
    MaxPlayList = 3
    Token = {t1, t2}
    CharIsSigned = FALSE
    U32 = 16
    Host = {h1, h2}
    NoIP = NoIP
    NoToken = NoToken
    StopClearsActive = FALSE
    ClientMsgId = {"register_m", "add_m", "delete_m", "deregister_m", "unknown_m"}
    MaxMsgs = 4
    MaxWaiting = 1
    MaxDrops = 1
SYMMETRY Symmetry
INVARIANTS
    TypeOK
    OneAnswerPerDownload
    DownloadsHaveSlots
    SlotsFollowState
    PlayerBalance
    DeleteDownloadingFindsSong
    ClientsAreSeparate
    EverySongIsCounted
PROPERTIES
    DownloadSlotLeftAlone
CHECK_DEADLOCK FALSE
