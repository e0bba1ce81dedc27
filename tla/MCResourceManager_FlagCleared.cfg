SPECIFICATION Spec
CONSTANTS
    MaxClient = 3
    MaxPlayList = 3
    Token = {t1}
    CharIsSigned = TRUE
    U32 = 16
    Host = {h1, h2}
    NoIP = NoIP
    NoToken = NoToken
    StopClearsActive = TRUE
    ClientMsgId = {"register_m", "add_m"}
    MaxMsgs = 5
    MaxWaiting = 1
    MaxDrops = 0
SYMMETRY Symmetry
INVARIANTS
    OneAnswerPerDownload
    SlotsFollowState
    PlayerBalance
    ActiveClientPlays
PROPERTIES
    NoSecondTurn
CHECK_DEADLOCK FALSE
