SPECIFICATION FairSpec
CONSTANTS
    MaxClient = 2
    MaxPlayList = 3
    Token = {t1}
    CharIsSigned = FALSE
    U32 = 16
    Host = {h1}
    NoIP = NoIP
    NoToken = NoToken
    StopClearsActive = FALSE
    ClientMsgId = {"register_m", "add_m"}
    MaxMsgs = 2
    MaxWaiting = 1
    MaxDrops = 0
PROPERTIES
    PlayedSongIsRemoved
CHECK_DEADLOCK FALSE
