SPECIFICATION Spec
CONSTANTS
    MaxClient = 2
    MaxPlayList = 3
    Token = {t1}
    CharIsSigned = TRUE
    U32 = 16
    Host = {h1, h2}
    NoIP = NoIP
    NoToken = NoToken
    StopClearsActive = FALSE
    ClientMsgId = {"register_m", "add_m"}
    MaxMsgs = 3
    MaxWaiting = 1
    MaxDrops = 0
SYMMETRY Symmetry
PROPERTIES
    EveryClientIsTried
CHECK_DEADLOCK FALSE
