SPECIFICATION Spec
CONSTANTS
    MaxClient = 2
    MaxPlayList = 3
    Token = {t1, t2}
    CharIsSigned = FALSE
    U32 = 16
    Host = {h1}
    NoIP = NoIP
    NoToken = NoToken
    StopClearsActive = FALSE
    ClientMsgId = {"register_m", "add_m", "delete_m"}
    MaxMsgs = 7
    MaxWaiting = 1
    MaxDrops = 0
SYMMETRY Symmetry
INVARIANTS
    FullPlayListHasSongs
CHECK_DEADLOCK FALSE
