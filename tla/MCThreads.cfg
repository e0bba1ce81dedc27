SPECIFICATION ThreadsSpec
CONSTANTS
    RmMsg = {m1, m2, m3}
    NoMsg = NoMsg
    MaxClient = 2
    Host = {h1, h2}
    NoIP = NoIP
    Worker = {w1}
    NoThread = NoThread
    MaxRequests = 3
    MaxDrops = 2
    RandomSong = {r1, r2}
    ClientSong = c1
    NoSong = NoSong
    Frames = 2
    MaxJobs = 3
    MaxMsgs = 2
    Dir = {0, 1, 2, 3}
    Root = 0
    Song = {s1, s2}
    Other = {o1}
INVARIANTS
    ThreadsTypeOK
    OneSessionPerAddress
    OpenFileIsRead
PROPERTIES
    ServesInOrder
    WakeupServesAll
    OperationsEnd
    EveryJobEnds
    SearchEnds
CHECK_DEADLOCK FALSE
