------------------------ MODULE ResourceManagerProofs ------------------------
(***************************************************************************)
(* Proofs about the resource manager, for every number of clients, every   *)
(* set of hosts and tokens, both readings of char and of the jukebox flag, *)
(* and every bound.                                                        *)
(***************************************************************************)
EXTENDS ResourceManager, SequenceTheorems, TLAPS

-----------------------------------------------------------------------------
(* The playlist keeps its types.                                            *)

LEMMA Constants ==
    /\ MaxClient \in Nat /\ MaxClient >= 2
    /\ U32 \in Nat \ {0}
    /\ 0 \in ClientId
    /\ MinusOne \in Int
  BY PlayListAssumption DEF ClientId, MinusOne

\* The counters are unsigned: whatever is assigned to one wraps.
LEMMA Wraps ==
    ASSUME NEW m \in Int, NEW n \in Int
    PROVE  /\ (m + n) % U32 \in 0 .. U32 - 1
           /\ (m - n) % U32 \in 0 .. U32 - 1
  BY Constants

LEMMA RemoveAtType ==
    ASSUME NEW S, NEW s \in Seq(S), NEW k \in DOMAIN s
    PROVE  RemoveAt(s, k) \in Seq(S)
<1>1. Len(s) \in Nat /\ DOMAIN s = 1 .. Len(s)
  BY LenProperties
<1>2. SubSeq(s, 1, k - 1) \in Seq(S) /\ SubSeq(s, k + 1, Len(s)) \in Seq(S)
  BY <1>1, SubSeqProperties
<1> QED BY <1>2, ConcatProperties DEF RemoveAt

LEMMA ListType ==
    ASSUME PlayListTypeOK, NEW id \in ClientId
    PROVE  /\ pList[id] \in Seq(Song)
           /\ Len(pList[id]) \in Nat
           /\ DOMAIN pList[id] = 1 .. Len(pList[id])
           /\ \A k \in DOMAIN pList[id] : pList[id][k] \in Song
  BY LenProperties, ElementOfSeq DEF PlayListTypeOK

LEMMA DeleteType ==
    ASSUME PlayListTypeOK, NEW id \in ClientId, NEW field, NEW value,
           deleteOneFromListHaving(id, field, value)
    PROVE  /\ pList' \in [ClientId -> Seq(Song)]
           /\ totalNode' \in [ClientId -> 0 .. U32 - 1]
<1>1. ASSUME NEW k \in DOMAIN pList[id], DeleteNode(id, k)
      PROVE  /\ pList' \in [ClientId -> Seq(Song)]
             /\ totalNode' \in [ClientId -> 0 .. U32 - 1]
  <2>1. RemoveAt(pList[id], k) \in Seq(Song)
    BY <1>1, ListType, RemoveAtType
  <2>2. totalNode[id] \in Int /\ 1 \in Int
    BY Constants DEF PlayListTypeOK
  <2>3. (totalNode[id] - 1) % U32 \in 0 .. U32 - 1
    BY <2>2, Wraps
  <2> QED BY <1>1, <2>1, <2>3 DEF DeleteNode, PlayListTypeOK
<1> QED BY <1>1 DEF deleteOneFromListHaving, listVars, PlayListTypeOK

LEMMA StatusType ==
    ASSUME PlayListTypeOK, NEW id \in ClientId, NEW k \in DOMAIN pList[id],
           NEW status \in SongStatus,
           pList' = [pList EXCEPT ![id][k].plStatus = status]
    PROVE  pList' \in [ClientId -> Seq(Song)]
<1>1. pList[id][k] \in Song /\ pList[id] \in Seq(Song)
  BY ListType
<1>2. [pList[id][k] EXCEPT !.plStatus = status] \in Song
  BY <1>1 DEF Song
<1>3. [pList[id] EXCEPT ![k] = [pList[id][k] EXCEPT !.plStatus = status]] \in Seq(Song)
  BY <1>1, <1>2, ExceptSeq
<1> QED BY <1>3 DEF PlayListTypeOK

LEMMA addToPlayListType ==
    ASSUME PlayListTypeOK, NEW id \in ClientId, NEW tok \in Token, addToPlayList(id, tok)
    PROVE  PlayListTypeOK'
<1>1. [token |-> tok, plStatus |-> "PL_WAITING"] \in Song
  BY DEF Song, SongStatus
<1>2. Append(pList[id], [token |-> tok, plStatus |-> "PL_WAITING"]) \in Seq(Song)
  BY <1>1, ListType, AppendProperties
<1>3. /\ (totalNode[id] + 1) % U32 \in 0 .. U32 - 1
      /\ (playListSize + 1) % U32 \in 0 .. U32 - 1
  BY Constants DEF PlayListTypeOK
<1> QED BY <1>2, <1>3 DEF addToPlayList, PlayListTypeOK

LEMMA deleteDownloadingType ==
    ASSUME PlayListTypeOK, deleteDownloading PROVE PlayListTypeOK'
  BY DeleteType DEF deleteDownloading, PlayListTypeOK

LEMMA deletePlayingType ==
    ASSUME PlayListTypeOK, deletePlaying \/ deletePlayingWild PROVE PlayListTypeOK'
<1>1. CASE deletePlayingWild
  BY <1>1 DEF deletePlayingWild, plVars, PlayListTypeOK
<1>2. CASE deletePlaying
  <2>1. /\ pList' \in [ClientId -> Seq(Song)]
        /\ totalNode' \in [ClientId -> 0 .. U32 - 1]
    BY <1>2, DeleteType DEF deletePlaying, WildPlaying
  <2>2. playListSize \in Int /\ 1 \in Int
    BY Constants DEF PlayListTypeOK
  <2>3. (playListSize - 1) % U32 \in 0 .. U32 - 1
    BY <2>2, Wraps
  <2> QED BY <1>2, <2>1, <2>3 DEF deletePlaying, PlayListTypeOK
<1> QED BY <1>1, <1>2

LEMMA deleteFromPlayListType ==
    ASSUME PlayListTypeOK, NEW id \in ClientId, deleteFromPlayList(id)
    PROVE  PlayListTypeOK'
<1>1. totalNode[id] \in Int /\ playListSize \in Int /\ Len(pList[id]) \in Int
  BY ListType, Constants DEF PlayListTypeOK
<1>2. /\ (playListSize - totalNode[id]) % U32 \in 0 .. U32 - 1
      /\ (totalNode[id] - Len(pList[id])) % U32 \in 0 .. U32 - 1
  BY <1>1, Wraps
<1> QED BY <1>2, EmptySeq DEF deleteFromPlayList, PlayListTypeOK

LEMMA deleteFromClientHavingTokenType ==
    ASSUME PlayListTypeOK, NEW id \in ClientId, NEW tok, deleteFromClientHavingToken(id, tok)
    PROVE  PlayListTypeOK'
  BY DeleteType DEF deleteFromClientHavingToken, PlayListTypeOK

LEMMA setPlayListStatusType ==
    ASSUME PlayListTypeOK, NEW id \in ClientId, NEW status \in SongStatus,
           setPlayListStatus(id, status)
    PROVE  PlayListTypeOK'
  BY StatusType DEF setPlayListStatus, PlayListTypeOK

LEMMA ScheduledType ==
    ASSUME PlayListTypeOK, NEW id \in ClientId, NEW k, Scheduled(id, k)
    PROVE  k \in DOMAIN pList[id]
<1>1. Len(pList[id]) \in Nat /\ DOMAIN pList[id] = 1 .. Len(pList[id]) /\ pList[id] \in Seq(Song)
  BY ListType
<1>2. HeadWaiting(id) => Len(pList[id]) >= 1
  BY <1>1, EmptySeq DEF HeadWaiting
<1> QED BY <1>1, <1>2 DEF Scheduled

LEMMA getOneForDownloadingType ==
    ASSUME PlayListTypeOK, NEW id \in ClientId, NEW k, getOneForDownloading(id, k)
    PROVE  PlayListTypeOK' /\ pList[id][k].token \in Token
<1>1. k \in DOMAIN pList[id]
  BY ScheduledType DEF getOneForDownloading
<1>2. pList[id][k] \in Song
  BY <1>1, ListType
<1>3. pList' \in [ClientId -> Seq(Song)]
  BY <1>1, StatusType DEF getOneForDownloading, SongStatus
<1> QED BY <1>2, <1>3 DEF getOneForDownloading, PlayListTypeOK, Song

-----------------------------------------------------------------------------
(* So do the player and the client database.                                *)

DbTypeOK == PlayListTypeOK /\ PlayerTypeOK /\ ClientDbTypeOK

LEMMA SongEndsType ==
    ASSUME PlayerTypeOK, NEW msgId, SongEnds(msgId) PROVE PlayerTypeOK'
<1>1. CASE playJobs > 0 /\ playJobs' = playJobs - 1 /\ UNCHANGED <<stop, players, isActive>>
  BY <1>1 DEF PlayerTypeOK
<1>2. CASE players > 0 /\ players' = players - 1 /\ UNCHANGED <<playJobs, isActive>>
  <2>1. stop' = FALSE \/ stop' = stop
    BY DEF SongEnds
  <2>2. players' \in Nat /\ playJobs' \in Nat
    BY <1>2 DEF PlayerTypeOK
  <2> QED BY <1>2, <2>1, <2>2 DEF PlayerTypeOK
<1> QED BY <1>1, <1>2 DEF SongEnds

LEMMA SlotStatusType ==
    ASSUME ClientDbTypeOK, NEW i \in SlotIndex,
           NEW status \in {"PL_NONE", "PL_DOWNLOADING", "PL_READY", "PL_PLAYING"}
    PROVE  /\ schData[i] \in Slot
           /\ [schData[i] EXCEPT !.status = status] \in Slot
           /\ [schData EXCEPT ![i].status = status] \in [SlotIndex -> Slot]
<1>1. schData[i] \in Slot
  BY DEF ClientDbTypeOK
<1>2. [schData[i] EXCEPT !.status = status] \in Slot
  BY <1>1 DEF Slot
<1> QED BY <1>1, <1>2 DEF ClientDbTypeOK

LEMMA checkAndDeleteCurrentListType ==
    ASSUME DbTypeOK, NEW id \in ClientId, checkAndDeleteCurrentList(id)
    PROVE  schData' \in [SlotIndex -> Slot] /\ stop' \in BOOLEAN
<1>1. \A i \in SlotIndex : schData[i] \in Slot /\ [schData[i] EXCEPT !.status = "PL_NONE"] \in Slot
  BY SlotStatusType DEF DbTypeOK
<1> QED BY <1>1 DEF checkAndDeleteCurrentList, DbTypeOK, PlayerTypeOK

LEMMA deregisterClientType ==
    ASSUME DbTypeOK, NEW id \in ClientId, deregisterClient(id) PROVE DbTypeOK'
<1>1. CASE ~Registered(id)
  BY <1>1 DEF deregisterClient, cdbVars, plVars, mpVars, DbTypeOK, PlayListTypeOK,
              PlayerTypeOK, ClientDbTypeOK
<1>2. CASE Registered(id)
  <2>1. checkAndDeleteCurrentList(id) /\ deleteFromPlayList(id)
    BY <1>2 DEF deregisterClient
  <2>2. PlayListTypeOK'
    BY <2>1, deleteFromPlayListType DEF DbTypeOK
  <2>3. schData' \in [SlotIndex -> Slot] /\ stop' \in BOOLEAN
    BY <2>1, checkAndDeleteCurrentListType
  <2>4. PlayerTypeOK'
    BY <1>2, <2>3 DEF deregisterClient, DbTypeOK, PlayerTypeOK
  <2>5. ClientDbTypeOK'
    BY <1>2, <2>3 DEF deregisterClient, DbTypeOK, ClientDbTypeOK, ClientState
  <2> QED BY <2>2, <2>4, <2>5 DEF DbTypeOK
<1> QED BY <1>1, <1>2

LEMMA takeSlotType ==
    ASSUME DbTypeOK, NEW id \in ClientId, NEW host \in Host, takeSlot(id, host)
    PROVE  DbTypeOK'
<1>1. PlayListTypeOK' /\ PlayerTypeOK'
  BY DEF takeSlot, plVars, mpVars, DbTypeOK, PlayListTypeOK, PlayerTypeOK
<1>2. ClientDbTypeOK'
  BY DEF takeSlot, DbTypeOK, ClientDbTypeOK, ClientState
<1> QED BY <1>1, <1>2 DEF DbTypeOK

LEMMA getRequestForDownloadingType ==
    ASSUME DbTypeOK, NEW request \in Request, getRequestForDownloading(request)
    PROVE  DbTypeOK'
<1>1. PlayListTypeOK'
  BY getOneForDownloadingType DEF getRequestForDownloading, DbTypeOK, Request
<1>2. [clientId |-> request.clntId, reqToken |-> request.requestId,
       status |-> "PL_DOWNLOADING"] \in Slot
  BY DEF Request, Slot
<1>3. ClientDbTypeOK'
  BY <1>2 DEF getRequestForDownloading, DbTypeOK, ClientDbTypeOK, SlotIndex
<1> QED BY <1>1, <1>3 DEF getRequestForDownloading, mpVars, DbTypeOK, PlayerTypeOK

LEMMA downloadReadyType ==
    ASSUME DbTypeOK, NEW i \in SlotIndex, NEW id \in ClientId, downloadReady(i, id)
    PROVE  DbTypeOK'
<1>1. PlayListTypeOK'
  BY setPlayListStatusType DEF downloadReady, DbTypeOK, SongStatus
<1>2. ClientDbTypeOK'
  BY SlotStatusType DEF downloadReady, DbTypeOK, ClientDbTypeOK
<1> QED BY <1>1, <1>2 DEF downloadReady, mpVars, DbTypeOK, PlayerTypeOK

LEMMA downloadFailedType ==
    ASSUME DbTypeOK, NEW i \in SlotIndex, downloadFailed(i) PROVE DbTypeOK'
<1>1. PlayListTypeOK'
  BY deleteDownloadingType DEF downloadFailed, DbTypeOK
<1>2. ClientDbTypeOK'
  BY SlotStatusType DEF downloadFailed, DbTypeOK, ClientDbTypeOK
<1> QED BY <1>1, <1>2 DEF downloadFailed, mpVars, DbTypeOK, PlayerTypeOK

LEMMA getRequestForPlayingType ==
    ASSUME DbTypeOK, NEW i \in SlotIndex, getRequestForPlaying(i) PROVE DbTypeOK'
<1>1. schData[i].clientId \in ClientId
  BY SlotStatusType DEF DbTypeOK, Slot
<1>2. PlayListTypeOK'
  BY <1>1, setPlayListStatusType DEF getRequestForPlaying, DbTypeOK, SongStatus
<1>3. schData' \in [SlotIndex -> Slot]
  BY SlotStatusType DEF getRequestForPlaying, DbTypeOK
<1>4. ClientDbTypeOK'
  BY <1>1, <1>3 DEF getRequestForPlaying, DbTypeOK, ClientDbTypeOK, ClientState
<1> QED BY <1>2, <1>4 DEF getRequestForPlaying, queueSong, DbTypeOK, PlayerTypeOK

LEMMA setPlayingStatusType ==
    ASSUME DbTypeOK, NEW i \in SlotIndex, setPlayingStatus(i)
    PROVE  DbTypeOK' /\ schData[i].clientId \in ClientId
<1>1. schData[i].clientId \in ClientId
  BY SlotStatusType DEF DbTypeOK, Slot
<1>2. PlayListTypeOK'
  BY deletePlayingType DEF setPlayingStatus, DbTypeOK
<1>3. schData' \in [SlotIndex -> Slot]
  BY SlotStatusType DEF setPlayingStatus, DbTypeOK
<1>4. ClientDbTypeOK'
  BY <1>1, <1>3 DEF setPlayingStatus, DbTypeOK, ClientDbTypeOK, ClientState
<1> QED BY <1>1, <1>2, <1>4 DEF setPlayingStatus, mpVars, DbTypeOK, PlayerTypeOK

LEMMA addToQueueType ==
    ASSUME DbTypeOK, NEW id \in ClientId, NEW tok \in Token, addToQueue(id, tok)
    PROVE  DbTypeOK'
<1>1. PlayListTypeOK'
  BY addToPlayListType DEF addToQueue, DbTypeOK
<1> QED BY <1>1 DEF addToQueue, mpVars, DbTypeOK, PlayerTypeOK, ClientDbTypeOK

LEMMA deleteFromQueueType ==
    ASSUME DbTypeOK, NEW id \in ClientId, NEW tok, deleteFromQueue(id, tok)
    PROVE  DbTypeOK'
<1>1. PlayListTypeOK'
  <2>1. CASE UNCHANGED plVars
    BY <2>1 DEF plVars, DbTypeOK, PlayListTypeOK
  <2>2. CASE deleteFromClientHavingToken(id, tok)
    BY <2>2, deleteFromClientHavingTokenType DEF DbTypeOK
  <2> QED BY <2>1, <2>2 DEF deleteFromQueue
<1>2. schData' \in [SlotIndex -> Slot]
  <2>1. CASE UNCHANGED schData
    BY <2>1 DEF DbTypeOK, ClientDbTypeOK
  <2>2. ASSUME NEW i \in SlotIndex, schData' = [schData EXCEPT ![i].status = "PL_NONE"]
        PROVE  schData' \in [SlotIndex -> Slot]
    BY <2>2, SlotStatusType DEF DbTypeOK
  <2> QED BY <2>1, <2>2 DEF deleteFromQueue
<1> QED BY <1>1, <1>2 DEF deleteFromQueue, DbTypeOK, PlayerTypeOK, ClientDbTypeOK

-----------------------------------------------------------------------------
(* And so does the whole, step by step.                                     *)

RmTypeOK ==
    /\ rmState \in RmState
    /\ rmQueue \in Seq(RmMsg)
    /\ rmPc \in RmPc
    /\ rmMsg \in RmMsg
    /\ notifyId \in ClientId
    /\ download \in SUBSET Request
    /\ sendAll \in SUBSET ClientId
    /\ fault \in Fault
    /\ sent \in 0 .. MaxMsgs
    /\ drops \in 0 .. MaxDrops

LEMMA TypeParts ==
    /\ TypeOK <=> DbTypeOK /\ RmTypeOK
    /\ TypeOK' <=> DbTypeOK' /\ RmTypeOK'
  BY DEF TypeOK, DbTypeOK, RmTypeOK

LEMMA DbUnchangedType ==
    ASSUME DbTypeOK, UNCHANGED <<plVars, mpVars, cdbVars>> PROVE DbTypeOK'
  BY DEF plVars, mpVars, cdbVars, DbTypeOK, PlayListTypeOK, PlayerTypeOK, ClientDbTypeOK

\* What a message carries depends on its kind.
LEMMA MessageTypes ==
    ASSUME RmTypeOK
    PROVE  /\ ServingClient("register_m") => rmMsg.data.cli_addr \in Host
           /\ ServingClient("add_m") =>
                  rmMsg.data.clntId \in ClientId /\ rmMsg.data.token \in Token
           /\ ServingClient("delete_m") =>
                  rmMsg.data.clntId \in ClientId /\ rmMsg.data.token \in Token
           /\ ServingClient("deregister_m") => rmMsg.data.clntId \in ClientId
           /\ rmMsg.msgId \in DownloadMsgId => rmMsg.data \in Request
<1>1. rmMsg \in RmMsg
  BY DEF RmTypeOK
<1>2. rmMsg.msgId = "rm_clntMsg_m" => rmMsg.data \in ClientMsg
  BY <1>1 DEF RmMsg, PlayerMsgId, DownloadMsgId
<1>3. rmMsg.msgId \in DownloadMsgId => rmMsg.data \in Request
  BY <1>1 DEF RmMsg, PlayerMsgId, DownloadMsgId
<1> QED BY <1>2, <1>3 DEF ServingClient, Serving, At, ClientMsg

LEMMA PostType ==
    ASSUME RmTypeOK, NEW msg \in RmMsg, Post(msg) PROVE rmQueue' \in Seq(RmMsg)
  BY AppendProperties DEF RmTypeOK, Post

LEMMA DropType == ASSUME RmTypeOK, Drop PROVE drops' \in 0 .. MaxDrops
  BY ResourceManagerAssumption DEF RmTypeOK, Drop

LEMMA CrashType ==
    ASSUME TypeOK, NEW f \in Fault, Crash(f), drops' \in 0 .. MaxDrops PROVE TypeOK'
<1>1. DbTypeOK'
  BY TypeParts, DbUnchangedType DEF Crash
<1>2. RmTypeOK'
  BY TypeParts DEF Crash, RmTypeOK, jobVars
<1> QED BY <1>1, <1>2, TypeParts

LEMMA MoveToType ==
    ASSUME TypeOK, NEW state \in RmState, NEW pc \in RmPc, MoveTo(state, pc) PROVE TypeOK'
<1>1. DbTypeOK'
  BY TypeParts, DbUnchangedType DEF MoveTo
<1>2. RmTypeOK'
  BY TypeParts DEF MoveTo, RmUnchanged, RmTypeOK, boundVars
<1> QED BY <1>1, <1>2, TypeParts

LEMMA TakeMessageType == ASSUME TypeOK, TakeMessage PROVE TypeOK'
<1>1. DbTypeOK /\ RmTypeOK
  BY TypeParts
<1>2. Head(rmQueue) \in RmMsg /\ Tail(rmQueue) \in Seq(RmMsg)
  BY <1>1, HeadTailProperties DEF TakeMessage, RmTypeOK
<1>3. DbTypeOK'
  <2>1. stop' \in BOOLEAN
    BY <1>1 DEF TakeMessage, DbTypeOK, PlayerTypeOK
  <2> QED BY <1>1, <2>1 DEF TakeMessage, plVars, cdbVars, DbTypeOK, PlayListTypeOK,
                            PlayerTypeOK, ClientDbTypeOK
<1>4. RmTypeOK'
  BY <1>1, <1>2 DEF TakeMessage, RmTypeOK, RmPc, jobVars, boundVars
<1> QED BY <1>3, <1>4, TypeParts

LEMMA ServClientRequestType ==
    ASSUME TypeOK,
           \/ ServRegisterAgain \/ ServRegister \/ ServAdd
           \/ ServDeregister \/ ServDelete \/ ServRefused
    PROVE  TypeOK'
<1> USE DEF RmUnchanged, RmTypeOK, RmPc, boundVars
<1>1. DbTypeOK /\ RmTypeOK
  BY TypeParts
<1>2. CASE ServRegisterAgain
  <2>1. DbTypeOK'
    BY <1>1, <1>2, deregisterClientType DEF ServRegisterAgain, endOldSession
  <2> QED BY <1>1, <1>2, <2>1, TypeParts DEF ServRegisterAgain
<1>3. CASE ServRegister
  <2>1. rmMsg.data.cli_addr \in Host
    BY <1>1, <1>3, MessageTypes DEF ServRegister
  <2>2. DbTypeOK'
    BY <1>1, <1>3, <2>1, takeSlotType DEF ServRegister
  <2> QED BY <1>1, <1>3, <2>2, TypeParts DEF ServRegister
<1>4. CASE ServAdd
  <2>1. rmMsg.data.clntId \in ClientId /\ rmMsg.data.token \in Token
    BY <1>1, <1>4, MessageTypes DEF ServAdd
  <2>2. DbTypeOK'
    BY <1>1, <1>4, <2>1, addToQueueType DEF ServAdd
  <2> QED BY <1>1, <1>4, <2>2, TypeParts DEF ServAdd
<1>5. CASE ServDeregister
  <2>1. rmMsg.data.clntId \in ClientId
    BY <1>1, <1>5, MessageTypes DEF ServDeregister
  <2>2. DbTypeOK'
    BY <1>1, <1>5, <2>1, deregisterClientType DEF ServDeregister
  <2> QED BY <1>1, <1>5, <2>2, TypeParts DEF ServDeregister
<1>6. CASE ServDelete
  <2>1. rmMsg.data.clntId \in ClientId
    BY <1>1, <1>6, MessageTypes DEF ServDelete
  <2>2. DbTypeOK'
    BY <1>1, <1>6, <2>1, deleteFromQueueType DEF ServDelete
  <2> QED BY <1>1, <1>6, <2>2, TypeParts DEF ServDelete
<1>7. CASE ServRefused
  <2>1. DbTypeOK'
    BY <1>1, <1>7, DbUnchangedType DEF ServRefused
  <2> QED BY <1>1, <1>7, <2>1, TypeParts DEF ServRefused
<1> QED BY <1>2, <1>3, <1>4, <1>5, <1>6, <1>7

LEMMA ServMplayerType ==
    ASSUME TypeOK,
           \/ ServJukeBoxDone \/ ServJukeBoxStop
           \/ ServMplayerResponse \/ ServMplayerResponseWild
    PROVE  TypeOK'
<1> USE DEF RmUnchanged, RmTypeOK, RmPc, boundVars
<1>1. DbTypeOK /\ RmTypeOK
  BY TypeParts
<1>2. CASE ServJukeBoxDone
  <2>1. DbTypeOK'
    BY <1>1, <1>2 DEF ServJukeBoxDone, scheduleNextRandomSong, plVars, cdbVars,
                      DbTypeOK, PlayListTypeOK, PlayerTypeOK, ClientDbTypeOK
  <2> QED BY <1>1, <1>2, <2>1, TypeParts DEF ServJukeBoxDone
<1>3. CASE ServJukeBoxStop
  <2>1. isActive' \in BOOLEAN
    BY <1>3 DEF ServJukeBoxStop
  <2>2. DbTypeOK'
    BY <1>1, <1>3, <2>1 DEF ServJukeBoxStop, plVars, cdbVars,
                            DbTypeOK, PlayListTypeOK, PlayerTypeOK, ClientDbTypeOK
  <2> QED BY <1>1, <1>3, <2>2, TypeParts DEF ServJukeBoxStop
<1>4. CASE ServMplayerResponse
  <2>1. CASE NoSlot("PL_PLAYING")
    <3>1. DbTypeOK'
      BY <1>1, <1>4, <2>1, DbUnchangedType DEF ServMplayerResponse
    <3> QED BY <1>1, <1>4, <2>1, <3>1, TypeParts DEF ServMplayerResponse
  <2>2. CASE ~NoSlot("PL_PLAYING")
    <3>1. PICK i \in SlotIndex :
             /\ setPlayingStatus(i)
             /\ notifyId' = schData[i].clientId
             /\ rmPc' = IF clientState[schData[i].clientId] = "clnt_active_state"
                        THEN "notify" ELSE "run"
      BY <1>4, <2>2 DEF ServMplayerResponse
    <3>2. DbTypeOK' /\ notifyId' \in ClientId
      BY <1>1, <3>1, setPlayingStatusType
    <3> QED BY <1>1, <1>4, <3>1, <3>2, TypeParts DEF ServMplayerResponse
  <2> QED BY <2>1, <2>2
<1>5. CASE ServMplayerResponseWild
  BY <1>1, <1>5, CrashType DEF ServMplayerResponseWild, Fault
<1> QED BY <1>2, <1>3, <1>4, <1>5

LEMMA handleDownloadType ==
    ASSUME TypeOK, handleDownloadComplete \/ handleDownloadError PROVE TypeOK'
<1> USE DEF RmUnchanged, RmTypeOK, RmPc, boundVars
<1>1. DbTypeOK /\ RmTypeOK
  BY TypeParts
<1>2. rmMsg.data.clntId \in ClientId
  BY <1>1, MessageTypes DEF handleDownloadComplete, handleDownloadError, Serving,
                            DownloadMsgId, Request
<1>3. DbTypeOK' /\ notifyId' \in ClientId
  <2>1. CASE Mismatch(rmMsg.data)
    BY <1>1, <2>1, DbUnchangedType DEF handleDownloadComplete, handleDownloadError, NothingToServe
  <2>2. CASE ~Mismatch(rmMsg.data) /\ handleDownloadComplete
    BY <1>1, <1>2, <2>2, downloadReadyType DEF handleDownloadComplete
  <2>3. CASE ~Mismatch(rmMsg.data) /\ handleDownloadError
    BY <1>1, <1>2, <2>3, downloadFailedType DEF handleDownloadError
  <2> QED BY <2>1, <2>2, <2>3
<1>4. rmPc' \in RmPc
  BY DEF handleDownloadComplete, handleDownloadError
<1> QED BY <1>1, <1>3, <1>4, TypeParts DEF handleDownloadComplete, handleDownloadError

LEMMA NotifyType ==
    ASSUME TypeOK, NotifyEnds \/ NotifyConnectFails \/ NotifySendFails PROVE TypeOK'
<1>1. DbTypeOK /\ RmTypeOK
  BY TypeParts
<1>2. CASE NotifyEnds
  <2>1. DbTypeOK'
    BY <1>1, <1>2, DbUnchangedType DEF NotifyEnds
  <2> QED BY <1>1, <1>2, <2>1, TypeParts DEF NotifyEnds, RmUnchanged, RmTypeOK, RmPc, boundVars
<1>3. CASE NotifyConnectFails
  <2>1. DbTypeOK'
    BY <1>1, <1>3, deregisterClientType DEF NotifyConnectFails, RmTypeOK
  <2>2. drops' \in 0 .. MaxDrops
    BY <1>1, <1>3, DropType DEF NotifyConnectFails
  <2> QED BY <1>1, <1>3, <2>1, <2>2, TypeParts DEF NotifyConnectFails, RmTypeOK, RmPc, jobVars
<1>4. CASE NotifySendFails
  BY <1>1, <1>4, CrashType, DropType DEF NotifySendFails, Fault
<1> QED BY <1>2, <1>3, <1>4

LEMMA rmRunStateType ==
    ASSUME TypeOK,
           \/ RunNothing \/ RunCallSchedular \/ moveToIdle \/ moveToDownloading
           \/ moveToPlaying \/ moveToPlayingNotReady
           \/ moveToPlayingDownloaded \/ moveToPlayingScheduleNext
    PROVE  TypeOK'
<1>1. DbTypeOK /\ RmTypeOK
  BY TypeParts
<1>2. CASE moveToPlaying
  <2>1. DbTypeOK'
    BY <1>1, <1>2, getRequestForPlayingType DEF moveToPlaying
  <2> QED BY <1>1, <1>2, <2>1, TypeParts
          DEF moveToPlaying, RmUnchanged, RmTypeOK, RmPc, RmState, boundVars
<1>3. ASSUME NEW state \in RmState, NEW pc \in {"drain", "schedule"}, MoveTo(state, pc)
      PROVE  TypeOK'
  BY <1>3, MoveToType DEF RmPc
<1> QED BY <1>1, <1>2, <1>3
        DEF RunNothing, RunCallSchedular, moveToIdle, moveToDownloading,
            moveToPlayingNotReady, moveToPlayingDownloaded, moveToPlayingScheduleNext,
            RmTypeOK, RmState

LEMMA callSchedularType ==
    ASSUME TypeOK, callSchedular \/ callSchedularNoClient \/ callSchedularWild PROVE TypeOK'
<1>1. DbTypeOK /\ RmTypeOK
  BY TypeParts
<1>2. CASE callSchedular
  <2>1. PICK request \in Request :
           getRequestForDownloading(request) /\ download' = download \cup {request}
    BY <1>2 DEF callSchedular
  <2>2. DbTypeOK'
    BY <1>1, <2>1, getRequestForDownloadingType
  <2>3. rmState' \in RmState
    BY <1>1, <1>2 DEF callSchedular, RmTypeOK, RmState
  <2> QED BY <1>1, <1>2, <2>1, <2>2, <2>3, TypeParts
          DEF callSchedular, RmTypeOK, RmPc, boundVars
<1>3. CASE callSchedularNoClient
  BY <1>1, <1>3, MoveToType DEF callSchedularNoClient, RmTypeOK, RmPc
<1>4. CASE callSchedularWild
  BY <1>1, <1>4, CrashType DEF callSchedularWild, RmTypeOK, Fault
<1> QED BY <1>2, <1>3, <1>4

LEMMA RmStepType == ASSUME TypeOK, RmStep PROVE TypeOK'
<1>1. CASE StartJukeBox
  <2>1. DbTypeOK'
    BY <1>1, TypeParts DEF StartJukeBox, scheduleNextRandomSong, plVars, cdbVars,
                           DbTypeOK, PlayListTypeOK, PlayerTypeOK, ClientDbTypeOK
  <2> QED BY <1>1, <2>1, TypeParts DEF StartJukeBox, RmTypeOK, RmPc, jobVars, boundVars
<1> QED BY <1>1, TakeMessageType, ServClientRequestType, ServMplayerType, handleDownloadType,
           NotifyType, rmRunStateType, callSchedularType
        DEF RmStep

LEMMA PlayerJobType == ASSUME TypeOK, PlayerJob PROVE TypeOK'
<1> USE DEF RmTypeOK, JobUnchanged, jobVars, boundVars
<1>1. DbTypeOK /\ RmTypeOK
  BY TypeParts
<1>2. CASE playSongOpens
  <2>1. DbTypeOK'
    BY <1>1, <1>2 DEF playSongOpens, SongOpens, plVars, cdbVars,
                      DbTypeOK, PlayListTypeOK, PlayerTypeOK, ClientDbTypeOK
  <2> QED BY <1>1, <1>2, <2>1, TypeParts DEF playSongOpens
<1>3. ASSUME NEW msgId \in PlayerMsgId, playSongEnds(msgId) PROVE TypeOK'
  <2>1. PlayerTypeOK'
    BY <1>1, <1>3, SongEndsType DEF playSongEnds, DbTypeOK
  <2>2. DbTypeOK'
    BY <1>1, <1>3, <2>1 DEF playSongEnds, plVars, cdbVars, DbTypeOK, PlayListTypeOK,
                            ClientDbTypeOK
  <2>3. [msgId |-> msgId] \in RmMsg
    BY DEF RmMsg
  <2>4. rmQueue' \in Seq(RmMsg)
    BY <1>1, <1>3, <2>3, PostType DEF playSongEnds
  <2> QED BY <1>1, <1>3, <2>2, <2>4, TypeParts DEF playSongEnds
<1> QED BY <1>2, <1>3 DEF PlayerJob

LEMMA DownloadJobType == ASSUME TypeOK, DownloadJob PROVE TypeOK'
<1> USE DEF RmTypeOK, JobUnchanged, boundVars
<1>1. DbTypeOK /\ RmTypeOK
  BY TypeParts
<1>2. \A request \in download, msgId \in DownloadMsgId :
          [msgId |-> msgId, data |-> request] \in RmMsg
  BY <1>1 DEF RmMsg
<1>3. ASSUME NEW request \in download, NEW msgId \in DownloadMsgId, downloadEnds(request, msgId)
      PROVE  TypeOK'
  <2>1. DbTypeOK'
    BY <1>1, <1>3, DbUnchangedType DEF downloadEnds
  <2>2. rmQueue' \in Seq(RmMsg)
    BY <1>1, <1>2, <1>3, PostType DEF downloadEnds
  <2> QED BY <1>1, <1>3, <2>1, <2>2, TypeParts DEF downloadEnds
<1> QED BY <1>3 DEF DownloadJob, downloadEnds

LEMMA SendAllJobsType == ASSUME TypeOK, SendAllJobs PROVE TypeOK'
<1> USE DEF RmTypeOK, JobUnchanged, boundVars, jobVars
<1>1. DbTypeOK /\ RmTypeOK
  BY TypeParts
<1>5. ASSUME NEW id \in ClientId, sendAllEnds(id) PROVE TypeOK'
  <2>1. DbTypeOK'
    BY <1>1, <1>5, DbUnchangedType DEF sendAllEnds
  <2> QED BY <1>1, <1>5, <2>1, TypeParts DEF sendAllEnds
<1>6. ASSUME NEW id \in ClientId, sendAllRunsOut(id) PROVE TypeOK'
  BY <1>1, <1>6, CrashType DEF sendAllRunsOut, Fault
<1>7. ASSUME NEW id \in ClientId, sendAllSendFails(id) PROVE TypeOK'
  <2>1. DbTypeOK' /\ drops' \in 0 .. MaxDrops
    BY <1>1, <1>7, DbUnchangedType, DropType DEF sendAllSendFails
  <2> QED BY <1>1, <1>7, <2>1, TypeParts DEF sendAllSendFails
<1> QED BY <1>5, <1>6, <1>7 DEF SendAllJobs

LEMMA handleClientType ==
    ASSUME TypeOK, NEW msg \in ClientMsg, handleClient(msg) PROVE TypeOK'
<1> USE DEF RmTypeOK, JobUnchanged, jobVars
<1>1. DbTypeOK /\ RmTypeOK
  BY TypeParts
<1>2. DbTypeOK'
  BY <1>1, DbUnchangedType DEF handleClient
<1>3. [msgId |-> "rm_clntMsg_m", data |-> msg] \in RmMsg
  BY DEF RmMsg
<1>4. rmQueue' \in Seq(RmMsg)
  BY <1>1, <1>3, PostType DEF handleClient
<1>5. sent' \in 0 .. MaxMsgs
  BY <1>1, ResourceManagerAssumption DEF handleClient
<1> QED BY <1>1, <1>2, <1>4, <1>5, TypeParts DEF handleClient

LEMMA InitType == Init => TypeOK
<1> SUFFICES ASSUME Init PROVE TypeOK
  OBVIOUS
<1>1. PlayListTypeOK
  BY Constants, EmptySeq DEF Init, initPlayList, PlayListTypeOK
<1>2. PlayerTypeOK
  BY DEF Init, initMplayer, PlayerTypeOK
<1>3. ClientDbTypeOK
  BY Constants DEF Init, initClientDb, ClientDbTypeOK, ClientState, SlotIndex, Slot
<1>4. RmTypeOK
  BY Constants, EmptySeq, ResourceManagerAssumption
     DEF Init, RmTypeOK, RmState, RmPc, RmMsg, PlayerMsgId, Fault
<1> QED BY <1>1, <1>2, <1>3, <1>4, TypeParts DEF DbTypeOK

LEMMA NextType == TypeOK /\ [Next]_vars => TypeOK'
<1> SUFFICES ASSUME TypeOK, [Next]_vars PROVE TypeOK'
  OBVIOUS
<1>1. CASE UNCHANGED vars
  BY <1>1 DEF vars, plVars, mpVars, cdbVars, jobVars, boundVars,
              TypeOK, PlayListTypeOK, PlayerTypeOK, ClientDbTypeOK
<1>2. CASE Next
  BY <1>2, RmStepType, handleClientType, PlayerJobType, DownloadJobType, SendAllJobsType DEF Next
<1> QED BY <1>1, <1>2

\* Every variable keeps its type whatever the workers and the network do between two
\* steps of the resource manager: the scheduling slots and the message to a client
\* (clientdb.c:362-381) name clients inside the arrays, and the unsigned counters, which
\* the code lets drift from the lists, wrap.
THEOREM TypeCorrect == Spec => []TypeOK
  BY InitType, NextType, PTL DEF Spec

-----------------------------------------------------------------------------
(* OneAnswerPerDownload: the workers may take any time over a download and  *)
(* anything may be queued before its answer, but there is always exactly    *)
(* one answer on its way while the state machine awaits one, and none       *)
(* otherwise.                                                               *)

\* The invariant is inductive once it is known that the scheduler is called in the
\* two states only from which it may start a download.
DownloadInv ==
    /\ TypeOK
    /\ OneAnswerPerDownload
    /\ rmPc = "schedule" => rmState \in {"rm_Idle", "rm_Playing"}

\* The answers in the queue.
Answers == QueuedMsgs(DownloadMsgId)

NoAnswer == Answers = {}
OneAnswer == \E k \in DOMAIN rmQueue : Answers = {k}

-----------------------------------------------------------------------------
(* What happens to the answers when messages come and go.                   *)

LEMMA AnswersUnchanged ==
    ASSUME UNCHANGED rmQueue
    PROVE  (NoAnswer => NoAnswer') /\ (OneAnswer => OneAnswer')
  BY DEF NoAnswer, OneAnswer, Answers, QueuedMsgs

LEMMA PostOther ==
    ASSUME TypeOK, NEW msg \in RmMsg, Post(msg), msg.msgId \notin DownloadMsgId
    PROVE  (NoAnswer => NoAnswer') /\ (OneAnswer => OneAnswer')
<1>1. /\ Len(rmQueue) \in Nat
      /\ DOMAIN rmQueue = 1 .. Len(rmQueue)
      /\ DOMAIN rmQueue' = 1 .. Len(rmQueue) + 1
      /\ \A k \in DOMAIN rmQueue : rmQueue'[k] = rmQueue[k]
      /\ rmQueue'[Len(rmQueue) + 1] = msg
  BY AppendProperties, LenProperties DEF TypeOK, Post
<1>2. Answers' = Answers
  BY <1>1 DEF Answers, QueuedMsgs
<1> QED BY <1>1, <1>2 DEF NoAnswer, OneAnswer

LEMMA PostAnswer ==
    ASSUME TypeOK, NEW msg \in RmMsg, Post(msg), msg.msgId \in DownloadMsgId, NoAnswer
    PROVE  OneAnswer'
<1>1. /\ Len(rmQueue) \in Nat
      /\ DOMAIN rmQueue = 1 .. Len(rmQueue)
      /\ DOMAIN rmQueue' = 1 .. Len(rmQueue) + 1
      /\ \A k \in DOMAIN rmQueue : rmQueue'[k] = rmQueue[k]
      /\ rmQueue'[Len(rmQueue) + 1] = msg
  BY AppendProperties, LenProperties DEF TypeOK, Post
<1>2. Answers' = {Len(rmQueue) + 1}
  BY <1>1 DEF NoAnswer, Answers, QueuedMsgs
<1> QED BY <1>1, <1>2 DEF OneAnswer

LEMMA TakeAnswers ==
    ASSUME TypeOK, TakeMessage
    PROVE  /\ NoAnswer => NoAnswer' /\ rmMsg'.msgId \notin DownloadMsgId
           /\ OneAnswer =>
                 IF rmMsg'.msgId \in DownloadMsgId THEN NoAnswer' ELSE OneAnswer'
<1>1. /\ rmQueue \in Seq(RmMsg) /\ rmQueue # <<>>
      /\ rmMsg' = Head(rmQueue) /\ rmQueue' = Tail(rmQueue)
  BY DEF TakeMessage, TypeOK
<1>2. /\ Len(rmQueue) \in Nat
      /\ Len(rmQueue) >= 1
      /\ DOMAIN rmQueue = 1 .. Len(rmQueue)
      /\ rmMsg' = rmQueue[1]
      /\ DOMAIN rmQueue' = 1 .. Len(rmQueue) - 1
      /\ \A k \in DOMAIN rmQueue' : rmQueue'[k] = rmQueue[k + 1]
  BY <1>1, HeadTailProperties, LenProperties, EmptySeq
<1>3. ASSUME NoAnswer PROVE NoAnswer' /\ rmMsg'.msgId \notin DownloadMsgId
  BY <1>2, <1>3 DEF NoAnswer, Answers, QueuedMsgs
<1>4. ASSUME OneAnswer
      PROVE  IF rmMsg'.msgId \in DownloadMsgId THEN NoAnswer' ELSE OneAnswer'
  <2>1. PICK k \in DOMAIN rmQueue : Answers = {k}
    BY <1>4 DEF OneAnswer
  <2>2. \A m \in DOMAIN rmQueue : rmQueue[m].msgId \in DownloadMsgId <=> m = k
    BY <2>1 DEF Answers, QueuedMsgs
  <2>3. CASE k = 1
    <3>1. rmMsg'.msgId \in DownloadMsgId
      BY <1>2, <2>2, <2>3
    <3>2. \A m \in DOMAIN rmQueue' : rmQueue'[m].msgId \notin DownloadMsgId
      BY <1>2, <2>2, <2>3
    <3> QED BY <3>1, <3>2 DEF NoAnswer, Answers, QueuedMsgs
  <2>4. CASE k # 1
    <3>1. rmMsg'.msgId \notin DownloadMsgId
      BY <1>2, <2>2, <2>4
    <3>2. k - 1 \in DOMAIN rmQueue'
      BY <1>2, <2>4
    <3>3. \A m \in DOMAIN rmQueue' : rmQueue'[m].msgId \in DownloadMsgId <=> m = k - 1
      BY <1>2, <2>2, <2>4
    <3>4. Answers' = {k - 1}
      BY <3>2, <3>3 DEF Answers, QueuedMsgs
    <3> QED BY <3>1, <3>2, <3>4 DEF OneAnswer
  <2> QED BY <2>3, <2>4
<1> QED BY <1>3, <1>4

-----------------------------------------------------------------------------
(* The invariant, with the answers named.                                   *)

Phase ==
    \/ /\ AwaitingDownload
       /\ \/ (\E r \in Request : download = {r}) /\ NoAnswer /\ ~InHand(DownloadMsgId)
          \/ download = {} /\ OneAnswer /\ ~InHand(DownloadMsgId)
          \/ download = {} /\ NoAnswer /\ InHand(DownloadMsgId)
    \/ ~AwaitingDownload /\ download = {} /\ NoAnswer /\ ~InHand(DownloadMsgId)

Schedules == rmPc = "schedule" => rmState \in {"rm_Idle", "rm_Playing"}

LEMMA InvParts ==
    /\ DownloadInv <=> TypeOK /\ Phase /\ Schedules
    /\ DownloadInv' <=> TypeOK' /\ Phase' /\ Schedules'
  BY DEF DownloadInv, OneAnswerPerDownload, Phase, Schedules, NoAnswer, OneAnswer, Answers

\* While one message is dealt with nothing changes.
LEMMA WithinMessage ==
    ASSUME Phase, UNCHANGED <<rmState, rmMsg, rmQueue, download>>,
           rmPc \in {"serve", "notify", "run"}, rmPc' \in {"serve", "notify", "run"}
    PROVE  Phase' /\ Schedules'
  BY AnswersUnchanged DEF Phase, Schedules, InHand, AwaitingDownload

\* Nor when the resource manager is done with a message that is not an answer.
LEMMA OutsideAnswers ==
    ASSUME Phase, UNCHANGED <<rmQueue, download>>, AwaitingDownload' <=> AwaitingDownload,
           ~InHand(DownloadMsgId), ~InHand(DownloadMsgId)'
    PROVE  Phase'
  BY AnswersUnchanged DEF Phase

\* A job that neither is a download nor posts an answer.
LEMMA OtherJob ==
    ASSUME Phase, Schedules, JobUnchanged, UNCHANGED download,
           (NoAnswer => NoAnswer') /\ (OneAnswer => OneAnswer')
    PROVE  Phase' /\ Schedules'
  BY DEF Phase, Schedules, JobUnchanged, InHand, AwaitingDownload

LEMMA CrashPhase ==
    ASSUME Phase, Schedules, NEW f, Crash(f) PROVE Phase' /\ Schedules'
<1>1. UNCHANGED <<rmState, rmPc, rmMsg, rmQueue, download>>
  BY DEF Crash, jobVars
<1> QED BY <1>1, AnswersUnchanged DEF Phase, Schedules, InHand, AwaitingDownload

-----------------------------------------------------------------------------
(* The steps of the resource manager.                                       *)

LEMMA TakeMessagePhase ==
    ASSUME DownloadInv, TakeMessage PROVE Phase' /\ Schedules'
<1>1. Phase /\ ~InHand(DownloadMsgId) /\ TypeOK
  BY InvParts DEF TakeMessage, At, InHand
<1>2. /\ UNCHANGED <<rmState, download>>
      /\ rmPc' = "serve"
  BY DEF TakeMessage, jobVars
<1>3. InHand(DownloadMsgId)' <=> rmMsg'.msgId \in DownloadMsgId
  BY <1>2 DEF InHand
<1>4. AwaitingDownload' <=> AwaitingDownload
  BY <1>2 DEF AwaitingDownload
<1>5. Phase'
  <2>1. CASE NoAnswer
    BY <1>1, <1>2, <1>3, <1>4, <2>1, TakeAnswers DEF Phase
  <2>2. CASE OneAnswer /\ ~NoAnswer
    BY <1>1, <1>2, <1>3, <1>4, <2>2, TakeAnswers DEF Phase
  <2> QED BY <1>1, <2>1, <2>2 DEF Phase
<1> QED BY <1>2, <1>5 DEF Schedules

LEMMA ServePhase ==
    ASSUME DownloadInv,
           \/ ServRegisterAgain \/ ServRegister \/ ServAdd \/ ServDeregister \/ ServDelete
           \/ ServRefused \/ ServMplayerResponse
           \/ handleDownloadComplete \/ handleDownloadError
           \/ NotifyEnds \/ NotifyConnectFails
    PROVE  Phase' /\ Schedules'
<1>1. Phase
  BY InvParts
<1>2. UNCHANGED <<rmState, rmMsg, rmQueue, download>>
  BY DEF ServRegisterAgain, ServRegister, ServAdd, ServDeregister, ServDelete, ServRefused,
         ServMplayerResponse, handleDownloadComplete, handleDownloadError,
         NotifyEnds, NotifyConnectFails, RmUnchanged, jobVars
<1>3. rmPc \in {"serve", "notify"}
  BY DEF ServRegisterAgain, ServRegister, ServAdd, ServDeregister, ServDelete, ServRefused,
         ServMplayerResponse, handleDownloadComplete, handleDownloadError,
         NotifyEnds, NotifyConnectFails, ServingClient, Serving, At
<1>4. rmPc' \in {"serve", "notify", "run"}
  BY <1>3 DEF ServRegisterAgain, ServRegister, ServAdd, ServDeregister, ServDelete, ServRefused,
         ServMplayerResponse, handleDownloadComplete, handleDownloadError,
         NotifyEnds, NotifyConnectFails
<1> QED BY <1>1, <1>2, <1>3, <1>4, WithinMessage

\* A message of the player that ends here is not an answer.
LEMMA JukeBoxPhase ==
    ASSUME DownloadInv, StartJukeBox \/ ServJukeBoxDone \/ ServJukeBoxStop
    PROVE  Phase' /\ Schedules'
<1>1. Phase
  BY InvParts
<1>2. UNCHANGED <<rmState, rmMsg, rmQueue, download>> /\ rmPc' = "drain"
  BY DEF StartJukeBox, ServJukeBoxDone, ServJukeBoxStop, RmUnchanged, jobVars
<1>3. ~InHand(DownloadMsgId) /\ ~InHand(DownloadMsgId)'
  BY <1>2 DEF StartJukeBox, ServJukeBoxDone, ServJukeBoxStop, Serving, At, InHand,
            DownloadMsgId
<1> QED BY <1>1, <1>2, <1>3, OutsideAnswers DEF Schedules, AwaitingDownload

\* The table of the state machine: an answer in hand is always expected and ends the
\* wait, and no other message begins or ends one.
LEMMA RunPhase ==
    ASSUME DownloadInv,
           \/ RunNothing \/ RunCallSchedular \/ moveToIdle \/ moveToDownloading
           \/ moveToPlaying \/ moveToPlayingNotReady
           \/ moveToPlayingDownloaded \/ moveToPlayingScheduleNext
    PROVE  Phase' /\ Schedules'
<1> USE DEF Running, At, rmRunState, MoveTo, AwaitingDownload, DownloadMsgId, PlayerMsgId
<1>1. /\ Phase
      /\ rmState \in RmState
      /\ rmPc = "run"
      /\ UNCHANGED <<rmMsg, rmQueue, download>>
      /\ rmPc' \in {"drain", "schedule"}
  BY InvParts DEF TypeOK, RunNothing, RunCallSchedular, moveToIdle, moveToDownloading,
         moveToPlaying, moveToPlayingNotReady, moveToPlayingDownloaded,
         moveToPlayingScheduleNext, RmUnchanged
<1>2. ~InHand(DownloadMsgId)' /\ (InHand(DownloadMsgId) <=> rmMsg.msgId \in DownloadMsgId)
  BY <1>1 DEF InHand
<1>3. ASSUME rmMsg.msgId \in DownloadMsgId PROVE Phase'
  <2>1. AwaitingDownload /\ download = {} /\ NoAnswer
    BY <1>1, <1>2, <1>3 DEF Phase
  <2>2. ~AwaitingDownload'
    BY <1>1, <1>3, <2>1 DEF RunNothing, RunCallSchedular, moveToIdle, moveToDownloading,
         moveToPlaying, moveToPlayingNotReady, moveToPlayingDownloaded,
         moveToPlayingScheduleNext
  <2> QED BY <1>1, <1>2, <2>1, <2>2, AnswersUnchanged DEF Phase
<1>4. ASSUME rmMsg.msgId \notin DownloadMsgId PROVE Phase'
  <2>1. AwaitingDownload' <=> AwaitingDownload
    BY <1>1, <1>4 DEF RunNothing, RunCallSchedular, moveToIdle, moveToDownloading,
         moveToPlaying, moveToPlayingNotReady, moveToPlayingDownloaded,
         moveToPlayingScheduleNext
  <2> QED BY <1>1, <1>2, <1>4, <2>1, OutsideAnswers
<1>5. Schedules'
  BY <1>1 DEF Schedules, RunNothing, RunCallSchedular, moveToIdle, moveToDownloading,
         moveToPlaying, moveToPlayingNotReady, moveToPlayingDownloaded,
         moveToPlayingScheduleNext
<1> QED BY <1>3, <1>4, <1>5

\* A download begins: the scheduler is called when none is awaited.
LEMMA callSchedularPhase ==
    ASSUME DownloadInv, callSchedular \/ callSchedularNoClient
    PROVE  Phase' /\ Schedules'
<1>1. Phase /\ ~InHand(DownloadMsgId) /\ ~AwaitingDownload /\ Schedules
  BY InvParts DEF callSchedular, callSchedularNoClient, At, InHand, Schedules, AwaitingDownload
<1>2. download = {} /\ NoAnswer
  BY <1>1 DEF Phase
<1>3. UNCHANGED rmQueue /\ rmPc' = "drain" /\ ~InHand(DownloadMsgId)'
  BY DEF callSchedular, callSchedularNoClient, MoveTo, RmUnchanged, InHand
<1>4. NoAnswer'
  BY <1>2, <1>3, AnswersUnchanged
<1>5. CASE callSchedular
  <2>1. \E r \in Request : download' = {r}
    BY <1>2, <1>5 DEF callSchedular
  <2>2. AwaitingDownload'
    BY <1>1, <1>5 DEF callSchedular, At, Schedules, AwaitingDownload
  <2> QED BY <1>3, <1>4, <2>1, <2>2 DEF Phase, Schedules
<1>6. CASE callSchedularNoClient
  <2>1. download' = {} /\ ~AwaitingDownload'
    BY <1>1, <1>2, <1>6 DEF callSchedularNoClient, MoveTo, RmUnchanged, AwaitingDownload
  <2> QED BY <1>3, <1>4, <2>1 DEF Phase, Schedules
<1> QED BY <1>5, <1>6

LEMMA RmStepPhase == ASSUME DownloadInv, RmStep PROVE Phase' /\ Schedules'
<1>1. CASE ServMplayerResponseWild \/ NotifySendFails \/ callSchedularWild
  BY <1>1, InvParts, CrashPhase DEF ServMplayerResponseWild, NotifySendFails, callSchedularWild
<1> QED BY <1>1, TakeMessagePhase, ServePhase, JukeBoxPhase, RunPhase, callSchedularPhase
        DEF RmStep

-----------------------------------------------------------------------------
(* The jobs.                                                                *)

LEMMA PlayerJobPhase == ASSUME DownloadInv, PlayerJob PROVE Phase' /\ Schedules'
<1>1. TypeOK /\ Phase /\ Schedules
  BY InvParts
<1>2. CASE playSongOpens
  BY <1>1, <1>2, OtherJob, AnswersUnchanged DEF playSongOpens, jobVars
<1>3. ASSUME NEW msgId \in PlayerMsgId, playSongEnds(msgId) PROVE Phase' /\ Schedules'
  <2>1. [msgId |-> msgId] \in RmMsg /\ [msgId |-> msgId].msgId \notin DownloadMsgId
    BY DEF RmMsg, PlayerMsgId, DownloadMsgId
  <2>2. (NoAnswer => NoAnswer') /\ (OneAnswer => OneAnswer')
    BY <1>1, <1>3, <2>1, PostOther DEF playSongEnds
  <2> QED BY <1>1, <1>3, <2>2, OtherJob DEF playSongEnds, jobVars
<1> QED BY <1>2, <1>3 DEF PlayerJob

LEMMA handleClientPhase ==
    ASSUME DownloadInv, NEW msg \in ClientMsg, handleClient(msg) PROVE Phase' /\ Schedules'
<1>1. TypeOK /\ Phase /\ Schedules
  BY InvParts
<1>2. /\ [msgId |-> "rm_clntMsg_m", data |-> msg] \in RmMsg
      /\ [msgId |-> "rm_clntMsg_m", data |-> msg].msgId \notin DownloadMsgId
  BY DEF RmMsg, DownloadMsgId
<1>3. (NoAnswer => NoAnswer') /\ (OneAnswer => OneAnswer')
  BY <1>1, <1>2, PostOther DEF handleClient
<1> QED BY <1>1, <1>3, OtherJob DEF handleClient, jobVars

\* A download ends: its worker posts the one answer.
LEMMA DownloadJobPhase == ASSUME DownloadInv, DownloadJob PROVE Phase' /\ Schedules'
<1>1. TypeOK /\ Phase /\ Schedules
  BY InvParts
<1>2. PICK request \in download, msgId \in DownloadMsgId :
         /\ Post([msgId |-> msgId, data |-> request])
         /\ download' = download \ {request}
         /\ JobUnchanged
  BY DEF DownloadJob, downloadEnds
<1>3. AwaitingDownload /\ download = {request} /\ NoAnswer /\ ~InHand(DownloadMsgId)
  BY <1>1 DEF Phase
<1>4. /\ [msgId |-> msgId, data |-> request] \in RmMsg
      /\ [msgId |-> msgId, data |-> request].msgId \in DownloadMsgId
  BY <1>1 DEF TypeOK, RmMsg
<1>5. OneAnswer' /\ download' = {}
  BY <1>1, <1>2, <1>3, <1>4, PostAnswer
<1> QED BY <1>1, <1>2, <1>3, <1>5
        DEF Phase, Schedules, JobUnchanged, AwaitingDownload, InHand

LEMMA SendAllJobsPhase == ASSUME DownloadInv, SendAllJobs PROVE Phase' /\ Schedules'
<1>1. TypeOK /\ Phase /\ Schedules
  BY InvParts
<1>2. CASE \E id \in ClientId : sendAllRunsOut(id)
  BY <1>1, <1>2, CrashPhase DEF sendAllRunsOut
<1>3. CASE ~\E id \in ClientId : sendAllRunsOut(id)
  <2>1. JobUnchanged /\ UNCHANGED <<download, rmQueue>>
    BY <1>3 DEF SendAllJobs, sendAllEnds,
                sendAllSendFails, jobVars
  <2> QED BY <1>1, <2>1, OtherJob, AnswersUnchanged
<1> QED BY <1>2, <1>3

-----------------------------------------------------------------------------

LEMMA InitDownload == Init => DownloadInv
<1> SUFFICES ASSUME Init PROVE DownloadInv
  OBVIOUS
<1>1. rmQueue = <<>> /\ download = {} /\ rmPc = "start" /\ rmState = "rm_Idle"
  BY DEF Init
<1>2. NoAnswer
  BY <1>1 DEF NoAnswer, Answers, QueuedMsgs
<1> QED BY <1>1, <1>2, InitType, InvParts DEF Phase, Schedules, AwaitingDownload, InHand

LEMMA NextDownload == DownloadInv /\ [Next]_vars => DownloadInv'
<1> SUFFICES ASSUME DownloadInv, [Next]_vars PROVE DownloadInv'
  OBVIOUS
<1>1. TypeOK'
  BY NextType DEF DownloadInv
<1>2. CASE UNCHANGED vars
  <2>1. UNCHANGED <<rmState, rmPc, rmMsg, rmQueue, download>>
    BY <1>2 DEF vars, jobVars
  <2> QED BY <1>1, <2>1, InvParts, AnswersUnchanged
          DEF Phase, Schedules, AwaitingDownload, InHand
<1>3. CASE Next
  BY <1>1, <1>3, InvParts, RmStepPhase, handleClientPhase, PlayerJobPhase, DownloadJobPhase,
     SendAllJobsPhase DEF Next
<1> QED BY <1>2, <1>3

\* One download at a time: each download the scheduler starts (resourceManager.c:425-437)
\* has exactly one request, answer or answer in hand until the state machine leaves the
\* state that awaits it, and there is no other, for any number of clients and messages.
THEOREM DownloadsAnsweredOnce == Spec => []OneAnswerPerDownload
<1>1. DownloadInv => OneAnswerPerDownload
  BY DEF DownloadInv
<1> QED BY <1>1, InitDownload, NextDownload, PTL DEF Spec
=============================================================================
