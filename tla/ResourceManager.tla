--------------------------- MODULE ResourceManager --------------------------
(***************************************************************************)
(* The server around its resource manager (resourceManager.c): one thread  *)
(* takes messages from rmQueue, serves each on the client database and     *)
(* then runs the state machine rmRunState on it.  The workers of the       *)
(* thread pool post client messages, download files, play songs and send   *)
(* the first update to a new client, all while the resource manager is     *)
(* between two of its own steps.                                           *)
(*                                                                         *)
(* Scope: no job of the pool drops a client, that is, every connection a   *)
(* download or an update job makes succeeds.  Then only the resource       *)
(* manager changes the client database, and each operation on it is one    *)
(* step.  It may still fail itself to connect to a client, and drop it.    *)
(* Clients dropped by the workers are the module Dropping, where the       *)
(* operations are cut into their steps, and ClientTable.                   *)
(*                                                                         *)
(* A message takes the resource manager through                            *)
(*    drain -> serve -> (notify) -> run -> (schedule) -> drain             *)
(* with at most one playlist operation in a step.                          *)
(***************************************************************************)
EXTENDS ClientDb

CONSTANTS
    StopClearsActive,  \* resourceManager.c:166 assigns isActive; it compares it
    ClientMsgId,       \* bound: the kinds of message clients send
    MaxMsgs,           \* bound: messages clients send
    MaxWaiting,        \* bound: client messages in rmQueue at a time
    MaxDrops           \* bound: connections and sends to clients that fail

\* "rm->JBPlayer->isActive == 0;" has no effect, so the code is FALSE; TRUE is
\* the assignment it stands for, with which the rest of the machine is reached.
ASSUME ResourceManagerAssumption ==
    /\ StopClearsActive \in BOOLEAN
    /\ ClientMsgId \subseteq {"register_m", "add_m", "delete_m", "deregister_m", "unknown_m"}
    /\ MaxMsgs \in Nat
    /\ MaxWaiting \in Nat
    /\ MaxDrops \in Nat

VARIABLES
    rmState,
    rmQueue,
    rmPc,       \* where runResourceManager is with the current message
    rmMsg,      \* the current message, or the last one
    notifyId,   \* the client sendDeleteOneToClient is about to connect to
    download,   \* requests of getMP3FileFromClient jobs that are not finished
    sendAll,    \* clients a sendAllUpdateToClient job is not finished for
    fault,      \* undefined behaviour that ended the process, or "none"
    sent,       \* messages clients have sent
    drops       \* connections that have failed

jobVars == <<download, sendAll>>
boundVars == <<sent, drops>>

vars == <<plVars, mpVars, cdbVars, rmState, rmQueue, rmPc, rmMsg, notifyId,
          jobVars, fault, boundVars>>

RmState == {"rm_Idle", "rm_Downloading", "rm_Playing",
            "rm_Playing_Downloading", "rm_Playing_Downloaded"}

ClientMsg ==
    [msgId : {"register_m"}, cli_addr : Host]
    \cup [msgId : {"add_m", "delete_m"}, clntId : ClientId, token : Token]
    \cup [msgId : {"deregister_m"}, clntId : ClientId]
    \cup [msgId : {"unknown_m"}]

DownloadMsgId == {"rm_dw_complete_m", "rm_dw_err_m"}

RmMsg ==
    [msgId : {"rm_clntMsg_m"}, data : ClientMsg]
    \cup [msgId : PlayerMsgId]
    \cup [msgId : DownloadMsgId, data : Request]

RmPc == {"start", "drain", "serve", "notify", "run", "schedule"}

Fault == {"none", "wild_index", "null_deref", "double_free"}

TypeOK ==
    /\ PlayListTypeOK
    /\ PlayerTypeOK
    /\ ClientDbTypeOK
    /\ rmState \in RmState
    /\ rmQueue \in Seq(RmMsg)
    /\ rmPc \in RmPc
    /\ rmMsg \in RmMsg
    /\ notifyId \in ClientId
    /\ download \in SUBSET Request
    /\ sendAll \in SUBSET ClientId
    /\ fault \in Fault
    /\ sent \in 0 .. MaxMsgs
    /\ drops \in 0 .. MaxDrops

Init ==
    /\ initPlayList
    /\ initMplayer
    /\ initClientDb
    /\ rmState = "rm_Idle"
    /\ rmQueue = <<>>
    /\ rmPc = "start"
    /\ rmMsg = [msgId |-> "rm_mplayerDone_m"]
    /\ notifyId = 0
    /\ download = {}
    /\ sendAll = {}
    /\ fault = "none"
    /\ sent = 0
    /\ drops = 0

Post(msg) == rmQueue' = Append(rmQueue, msg)

\* A connection or a send to a client fails.
Drop == drops < MaxDrops /\ drops' = drops + 1

\* Nothing follows a fault.
Alive == fault = "none"

\* Where the resource manager is.
At(pc) == Alive /\ rmPc = pc

Crash(f) ==
    /\ fault' = f
    /\ UNCHANGED <<plVars, mpVars, cdbVars, rmState, rmQueue, rmPc, rmMsg, notifyId,
                   jobVars, sent>>

----------------------------------------------------------------------------
(* runResourceManager: start the jukebox, then message after message.       *)

StartJukeBox ==
    /\ At("start")
    /\ rmPc' = "drain"
    /\ scheduleNextRandomSong
    /\ UNCHANGED <<plVars, cdbVars, rmState, rmQueue, rmMsg, notifyId, jobVars, fault, boundVars>>

\* A client message that is not a registration stops the jukebox first.
TakeMessage ==
    /\ At("drain")
    /\ rmQueue # <<>>
    /\ rmMsg' = Head(rmQueue)
    /\ rmQueue' = Tail(rmQueue)
    /\ rmPc' = "serve"
    /\ stop' = (\/ stop
                \/ /\ Head(rmQueue).msgId = "rm_clntMsg_m"
                   /\ Head(rmQueue).data.msgId # "register_m"
                   /\ isActive)
    /\ UNCHANGED <<plVars, playJobs, players, isActive, cdbVars, rmState, notifyId,
                   jobVars, fault, boundVars>>

Serving(msgIds) == At("serve") /\ rmMsg.msgId \in msgIds

ServingClient(msgId) == Serving({"rm_clntMsg_m"}) /\ rmMsg.data.msgId = msgId

\* What no step of the resource manager's own touches.
RmUnchanged == UNCHANGED <<rmQueue, rmMsg, download, boundVars>>

----------------------------------------------------------------------------
(* servClientRequest                                                        *)

ServRegisterAgain ==
    /\ ServingClient("register_m")
    /\ endOldSession(rmMsg.data.cli_addr)
    /\ UNCHANGED <<rmState, rmPc, notifyId, sendAll, fault>>
    /\ RmUnchanged

ServRegister ==
    /\ ServingClient("register_m")
    /\ \E id \in ClientId :
          /\ takeSlot(id, rmMsg.data.cli_addr)
          /\ sendAll' = sendAll \cup {id}
    /\ rmPc' = "run"
    /\ UNCHANGED <<rmState, notifyId, fault>>
    /\ RmUnchanged

ServAdd ==
    /\ ServingClient("add_m")
    /\ addToQueue(rmMsg.data.clntId, rmMsg.data.token)
    /\ rmPc' = "run"
    /\ UNCHANGED <<rmState, notifyId, sendAll, fault>>
    /\ RmUnchanged

ServDeregister ==
    /\ ServingClient("deregister_m")
    /\ deregisterClient(rmMsg.data.clntId)
    /\ rmPc' = "run"
    /\ UNCHANGED <<rmState, notifyId, sendAll, fault>>
    /\ RmUnchanged

ServDelete ==
    /\ ServingClient("delete_m")
    /\ deleteFromQueue(rmMsg.data.clntId, rmMsg.data.token)
    /\ rmPc' = "run"
    /\ UNCHANGED <<rmState, notifyId, sendAll, fault>>
    /\ RmUnchanged

\* Only a NACK is sent; the state machine runs on the message all the same.
ServRefused ==
    /\ \/ /\ ServingClient("register_m")
          /\ \A k \in ClientId : clientIP[k] # rmMsg.data.cli_addr /\ Registered(k)
       \/ /\ ServingClient("add_m")
          /\ addRefused(rmMsg.data.clntId)
       \/ /\ ServingClient("delete_m")
          /\ deleteRefused(rmMsg.data.clntId, rmMsg.data.token)
       \/ ServingClient("unknown_m")
    /\ rmPc' = "run"
    /\ UNCHANGED <<plVars, mpVars, cdbVars, rmState, notifyId, sendAll, fault>>
    /\ RmUnchanged

----------------------------------------------------------------------------
(* Messages of the player.                                                  *)

\* Without the return after it.
ServJukeBoxDoneNoReturn ==
    /\ Serving({"rm_mplayerDone_m", "rm_mplayerErr_m"})
    /\ isActive
    /\ scheduleNextRandomSong
    /\ rmPc' = "run"
    /\ UNCHANGED <<plVars, cdbVars, rmState, notifyId, sendAll, fault>>
    /\ RmUnchanged

\* While the jukebox is active the end of any song is taken for one of its own.
ServJukeBoxDone ==
    /\ Serving({"rm_mplayerDone_m", "rm_mplayerErr_m"})
    /\ isActive
    /\ scheduleNextRandomSong
    /\ rmPc' = "drain"
    /\ UNCHANGED <<plVars, cdbVars, rmState, notifyId, sendAll, fault>>
    /\ RmUnchanged

ServJukeBoxStop ==
    /\ Serving({"rm_mplayerStop_m"})
    /\ isActive
    /\ isActive' = ~StopClearsActive
    /\ rmPc' = "drain"
    /\ UNCHANGED <<plVars, stop, playJobs, players, cdbVars, rmState, notifyId, sendAll, fault>>
    /\ RmUnchanged

\* servMplayerResponse: the client is told when it is still the active one.
ServMplayerResponse ==
    /\ Serving(PlayerMsgId)
    /\ ~isActive
    /\ IF NoSlot("PL_PLAYING")
       THEN /\ rmPc' = "run"
            /\ UNCHANGED <<plVars, mpVars, cdbVars, notifyId>>
       ELSE \E i \in SlotIndex :
               /\ setPlayingStatus(i)
               /\ notifyId' = schData[i].clientId
               /\ rmPc' = IF clientState[schData[i].clientId] = "clnt_active_state"
                          THEN "notify" ELSE "run"
    /\ UNCHANGED <<rmState, sendAll, fault>>
    /\ RmUnchanged

\* deletePlaying on a list outside the array ends the process.
ServMplayerResponseWild ==
    /\ Serving(PlayerMsgId)
    /\ ~isActive
    /\ ~NoSlot("PL_PLAYING")
    /\ WildPlaying
    /\ Crash("wild_index")
    /\ UNCHANGED drops

----------------------------------------------------------------------------
(* Messages of a download.                                                  *)

\* setDownloadingStatus reports "FATAL ERROR, MissMatch between downloading
\* request and response" when no slot has this download.
Mismatch(request) == \A i \in SlotIndex : ~DownloadSlot(i, request)

NothingToServe == UNCHANGED <<plVars, mpVars, cdbVars, notifyId>>

handleDownloadComplete ==
    /\ Serving({"rm_dw_complete_m"})
    /\ IF Mismatch(rmMsg.data)
       THEN NothingToServe
       ELSE /\ \E i \in SlotIndex :
                  /\ DownloadSlot(i, rmMsg.data)
                  /\ downloadReady(i, rmMsg.data.clntId)
            /\ UNCHANGED notifyId
    /\ rmPc' = "run"
    /\ UNCHANGED <<rmState, sendAll, fault>>
    /\ RmUnchanged

handleDownloadError ==
    /\ Serving({"rm_dw_err_m"})
    /\ IF Mismatch(rmMsg.data)
       THEN NothingToServe /\ rmPc' = "run"
       ELSE /\ \E i \in SlotIndex : DownloadSlot(i, rmMsg.data) /\ downloadFailed(i)
            /\ notifyId' = rmMsg.data.clntId
            /\ rmPc' = "notify"
    /\ UNCHANGED <<rmState, sendAll, fault>>
    /\ RmUnchanged

----------------------------------------------------------------------------
(* sendDeleteOneToClient, called by the resource manager itself.            *)

\* Sent.
NotifyEnds ==
    /\ At("notify")
    /\ rmPc' = "run"
    /\ UNCHANGED <<plVars, mpVars, cdbVars, rmState, notifyId, sendAll, fault>>
    /\ RmUnchanged

\* connectToClient deregisters whoever holds the slot now, if anyone does.
NotifyConnectFails ==
    /\ At("notify")
    /\ Drop
    /\ deregisterClient(notifyId)
    /\ rmPc' = "run"
    /\ UNCHANGED <<rmState, rmQueue, rmMsg, notifyId, jobVars, fault, sent>>

\* The connection breaks while sending: data is freed twice.  So it does when the slot
\* has no client any more: createClientSocket takes the refusal of address 0 for success.
NotifySendFails ==
    /\ At("notify")
    /\ Drop
    /\ Crash("double_free")

----------------------------------------------------------------------------
(* The state machine.                                                       *)

\* Tables with one wrong entry: for client messages while a download is awaited, and
\* for the end of a download while a song is played.
rmRunStateSchedulesTwice(state, msgId) ==
    CASE state \in {"rm_Idle", "rm_Playing", "rm_Downloading"} /\ msgId = "rm_clntMsg_m" -> "callSchedular"
      [] state = "rm_Downloading" /\ msgId = "rm_dw_err_m" -> "moveToIdle"
      [] state = "rm_Playing" /\ msgId \in PlayerMsgId -> "moveToIdle"
      [] state = "rm_Downloading" /\ msgId = "rm_dw_complete_m" -> "moveToPlaying"
      [] state = "rm_Playing_Downloaded" /\ msgId \in PlayerMsgId -> "moveToPlaying"
      [] state = "rm_Playing_Downloading" /\ msgId \in PlayerMsgId -> "moveToDownloading"
      [] state = "rm_Playing_Downloading" /\ msgId = "rm_dw_complete_m" -> "moveToPlayingDownloaded"
      [] state = "rm_Playing_Downloading" /\ msgId = "rm_dw_err_m" -> "moveToPlayingScheduleNext"
      [] OTHER -> "none"

rmRunStatePlaysTwice(state, msgId) ==
    CASE state \in {"rm_Idle", "rm_Playing"} /\ msgId = "rm_clntMsg_m" -> "callSchedular"
      [] state = "rm_Downloading" /\ msgId = "rm_dw_err_m" -> "moveToIdle"
      [] state = "rm_Playing" /\ msgId \in PlayerMsgId -> "moveToIdle"
      [] state = "rm_Downloading" /\ msgId = "rm_dw_complete_m" -> "moveToPlaying"
      [] state = "rm_Playing_Downloaded" /\ msgId \in PlayerMsgId -> "moveToPlaying"
      [] state = "rm_Playing_Downloading" /\ msgId \in PlayerMsgId -> "moveToDownloading"
      [] state = "rm_Playing_Downloading" /\ msgId = "rm_dw_complete_m" -> "moveToPlaying"
      [] state = "rm_Playing_Downloading" /\ msgId = "rm_dw_err_m" -> "moveToPlayingScheduleNext"
      [] OTHER -> "none"

\* The table: the handler of each state for each message.
rmRunState(state, msgId) ==
    CASE state \in {"rm_Idle", "rm_Playing"} /\ msgId = "rm_clntMsg_m" -> "callSchedular"
      [] state = "rm_Downloading" /\ msgId = "rm_dw_err_m" -> "moveToIdle"
      [] state = "rm_Playing" /\ msgId \in PlayerMsgId -> "moveToIdle"
      [] state = "rm_Downloading" /\ msgId = "rm_dw_complete_m" -> "moveToPlaying"
      [] state = "rm_Playing_Downloaded" /\ msgId \in PlayerMsgId -> "moveToPlaying"
      [] state = "rm_Playing_Downloading" /\ msgId \in PlayerMsgId -> "moveToDownloading"
      [] state = "rm_Playing_Downloading" /\ msgId = "rm_dw_complete_m" -> "moveToPlayingDownloaded"
      [] state = "rm_Playing_Downloading" /\ msgId = "rm_dw_err_m" -> "moveToPlayingScheduleNext"
      [] OTHER -> "none"  \* NULL or printRMStateError

Running(handler) == At("run") /\ rmRunState(rmState, rmMsg.msgId) = handler

\* The state the handlers enter that only set it, and where they continue.
MoveTo(state, pc) ==
    /\ rmState' = state
    /\ rmPc' = pc
    /\ UNCHANGED <<plVars, mpVars, cdbVars, notifyId, sendAll, fault>>
    /\ RmUnchanged

RunNothing == Running("none") /\ MoveTo(rmState, "drain")

RunCallSchedular == Running("callSchedular") /\ MoveTo(rmState, "schedule")

moveToIdle == Running("moveToIdle") /\ MoveTo("rm_Idle", "schedule")

moveToDownloading == Running("moveToDownloading") /\ MoveTo("rm_Downloading", "drain")

moveToPlaying ==
    /\ Running("moveToPlaying")
    /\ \E i \in SlotIndex : getRequestForPlaying(i)
    /\ rmState' = "rm_Playing"
    /\ rmPc' = "schedule"
    /\ UNCHANGED <<notifyId, sendAll, fault>>
    /\ RmUnchanged

\* The song that was ready has been dropped with its client.
moveToPlayingNotReady ==
    /\ Running("moveToPlaying")
    /\ NoSlot("PL_READY")
    /\ MoveTo("rm_Idle", "schedule")

moveToPlayingDownloaded ==
    Running("moveToPlayingDownloaded") /\ MoveTo("rm_Playing_Downloaded", "drain")

moveToPlayingScheduleNext ==
    Running("moveToPlayingScheduleNext") /\ MoveTo("rm_Playing", "schedule")

\* callSchedular with a song to download, which becomes a job of the pool.
callSchedular ==
    /\ At("schedule")
    /\ \E request \in Request :
          /\ getRequestForDownloading(request)
          /\ download' = download \cup {request}
    /\ rmState' = CASE rmState = "rm_Idle" -> "rm_Downloading"
                    [] rmState = "rm_Playing" -> "rm_Playing_Downloading"
                    [] OTHER -> rmState  \* "Invalid Event in CallSchedular"
    /\ rmPc' = "drain"
    /\ UNCHANGED <<rmQueue, rmMsg, notifyId, sendAll, fault, boundVars>>

callSchedularNoClient ==
    /\ At("schedule")
    /\ noRequestForDownloading
    /\ MoveTo(rmState, "drain")

callSchedularWild ==
    /\ At("schedule")
    /\ schData[scheduleIndex].status = "PL_NONE"
    /\ WildScheduling
    /\ Crash("wild_index")
    /\ UNCHANGED drops

RmStep ==
    \/ StartJukeBox \/ TakeMessage
    \/ ServRegisterAgain \/ ServRegister \/ ServAdd \/ ServDeregister \/ ServDelete
    \/ ServRefused
    \/ ServJukeBoxDone \/ ServJukeBoxStop \/ ServMplayerResponse \/ ServMplayerResponseWild
    \/ handleDownloadComplete \/ handleDownloadError
    \/ NotifyEnds \/ NotifyConnectFails \/ NotifySendFails
    \/ RunNothing \/ RunCallSchedular \/ moveToIdle \/ moveToDownloading
    \/ moveToPlaying \/ moveToPlayingNotReady
    \/ moveToPlayingDownloaded \/ moveToPlayingScheduleNext
    \/ callSchedular \/ callSchedularNoClient \/ callSchedularWild

----------------------------------------------------------------------------
(* The jobs of the thread pool.                                             *)

\* What no job but the one in question touches.
JobUnchanged == UNCHANGED <<rmState, rmPc, rmMsg, notifyId>>

\* handleClient posts a message of a client.
handleClient(msg) ==
    /\ Alive
    /\ msg.msgId \in ClientMsgId
    /\ sent < MaxMsgs
    /\ Cardinality({k \in DOMAIN rmQueue : rmQueue[k].msgId = "rm_clntMsg_m"}) < MaxWaiting
    /\ sent' = sent + 1
    /\ Post([msgId |-> "rm_clntMsg_m", data |-> msg])
    /\ UNCHANGED <<plVars, mpVars, cdbVars, jobVars, fault, drops>>
    /\ JobUnchanged

playSongOpens ==
    /\ Alive
    /\ SongOpens
    /\ UNCHANGED <<plVars, cdbVars, rmQueue, jobVars, fault, boundVars>>
    /\ JobUnchanged

playSongEnds(msgId) ==
    /\ Alive
    /\ SongEnds(msgId)
    /\ Post([msgId |-> msgId])
    /\ UNCHANGED <<plVars, cdbVars, jobVars, fault, boundVars>>
    /\ JobUnchanged

\* getMP3FileFromClient has the file, or failed once it was connected to the client.
downloadEnds(request, msgId) ==
    /\ Alive
    /\ request \in download
    /\ download' = download \ {request}
    /\ Post([msgId |-> msgId, data |-> request])
    /\ UNCHANGED <<plVars, mpVars, cdbVars, sendAll, fault, boundVars>>
    /\ JobUnchanged

\* sendAllUpdateToClient walks the lists of the others by their node counts.
Listed(id) == {k \in ClientId \ {id} : totalNode[k] # 0}
RunsOut(k) == totalNode[k] > Len(pList[k])
FirstListed(id, k) == k \in Listed(id) /\ \A m \in Listed(id) : k <= m

HasUpdate(id) == Registered(id) /\ playListSize > 0 /\ Listed(id) # {}

\* It sends to the client unless the first node it reads is not there.
Connects(id) ==
    HasUpdate(id) /\ \A k \in ClientId : FirstListed(id, k) => pList[k] # <<>>

SendAllJob(id) == Alive /\ id \in sendAll

sendAllEnds(id) ==
    /\ SendAllJob(id)
    /\ HasUpdate(id) => \A k \in Listed(id) : ~RunsOut(k)
    /\ sendAll' = sendAll \ {id}
    /\ UNCHANGED <<plVars, mpVars, cdbVars, rmQueue, download, fault, boundVars>>
    /\ JobUnchanged

\* The node count of a list is larger than the list: tempNode is NULL.
sendAllRunsOut(id) ==
    /\ SendAllJob(id)
    /\ HasUpdate(id)
    /\ \E k \in Listed(id) : RunsOut(k)
    /\ Crash("null_deref")
    /\ UNCHANGED drops

\* A send fails before that happens.
sendAllSendFails(id) ==
    /\ SendAllJob(id)
    /\ Connects(id)
    /\ Drop
    /\ sendAll' = sendAll \ {id}
    /\ UNCHANGED <<plVars, mpVars, cdbVars, rmQueue, download, fault, sent>>
    /\ JobUnchanged

PlayerJob == playSongOpens \/ \E msgId \in PlayerMsgId : playSongEnds(msgId)

DownloadJob ==
    \E request \in Request, msgId \in DownloadMsgId : downloadEnds(request, msgId)

SendAllJobs ==
    \E id \in ClientId : sendAllEnds(id) \/ sendAllRunsOut(id) \/ sendAllSendFails(id)

Next ==
    \/ RmStep
    \/ \E msg \in ClientMsg : handleClient(msg)
    \/ PlayerJob
    \/ DownloadJob
    \/ SendAllJobs

Spec == Init /\ [][Next]_vars

\* With the resource manager, the players and the downloads making progress: the
\* thread pool runs their jobs and no job blocks for ever.
FairSpec == Spec /\ WF_vars(RmStep) /\ WF_vars(PlayerJob) /\ WF_vars(DownloadJob)

----------------------------------------------------------------------------
(* What has to hold.                                                        *)

AwaitingDownload == rmState \in {"rm_Downloading", "rm_Playing_Downloading"}
InPlaying == rmState \in {"rm_Playing", "rm_Playing_Downloading", "rm_Playing_Downloaded"}

\* The current message is one of these, and has not been dealt with / has been served.
InHand(msgIds) == rmPc \in {"serve", "notify", "run"} /\ rmMsg.msgId \in msgIds
Served(msgIds) == rmPc \in {"notify", "run"} /\ rmMsg.msgId \in msgIds
BeingServed(msgIds) == rmPc = "serve" /\ rmMsg.msgId \in msgIds

QueuedMsgs(msgIds) == {k \in DOMAIN rmQueue : rmQueue[k].msgId \in msgIds}

\* One download at a time: while the state machine awaits one there is exactly one
\* request that a worker still handles, or exactly one answer queued, or the answer
\* is being dealt with; otherwise there is none (resourceManager.c:425-437).
OneAnswerPerDownload ==
    \/ /\ AwaitingDownload
       /\ \/ /\ \E r \in Request : download = {r}
             /\ QueuedMsgs(DownloadMsgId) = {}
             /\ ~InHand(DownloadMsgId)
          \/ /\ download = {}
             /\ \E k \in DOMAIN rmQueue : QueuedMsgs(DownloadMsgId) = {k}
             /\ ~InHand(DownloadMsgId)
          \/ /\ download = {}
             /\ QueuedMsgs(DownloadMsgId) = {}
             /\ InHand(DownloadMsgId)
    \/ /\ ~AwaitingDownload
       /\ download = {}
       /\ QueuedMsgs(DownloadMsgId) = {}
       /\ ~InHand(DownloadMsgId)

\* The requests whose answer the resource manager has not served.
Unanswered ==
    download
    \cup {rmQueue[k].data : k \in QueuedMsgs(DownloadMsgId)}
    \cup {r \in Request : BeingServed(DownloadMsgId) /\ rmMsg.data = r}

\* Every answer finds the scheduling slot of its request, whatever deletions and
\* deregistrations came in between, and no slot waits for an answer that will not
\* come: "MissMatch between downloading request and response" (clientdb.c:285-296).
DownloadsHaveSlots ==
    /\ \A r \in Unanswered : ~Mismatch(r)
    /\ \A i \in SlotIndex :
          schData[i].status = "PL_DOWNLOADING" =>
              \E r \in Unanswered : SlotOf(i, r.clntId, r.requestId)

\* One slot at most is being downloaded, one ready and one playing, and the state
\* machine knows which: it is in a playing state exactly while a slot plays, and a
\* ready slot has either just been answered or is the one of rm_Playing_Downloaded.
SlotsFollowState ==
    /\ \A i, k \in SlotIndex :
          i # k /\ schData[i].status # "PL_NONE" => schData[i].status # schData[k].status
    /\ ~NoSlot("PL_PLAYING") <=> InPlaying /\ ~Served(PlayerMsgId)
    /\ ~NoSlot("PL_READY") =>
          rmState = "rm_Playing_Downloaded" \/ Served({"rm_dw_complete_m"})

\* Songs on their way through the player, their last message included.
SongsInPlayer ==
    playJobs + players + Cardinality(QueuedMsgs(PlayerMsgId))
        + (IF InHand(PlayerMsgId) THEN 1 ELSE 0)

\* The player has one song for the jukebox while it is active and one for the state
\* machine while it is in a playing state, and never another; if the jukebox's flag
\* were cleared, never one less, so that no playing state waits for ever.
PlayerBalance ==
    LET expected == (IF isActive THEN 1 ELSE 0) + (IF InPlaying THEN 1 ELSE 0)
    IN  /\ SongsInPlayer <= expected
        /\ StopClearsActive => SongsInPlayer = expected

\* "Need to make it token based otherwise problem may happen" (playlist.h) of
\* deleteDownloading, which deletes the first song being downloaded of the client last
\* scheduled: there is one such song at most, that client's, and the slot is its own.
DeleteDownloadingFindsSong ==
    \A id \in ClientId : \A k \in DOMAIN pList[id] :
        pList[id][k].plStatus = "PL_DOWNLOADING" =>
            /\ id = currentDownloadingClient
            /\ \A m \in DOMAIN pList[id] : pList[id][m].plStatus = "PL_DOWNLOADING" => m = k
            /\ \E i \in SlotIndex :
                  /\ SlotOf(i, id, pList[id][k].token)
                  /\ schData[i].status = "PL_DOWNLOADING"

\* An active client has the slot that plays (clientdb.c:345, 371).
ActiveClientPlays ==
    \A id \in ClientId :
        clientState[id] = "clnt_active_state" =>
            \E i \in SlotIndex : schData[i].clientId = id /\ schData[i].status = "PL_PLAYING"

\* A slot without a client has no address and no songs, whether its client left, joined
\* again or was dropped by the resource manager; two clients never share an address
\* (clientdb.c:106-117, 157-161).
ClientsAreSeparate ==
    /\ \A id \in ClientId : ~Registered(id) => clientIP[id] = NoIP /\ pList[id] = <<>>
    /\ \A i, k \in ClientId : Registered(i) /\ clientIP[i] = clientIP[k] => i = k

\* No song of a list is missed by its count, by which sendAllUpdateToClient walks it
\* (clientdb.c:497-502): whoever empties or shortens the list, the count never wraps.
EverySongIsCounted ==
    \A id \in ClientId : Len(pList[id]) <= totalNode[id]

\* A slot that is being downloaded into is left alone until the answer is served: no
\* deletion, deregistration or scheduling reuses the file a worker is writing.
DownloadSlotLeftAlone ==
    [][\A i \in SlotIndex :
          schData[i].status = "PL_DOWNLOADING" /\ schData'[i] # schData[i] =>
              BeingServed(DownloadMsgId) /\ DownloadSlot(i, rmMsg.data)]_vars

\* Nobody is scheduled twice in a row while the first song of another client waits
\* (of the clients the scheduler looks at; playlist.c:189-218).
NoSecondTurn ==
    [][\A r \in download' \ download :
          r.clntId = currentDownloadingClient =>
              \A id \in ClientId \ {r.clntId, MaxClient - 1} : ~HeadWaiting(id)]_vars

----------------------------------------------------------------------------
(* What comments of the code say, and it does not do.                       *)

\* resourceManager.c:334: "Playing done remove client request from database".
PlayedSongIsRemoved ==
    \A i \in SlotIndex :
        schData[i].status = "PL_PLAYING" ~> schData[i].status # "PL_PLAYING" \/ fault # "none"

\* playlist.c:192 of the clients the scheduler looks at: "it will run from 0-9"; when
\* it finds none, no client's first song waits.
EveryClientIsTried ==
    [][callSchedularNoClient /\ schData[scheduleIndex].status = "PL_NONE" =>
          \A id \in ClientId : ~HeadWaiting(id)]_vars

\* clientdb.c:496: "skip client having not data", by its node count.
EmptyListIsSkipped ==
    \A id \in ClientId : pList[id] = <<>> => totalNode[id] = 0

\* playlist.c:65: "Playlist is full".
FullPlayListHasSongs ==
    PlayListFull => \E id \in ClientId : pList[id] # <<>>

\* clientdb.c:251: "No postion empty for scheduling", when it schedules nothing although
\* songs may wait.
NoPositionIsEmpty ==
    [][callSchedularNoClient /\ schData[scheduleIndex].status # "PL_NONE" =>
          \A i \in SlotIndex : schData[i].status # "PL_NONE"]_vars
=============================================================================
