------------------------------ MODULE ClientDb ------------------------------
(***************************************************************************)
(* The client database of clientdb.c: who is registered in which slot, and *)
(* the two scheduling slots schData that carry a song from its download to *)
(* the end of its playing.                                                 *)
(*                                                                         *)
(* The resource manager calls these operations; each is one step here,     *)
(* with the one playlist operation it makes.  That is faithful while no    *)
(* other thread changes the database: no worker fails to connect to a      *)
(* client, which it would deregister with no lock around it.  The modules  *)
(* ClientTable and Dropping have the operations cut into their steps.      *)
(***************************************************************************)
EXTENDS PlayList, MusicPlayer

CONSTANTS
    Host,    \* IP addresses of clients
    NoIP,    \* address 0
    NoToken  \* the token of a scheduling slot that was never used

ASSUME ClientDbAssumption == NoIP \notin Host /\ NoToken \notin Token

VARIABLES
    clientState,
    clientIP,
    schData,        \* the two scheduling slots
    scheduleIndex   \* the slot the next download goes to

cdbVars == <<clientState, clientIP, schData, scheduleIndex>>

ClientState == {"clnt_unregister_state", "clnt_registered_state", "clnt_active_state"}

SlotIndex == 0 .. 1

Slot == [clientId : ClientId,
         reqToken : Token \cup {NoToken},
         status : {"PL_NONE", "PL_DOWNLOADING", "PL_READY", "PL_PLAYING"}]

\* MP3_FILE_REQ
Request == [clntId : ClientId, requestId : Token, ipaddress : Host \cup {NoIP}]

ClientDbTypeOK ==
    /\ clientState \in [ClientId -> ClientState]
    /\ clientIP \in [ClientId -> Host \cup {NoIP}]
    /\ schData \in [SlotIndex -> Slot]
    /\ scheduleIndex \in SlotIndex

\* schData[1] is not initialised; the object is the first allocation of the
\* process and reads as zero: PL_NONE, client 0, and token 0.
initClientDb ==
    /\ clientState = [id \in ClientId |-> "clnt_unregister_state"]
    /\ clientIP = [id \in ClientId |-> NoIP]
    /\ schData = [i \in SlotIndex |->
                     [clientId |-> 0, reqToken |-> NoToken, status |-> "PL_NONE"]]
    /\ scheduleIndex = 0

Registered(id) == clientState[id] # "clnt_unregister_state"

\* Slot i is the first that has the status: the loops over schData.
FirstSlot(i, status) ==
    schData[i].status = status /\ \A k \in SlotIndex : k < i => schData[k].status # status

NoSlot(status) == \A i \in SlotIndex : schData[i].status # status

SlotOf(i, id, tok) == schData[i].clientId = id /\ schData[i].reqToken = tok

----------------------------------------------------------------------------
(* Registration.                                                            *)

\* The status of the slot is not looked at.
checkAndDeleteAnyStatus(id) ==
    /\ schData' = [i \in SlotIndex |->
                      IF schData[i].clientId = id
                      THEN [schData[i] EXCEPT !.status = "PL_NONE"]
                      ELSE schData[i]]
    /\ UNCHANGED stop

\* A song of the client that is ready is dropped, one that plays is stopped.
checkAndDeleteCurrentList(id) ==
    /\ schData' = [i \in SlotIndex |->
                      IF schData[i].clientId = id /\ schData[i].status = "PL_READY"
                      THEN [schData[i] EXCEPT !.status = "PL_NONE"]
                      ELSE schData[i]]
    /\ stop' = (\/ stop
                \/ \E i \in SlotIndex :
                       schData[i].clientId = id /\ schData[i].status = "PL_PLAYING")

deregisterClient(id) ==
    \/ /\ Registered(id)
       /\ checkAndDeleteCurrentList(id)
       /\ deleteFromPlayList(id)
       /\ clientIP' = [clientIP EXCEPT ![id] = NoIP]
       /\ clientState' = [clientState EXCEPT ![id] = "clnt_unregister_state"]
       /\ UNCHANGED <<scheduleIndex, playJobs, players, isActive>>
    \/ /\ ~Registered(id)
       /\ UNCHANGED <<cdbVars, plVars, mpVars>>

\* The old session of an address that connects again ends first.
endOldSession(host) ==
    \E id \in ClientId :
        /\ clientIP[id] = host
        /\ \A k \in 0 .. id - 1 : clientIP[k] # host
        /\ deregisterClient(id)

\* Nobody looks for an old session of the address.
takeSlotAgain(id, host) ==
    /\ ~Registered(id)
    /\ \A k \in 0 .. id - 1 : Registered(k)
    /\ clientIP' = [clientIP EXCEPT ![id] = host]
    /\ clientState' = [clientState EXCEPT ![id] = "clnt_registered_state"]
    /\ UNCHANGED <<schData, scheduleIndex, plVars, mpVars>>

\* Then the first free slot is the client's.
takeSlot(id, host) ==
    /\ \A k \in ClientId : clientIP[k] # host
    /\ ~Registered(id)
    /\ \A k \in 0 .. id - 1 : Registered(k)
    /\ clientIP' = [clientIP EXCEPT ![id] = host]
    /\ clientState' = [clientState EXCEPT ![id] = "clnt_registered_state"]
    /\ UNCHANGED <<schData, scheduleIndex, plVars, mpVars>>

----------------------------------------------------------------------------
(* From the playlist through the two slots.                                 *)

\* The next slot is not taken modulo two.
getRequestForDownloadingNoWrap(request) ==
    /\ schData[scheduleIndex].status = "PL_NONE"
    /\ \E k \in 1 .. 2 :
          /\ getOneForDownloading(request.clntId, k)
          /\ request.requestId = pList[request.clntId][k].token
    /\ request.ipaddress = clientIP[request.clntId]
    /\ schData' = [schData EXCEPT ![scheduleIndex] =
                      [clientId |-> request.clntId,
                       reqToken |-> request.requestId,
                       status |-> "PL_DOWNLOADING"]]
    /\ scheduleIndex' = scheduleIndex + 1
    /\ UNCHANGED <<clientState, clientIP, mpVars>>

\* getClientRequestForDownloading gives G_OK and fills request.
getRequestForDownloading(request) ==
    /\ schData[scheduleIndex].status = "PL_NONE"
    /\ \E k \in 1 .. 2 :
          /\ getOneForDownloading(request.clntId, k)
          /\ request.requestId = pList[request.clntId][k].token
    /\ request.ipaddress = clientIP[request.clntId]
    /\ schData' = [schData EXCEPT ![scheduleIndex] =
                      [clientId |-> request.clntId,
                       reqToken |-> request.requestId,
                       status |-> "PL_DOWNLOADING"]]
    /\ scheduleIndex' = (scheduleIndex + 1) % 2
    /\ UNCHANGED <<clientState, clientIP, mpVars>>

\* It does not: the slot is taken, or the scheduler finds no song (reading outside the
\* array may come to the same).
noRequestForDownloading ==
    \/ schData[scheduleIndex].status # "PL_NONE"
    \/ NothingScheduled

\* The slot whose download this is.
DownloadSlot(i, request) ==
    /\ SlotOf(i, request.clntId, request.requestId)
    /\ schData[i].status = "PL_DOWNLOADING"
    /\ \A k \in SlotIndex :
          k < i => ~(/\ SlotOf(k, request.clntId, request.requestId)
                     /\ schData[k].status = "PL_DOWNLOADING")

downloadReady(i, id) ==
    /\ schData' = [schData EXCEPT ![i].status = "PL_READY"]
    /\ setPlayListStatus(id, "PL_READY")
    /\ UNCHANGED <<clientState, clientIP, scheduleIndex, mpVars>>

downloadFailed(i) ==
    /\ schData' = [schData EXCEPT ![i].status = "PL_NONE"]
    /\ deleteDownloading
    /\ UNCHANGED <<clientState, clientIP, scheduleIndex, mpVars>>

\* getClientRequestForPlaying and the job moveToPlaying makes of it.
getRequestForPlaying(i) ==
    LET id == schData[i].clientId
    IN  /\ FirstSlot(i, "PL_READY")
        /\ schData' = [schData EXCEPT ![i].status = "PL_PLAYING"]
        /\ setPlayListStatus(id, "PL_PLAYING")
        /\ clientState' =
              IF Registered(id)
              THEN [clientState EXCEPT ![id] = "clnt_active_state"]
              ELSE clientState
        /\ queueSong
        /\ UNCHANGED <<clientIP, scheduleIndex>>

\* The client stays active.
setPlayingStatusStaysActive(i) ==
    /\ FirstSlot(i, "PL_PLAYING")
    /\ schData' = [schData EXCEPT ![i].status = "PL_NONE"]
    /\ deletePlaying \/ deletePlayingWild
    /\ UNCHANGED <<clientState, clientIP, scheduleIndex, mpVars>>

\* setPlayingStatus, up to the message to the client it ends with.
setPlayingStatus(i) ==
    LET id == schData[i].clientId
    IN  /\ FirstSlot(i, "PL_PLAYING")
        /\ schData' = [schData EXCEPT ![i].status = "PL_NONE"]
        /\ deletePlaying \/ deletePlayingWild
        /\ clientState' =
              IF clientState[id] = "clnt_active_state"
              THEN [clientState EXCEPT ![id] = "clnt_registered_state"]
              ELSE clientState
        /\ UNCHANGED <<clientIP, scheduleIndex, mpVars>>

----------------------------------------------------------------------------
(* Requests on a client's queue.                                            *)

\* addToQueue gives G_OK.
addToQueue(id, tok) ==
    /\ Registered(id)
    /\ addToPlayList(id, tok)
    /\ UNCHANGED <<clientState, clientIP, schData, scheduleIndex, mpVars>>

addRefused(id) == ~Registered(id) \/ PlayListFull

\* The first slot that holds the song decides, whatever the slot's status is.
DeletedSlot(i, id, tok) ==
    SlotOf(i, id, tok) /\ \A k \in SlotIndex : k < i => ~SlotOf(k, id, tok)

NotInSlots(id, tok) == \A i \in SlotIndex : ~SlotOf(i, id, tok)

\* A song that is being downloaded is deleted like one that is ready.
deleteFromQueueWhileDownloading(id, tok) ==
    /\ Registered(id)
    /\ \/ \E i \in SlotIndex :
             /\ DeletedSlot(i, id, tok)
             /\ schData' = [schData EXCEPT ![i].status = "PL_NONE"]
       \/ NotInSlots(id, tok) /\ UNCHANGED schData
    /\ deleteFromClientHavingToken(id, tok)
    /\ UNCHANGED <<clientState, clientIP, scheduleIndex, mpVars>>

\* deleteFromQueue gives G_OK.
deleteFromQueue(id, tok) ==
    /\ Registered(id)
    /\ \/ \E i \in SlotIndex :
             /\ DeletedSlot(i, id, tok)
             /\ \/ /\ schData[i].status = "PL_PLAYING"
                   /\ stop' = TRUE
                   /\ UNCHANGED <<schData, plVars>>
                \/ /\ schData[i].status = "PL_READY"
                   /\ schData' = [schData EXCEPT ![i].status = "PL_NONE"]
                   /\ deleteFromClientHavingToken(id, tok)
                   /\ UNCHANGED stop
       \/ /\ NotInSlots(id, tok)
          /\ deleteFromClientHavingToken(id, tok)
          /\ UNCHANGED <<schData, stop>>
    /\ UNCHANGED <<clientState, clientIP, scheduleIndex, playJobs, players, isActive>>

deleteRefused(id, tok) ==
    \/ ~Registered(id)
    \/ \E i \in SlotIndex :
          DeletedSlot(i, id, tok) /\ schData[i].status \in {"PL_NONE", "PL_DOWNLOADING"}
=============================================================================
