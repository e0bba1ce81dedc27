------------------------------ MODULE SlotProofs ------------------------------
(***************************************************************************)
(* The two scheduling slots of the client database and the state machine   *)
(* of the resource manager, for every value of the constants, as long as   *)
(* only the resource manager drops clients (see ResourceManager).  Between *)
(* two steps of the machine it then changes the slots only by dropping a   *)
(* song that is ready.  What is left of this when workers drop clients is  *)
(* proved in TransferProofs, of the module Dropping.                       *)
(***************************************************************************)
EXTENDS ResourceManagerProofs

\* The two invariants need each other: an answer frees the right slot because it has
\* one, and there is none left over because no second download is awaited.
SlotInv ==
    /\ DownloadInv
    /\ SlotsFollowState
    /\ DownloadsHaveSlots

HasSlot(r) ==
    \E i \in SlotIndex :
        SlotOf(i, r.clntId, r.requestId) /\ schData[i].status = "PL_DOWNLOADING"

DifferentSlots ==
    \A i, k \in SlotIndex :
        i # k /\ schData[i].status # "PL_NONE" => schData[i].status # schData[k].status

SongPlays == InPlaying /\ ~Served(PlayerMsgId)

SongMayBeReady == rmState = "rm_Playing_Downloaded" \/ Served({"rm_dw_complete_m"})

\* SlotsFollowState and DownloadsHaveSlots with their parts named.
SlotParts ==
    /\ DifferentSlots
    /\ ~NoSlot("PL_PLAYING") <=> SongPlays
    /\ ~NoSlot("PL_READY") => SongMayBeReady
    /\ \A r \in Unanswered : HasSlot(r)
    /\ \A i \in SlotIndex :
          schData[i].status = "PL_DOWNLOADING" =>
              \E r \in Unanswered : SlotOf(i, r.clntId, r.requestId)

LEMMA FoundSlot ==
    ASSUME NEW r
    PROVE  (~Mismatch(r) <=> HasSlot(r)) /\ (~Mismatch(r)' <=> HasSlot(r)')
  BY DEF Mismatch, HasSlot, DownloadSlot, SlotOf, SlotIndex

LEMMA SlotInvParts ==
    /\ SlotInv <=> DownloadInv /\ SlotParts
    /\ SlotInv' <=> DownloadInv' /\ SlotParts'
  BY FoundSlot DEF SlotInv, SlotParts, SlotsFollowState, DownloadsHaveSlots, DifferentSlots,
                   SongPlays, SongMayBeReady

-----------------------------------------------------------------------------
(* The requests that are not answered.                                      *)

LEMMA UnansweredKept ==
    ASSUME UNCHANGED <<download, rmQueue, rmMsg>>,
           BeingServed(DownloadMsgId)' <=> BeingServed(DownloadMsgId)
    PROVE  Unanswered' = Unanswered
  BY DEF Unanswered, QueuedMsgs

LEMMA UnansweredPost ==
    ASSUME TypeOK, NEW msg \in RmMsg, Post(msg), UNCHANGED <<rmPc, rmMsg>>
    PROVE  /\ msg.msgId \notin DownloadMsgId /\ UNCHANGED download => Unanswered' = Unanswered
           /\ msg.msgId \in DownloadMsgId /\ msg.data \in download
                  /\ download' = download \ {msg.data} => Unanswered' = Unanswered
<1> DEFINE Queued == {rmQueue[k].data : k \in QueuedMsgs(DownloadMsgId)}
           Hand == {r \in Request : BeingServed(DownloadMsgId) /\ rmMsg.data = r}
<1>1. /\ Len(rmQueue) \in Nat
      /\ DOMAIN rmQueue = 1 .. Len(rmQueue)
      /\ DOMAIN rmQueue' = 1 .. Len(rmQueue) + 1
      /\ \A k \in DOMAIN rmQueue : rmQueue'[k] = rmQueue[k]
      /\ rmQueue'[Len(rmQueue) + 1] = msg
  BY AppendProperties, LenProperties DEF TypeOK, Post
<1>2. Hand' = Hand
  BY DEF BeingServed
<1>3. ASSUME msg.msgId \notin DownloadMsgId PROVE Queued' = Queued
  <2>1. QueuedMsgs(DownloadMsgId)' = QueuedMsgs(DownloadMsgId)
    BY <1>1, <1>3 DEF QueuedMsgs
  <2>2. \A k \in QueuedMsgs(DownloadMsgId) : rmQueue'[k] = rmQueue[k]
    BY <1>1 DEF QueuedMsgs
  <2> QED BY <2>1, <2>2
<1>4. ASSUME msg.msgId \in DownloadMsgId PROVE Queued' = Queued \cup {msg.data}
  <2>1. QueuedMsgs(DownloadMsgId)' = QueuedMsgs(DownloadMsgId) \cup {Len(rmQueue) + 1}
    BY <1>1, <1>4 DEF QueuedMsgs
  <2>2. \A k \in QueuedMsgs(DownloadMsgId) : rmQueue'[k] = rmQueue[k]
    BY <1>1 DEF QueuedMsgs
  <2> QED BY <1>1, <2>1, <2>2
<1>5. Unanswered = download \cup Queued \cup Hand /\ Unanswered' = download' \cup Queued' \cup Hand'
  BY DEF Unanswered
<1> HIDE DEF Queued, Hand
<1> QED BY <1>2, <1>3, <1>4, <1>5

LEMMA UnansweredTake ==
    ASSUME TypeOK, TakeMessage PROVE Unanswered' = Unanswered
<1> DEFINE Queued == {rmQueue[k].data : k \in QueuedMsgs(DownloadMsgId)}
           Hand == {r \in Request : BeingServed(DownloadMsgId) /\ rmMsg.data = r}
<1>1. /\ rmQueue \in Seq(RmMsg) /\ rmQueue # <<>>
      /\ rmMsg' = Head(rmQueue) /\ rmQueue' = Tail(rmQueue)
      /\ UNCHANGED download
      /\ rmPc = "drain" /\ rmPc' = "serve"
  BY DEF TakeMessage, At, TypeOK, jobVars
<1>2. /\ Len(rmQueue) \in Nat
      /\ Len(rmQueue) >= 1
      /\ DOMAIN rmQueue = 1 .. Len(rmQueue)
      /\ rmMsg' = rmQueue[1]
      /\ DOMAIN rmQueue' = 1 .. Len(rmQueue) - 1
      /\ \A k \in DOMAIN rmQueue' : rmQueue'[k] = rmQueue[k + 1]
  BY <1>1, HeadTailProperties, LenProperties, EmptySeq
<1>3. TypeOK' /\ (rmMsg'.msgId \in DownloadMsgId => rmMsg'.data \in Request)
  <2>1. TypeOK'
    BY TakeMessageType
  <2>2. RmTypeOK'
    BY <2>1, TypeParts
  <2>3. rmMsg' \in RmMsg
    BY <2>2 DEF RmTypeOK
  <2> QED BY <2>1, <2>3 DEF RmMsg, PlayerMsgId, DownloadMsgId
<1>4. Hand = {} /\ Hand' = IF rmMsg'.msgId \in DownloadMsgId THEN {rmMsg'.data} ELSE {}
  BY <1>1, <1>3 DEF BeingServed
<1>5. Queued = Queued' \cup Hand'
  <2>1. ASSUME NEW k \in QueuedMsgs(DownloadMsgId) PROVE rmQueue[k].data \in Queued' \cup Hand'
    <3>1. CASE k = 1
      BY <1>2, <1>4, <3>1 DEF QueuedMsgs
    <3>2. CASE k # 1
      <4>1. k - 1 \in QueuedMsgs(DownloadMsgId)' /\ rmQueue'[k - 1] = rmQueue[k]
        BY <1>2, <3>2 DEF QueuedMsgs
      <4> QED BY <4>1
    <3> QED BY <3>1, <3>2
  <2>2. ASSUME NEW k \in QueuedMsgs(DownloadMsgId)' PROVE rmQueue'[k].data \in Queued
    <3>1. k + 1 \in QueuedMsgs(DownloadMsgId) /\ rmQueue'[k] = rmQueue[k + 1]
      BY <1>2 DEF QueuedMsgs
    <3> QED BY <3>1
  <2>3. Hand' \subseteq Queued
    <3>1. rmMsg'.msgId \in DownloadMsgId => 1 \in QueuedMsgs(DownloadMsgId)
      BY <1>2 DEF QueuedMsgs
    <3> QED BY <1>2, <1>4, <3>1
  <2> QED BY <2>1, <2>2, <2>3
<1>6. Unanswered = download \cup Queued \cup Hand /\ Unanswered' = download' \cup Queued' \cup Hand'
  BY DEF Unanswered
<1> HIDE DEF Queued, Hand
<1> QED BY <1>1, <1>4, <1>5, <1>6

\* Without an answer to wait for, and once the answer has been served, there is none;
\* while it is served it is the only one.
LEMMA UnansweredNone ==
    ASSUME DownloadInv
    PROVE  /\ ~AwaitingDownload => Unanswered = {}
           /\ InHand(DownloadMsgId) /\ rmPc # "serve" => Unanswered = {}
           /\ BeingServed(DownloadMsgId) => Unanswered = {rmMsg.data}
<1>1. TypeOK /\ RmTypeOK /\ Phase
  BY InvParts, TypeParts
<1>2. rmMsg.msgId \in DownloadMsgId => rmMsg.data \in Request
  BY <1>1, MessageTypes
<1>3. BeingServed(DownloadMsgId) => InHand(DownloadMsgId)
  BY DEF BeingServed, InHand
<1>4. ~AwaitingDownload \/ InHand(DownloadMsgId) => download = {} /\ QueuedMsgs(DownloadMsgId) = {}
  BY <1>1 DEF Phase, NoAnswer, Answers
<1>5. ~AwaitingDownload => ~InHand(DownloadMsgId)
  BY <1>1 DEF Phase
<1> QED BY <1>2, <1>3, <1>4, <1>5 DEF Unanswered, BeingServed

-----------------------------------------------------------------------------
(* Steps that leave the slots alone, but for a song that is dropped before *)
(* it is played.                                                           *)

OnlyReadyDropped ==
    \A i \in SlotIndex :
        \/ schData'[i] = schData[i]
        \/ /\ schData[i].status = "PL_READY"
           /\ schData'[i] = [schData[i] EXCEPT !.status = "PL_NONE"]

LEMMA ReadyDropped ==
    ASSUME TypeOK, SlotParts, OnlyReadyDropped, Unanswered' = Unanswered,
           SongPlays' <=> SongPlays, SongMayBeReady => SongMayBeReady'
    PROVE  SlotParts'
<1>1. \A i \in SlotIndex : schData[i] \in Slot
  BY DEF TypeOK, ClientDbTypeOK
<1>2. \A i \in SlotIndex :
         /\ schData'[i].clientId = schData[i].clientId
         /\ schData'[i].reqToken = schData[i].reqToken
         /\ \/ schData'[i].status = schData[i].status
            \/ schData[i].status = "PL_READY" /\ schData'[i].status = "PL_NONE"
  BY <1>1 DEF OnlyReadyDropped, Slot
<1>3. DifferentSlots'
  BY <1>2 DEF SlotParts, DifferentSlots
<1>4. (~NoSlot("PL_PLAYING") <=> SongPlays)'
  BY <1>2 DEF SlotParts, NoSlot
<1>5. (~NoSlot("PL_READY") => SongMayBeReady)'
  BY <1>2 DEF SlotParts, NoSlot
<1>6. ASSUME NEW r \in Unanswered PROVE HasSlot(r)'
  BY <1>2 DEF SlotParts, HasSlot, SlotOf
<1>7. ASSUME NEW i \in SlotIndex, schData'[i].status = "PL_DOWNLOADING"
      PROVE  \E r \in Unanswered : SlotOf(i, r.clntId, r.requestId)'
  BY <1>2, <1>7 DEF SlotParts, SlotOf
<1> QED BY <1>3, <1>4, <1>5, <1>6, <1>7 DEF SlotParts

LEMMA checkAndDeleteDrops ==
    ASSUME TypeOK, NEW id \in ClientId, checkAndDeleteCurrentList(id)
    PROVE  OnlyReadyDropped
  BY DEF checkAndDeleteCurrentList, OnlyReadyDropped

LEMMA deregisterClientDrops ==
    ASSUME TypeOK, NEW id \in ClientId, deregisterClient(id)
    PROVE  OnlyReadyDropped
  BY checkAndDeleteDrops DEF deregisterClient, cdbVars, OnlyReadyDropped

\* What clients ask for and what becomes of the connections to them.
ClientStep ==
    \/ ServRegisterAgain \/ ServRegister \/ ServAdd \/ ServDeregister \/ ServDelete
    \/ ServRefused
    \/ NotifyEnds \/ NotifyConnectFails \/ NotifySendFails
    \/ SendAllJobs
    \/ \E msg \in ClientMsg : handleClient(msg)

LEMMA ClientStepDrops == ASSUME TypeOK, ClientStep PROVE OnlyReadyDropped
<1>1. RmTypeOK /\ schData \in [SlotIndex -> Slot]
  BY TypeParts DEF TypeOK, ClientDbTypeOK
<1>2. CASE ServRegisterAgain
  BY <1>2, deregisterClientDrops DEF ServRegisterAgain, endOldSession
<1>3. CASE ServRegister
  BY <1>3 DEF ServRegister, takeSlot, OnlyReadyDropped
<1>4. CASE ServAdd
  BY <1>4 DEF ServAdd, addToQueue, OnlyReadyDropped
<1>5. CASE ServDeregister
  BY <1>1, <1>5, MessageTypes, deregisterClientDrops DEF ServDeregister
<1>6. CASE ServDelete
  BY <1>1, <1>6 DEF ServDelete, deleteFromQueue, OnlyReadyDropped
<1>7. CASE ServRefused \/ NotifyEnds
  BY <1>7 DEF ServRefused, NotifyEnds, cdbVars, OnlyReadyDropped
<1>8. CASE NotifyConnectFails
  BY <1>1, <1>8, deregisterClientDrops DEF NotifyConnectFails, RmTypeOK
<1>9. CASE NotifySendFails
  BY <1>9 DEF NotifySendFails, Crash, cdbVars, OnlyReadyDropped
<1>10. CASE SendAllJobs
  BY <1>10
     DEF SendAllJobs, sendAllEnds, sendAllRunsOut,
         sendAllSendFails, Crash, cdbVars, OnlyReadyDropped
<1>11. CASE \E msg \in ClientMsg : handleClient(msg)
  BY <1>11 DEF handleClient, cdbVars, OnlyReadyDropped
<1> QED BY <1>2, <1>3, <1>4, <1>5, <1>6, <1>7, <1>8, <1>9, <1>10, <1>11 DEF ClientStep

\* Steps of the resource manager and of the jobs that do not touch the slots.
SlotsUntouched ==
    \/ StartJukeBox \/ TakeMessage \/ ServJukeBoxDone \/ ServJukeBoxStop
    \/ ServMplayerResponseWild \/ callSchedularWild
    \/ RunNothing \/ RunCallSchedular \/ moveToIdle \/ moveToDownloading
    \/ moveToPlayingNotReady \/ moveToPlayingDownloaded \/ moveToPlayingScheduleNext
    \/ callSchedularNoClient
    \/ PlayerJob
    \/ \E request \in Request, msgId \in DownloadMsgId : downloadEnds(request, msgId)
    \/ UNCHANGED vars

LEMMA SlotsUntouchedStep == ASSUME SlotsUntouched PROVE UNCHANGED schData
  BY DEF SlotsUntouched, StartJukeBox, TakeMessage, ServJukeBoxDone, ServJukeBoxStop,
         ServMplayerResponseWild, callSchedularWild, Crash,
         RunNothing, RunCallSchedular, moveToIdle, moveToDownloading,
         moveToPlayingNotReady, moveToPlayingDownloaded, moveToPlayingScheduleNext,
         callSchedularNoClient, MoveTo, PlayerJob, playSongOpens, playSongEnds, downloadEnds,
         vars, cdbVars

\* The five steps that move a song from slot status to slot status.
SlotStep ==
    \/ handleDownloadComplete \/ handleDownloadError
    \/ ServMplayerResponse \/ moveToPlaying \/ callSchedular

LEMMA NextCases ==
    ASSUME [Next]_vars
    PROVE  ClientStep \/ SlotsUntouched \/ SlotStep
  BY DEF Next, RmStep, DownloadJob, ClientStep, SlotsUntouched, SlotStep

-----------------------------------------------------------------------------
(* The invariant, step by step.                                             *)

LEMMA ClientStepParts == ASSUME SlotInv, ClientStep PROVE SlotParts'
<1> USE DEF Served, BeingServed, InPlaying, SongPlays, SongMayBeReady
<1>1. TypeOK /\ SlotParts /\ OnlyReadyDropped
  BY SlotInvParts, ClientStepDrops DEF DownloadInv
<1>2. CASE \/ ServRegisterAgain \/ ServRegister \/ ServAdd \/ ServDeregister \/ ServDelete
           \/ ServRefused
  <2>1. UNCHANGED <<rmState, rmMsg, rmQueue, download>> /\ rmMsg.msgId = "rm_clntMsg_m"
    BY <1>2 DEF ServRegisterAgain, ServRegister, ServAdd, ServDeregister, ServDelete, ServRefused,
                ServingClient, Serving, RmUnchanged
  <2> QED BY <1>1, <2>1, ReadyDropped, UnansweredKept DEF PlayerMsgId, DownloadMsgId
<1>3. CASE NotifyEnds \/ NotifyConnectFails
  <2>1. UNCHANGED <<rmState, rmMsg, rmQueue, download>> /\ rmPc = "notify" /\ rmPc' = "run"
    BY <1>3 DEF NotifyEnds, NotifyConnectFails, At, RmUnchanged, jobVars
  <2> QED BY <1>1, <2>1, ReadyDropped, UnansweredKept
<1>4. CASE NotifySendFails \/ SendAllJobs
  <2>1. UNCHANGED <<rmState, rmMsg, rmQueue, download, rmPc>>
    BY <1>4 DEF NotifySendFails, SendAllJobs,
                sendAllEnds, sendAllRunsOut, sendAllSendFails, Crash,
                JobUnchanged, jobVars
  <2> QED BY <1>1, <2>1, ReadyDropped, UnansweredKept
<1>5. ASSUME NEW msg \in ClientMsg, handleClient(msg) PROVE SlotParts'
  <2>1. UNCHANGED <<rmState, rmMsg, download, rmPc>>
    BY <1>5 DEF handleClient, JobUnchanged, jobVars
  <2>2. /\ [msgId |-> "rm_clntMsg_m", data |-> msg] \in RmMsg
        /\ [msgId |-> "rm_clntMsg_m", data |-> msg].msgId \notin DownloadMsgId
    BY DEF RmMsg, DownloadMsgId
  <2>3. Unanswered' = Unanswered
    BY <1>1, <1>5, <2>1, <2>2, UnansweredPost DEF handleClient
  <2> QED BY <1>1, <2>1, <2>3, ReadyDropped
<1> QED BY <1>2, <1>3, <1>4, <1>5 DEF ClientStep

\* The jobs that play or download songs.
LEMMA JobParts ==
    ASSUME SlotInv,
           \/ PlayerJob
           \/ \E request \in Request, msgId \in DownloadMsgId : downloadEnds(request, msgId)
    PROVE  SlotParts'
<1> USE DEF Served, BeingServed, InPlaying, SongPlays, SongMayBeReady
<1>1. TypeOK /\ SlotParts
  BY SlotInvParts DEF DownloadInv
<1>2. UNCHANGED <<rmState, rmMsg, rmPc>>
  BY DEF PlayerJob, playSongOpens, playSongEnds, downloadEnds, JobUnchanged
<1>3. OnlyReadyDropped
  BY SlotsUntouchedStep DEF SlotsUntouched, OnlyReadyDropped
<1>4. Unanswered' = Unanswered
  <2>1. CASE playSongOpens
    BY <1>2, <2>1, UnansweredKept DEF playSongOpens, jobVars
  <2>2. ASSUME NEW msgId \in PlayerMsgId, playSongEnds(msgId) PROVE Unanswered' = Unanswered
    <3>1. [msgId |-> msgId] \in RmMsg /\ [msgId |-> msgId].msgId \notin DownloadMsgId
      BY DEF RmMsg, PlayerMsgId, DownloadMsgId
    <3> QED BY <1>1, <1>2, <2>2, <3>1, UnansweredPost DEF playSongEnds, jobVars
  <2>3. ASSUME NEW request \in download, NEW msgId \in DownloadMsgId,
               Post([msgId |-> msgId, data |-> request]), download' = download \ {request}
        PROVE  Unanswered' = Unanswered
    <3>1. /\ [msgId |-> msgId, data |-> request] \in RmMsg
          /\ [msgId |-> msgId, data |-> request].msgId \in DownloadMsgId
          /\ [msgId |-> msgId, data |-> request].data = request
      BY <1>1 DEF TypeOK, RmMsg
    <3> QED BY <1>1, <1>2, <2>3, <3>1, UnansweredPost
  <2> QED BY <2>1, <2>2, <2>3 DEF PlayerJob, downloadEnds
<1> QED BY <1>1, <1>2, <1>3, <1>4, ReadyDropped

\* The resource manager's own steps that leave the slots alone.
LEMMA JukeBoxParts ==
    ASSUME SlotInv,
           \/ StartJukeBox \/ ServJukeBoxDone \/ ServJukeBoxStop
           \/ ServMplayerResponseWild \/ callSchedularWild \/ callSchedularNoClient
           \/ UNCHANGED vars
    PROVE  SlotParts'
<1> USE DEF Served, BeingServed, InPlaying, SongPlays, SongMayBeReady
<1>1. TypeOK /\ SlotParts
  BY SlotInvParts DEF DownloadInv
<1>2. OnlyReadyDropped
  BY SlotsUntouchedStep DEF SlotsUntouched, OnlyReadyDropped
<1>3. UNCHANGED <<rmState, rmMsg, rmQueue, download>>
  BY DEF StartJukeBox, ServJukeBoxDone, ServJukeBoxStop, ServMplayerResponseWild,
         callSchedularWild, callSchedularNoClient, Crash, MoveTo, RmUnchanged, jobVars, vars
<1>4. \/ UNCHANGED rmPc
      \/ rmPc \in {"start", "schedule"} /\ rmPc' = "drain"
      \/ rmPc = "serve" /\ rmPc' = "drain" /\ rmMsg.msgId \in PlayerMsgId
  BY DEF StartJukeBox, ServJukeBoxDone, ServJukeBoxStop, ServMplayerResponseWild,
         callSchedularWild, callSchedularNoClient, Crash, MoveTo, Serving, At, PlayerMsgId, vars
<1>5. (BeingServed(DownloadMsgId)' <=> BeingServed(DownloadMsgId))
  BY <1>3, <1>4 DEF PlayerMsgId, DownloadMsgId
<1> QED BY <1>1, <1>2, <1>3, <1>4, <1>5, UnansweredKept, ReadyDropped

LEMMA TakeMessageParts == ASSUME SlotInv, TakeMessage PROVE SlotParts'
<1>1. TypeOK /\ SlotParts
  BY SlotInvParts DEF DownloadInv
<1>2. OnlyReadyDropped
  BY SlotsUntouchedStep DEF SlotsUntouched, OnlyReadyDropped
<1>3. UNCHANGED rmState /\ rmPc = "drain" /\ rmPc' = "serve"
  BY DEF TakeMessage, At
<1> QED BY <1>1, <1>2, <1>3, UnansweredTake, ReadyDropped
        DEF Served, InPlaying, SongPlays, SongMayBeReady

\* The table: a playing state is left with the end of a song only, and a song that has
\* just become ready is played or waits in rm_Playing_Downloaded.
LEMMA RunParts ==
    ASSUME SlotInv,
           \/ RunNothing \/ RunCallSchedular \/ moveToIdle \/ moveToDownloading
           \/ moveToPlayingNotReady
           \/ moveToPlayingDownloaded \/ moveToPlayingScheduleNext
    PROVE  SlotParts'
<1>1. TypeOK /\ SlotParts /\ Phase /\ rmState \in RmState
  BY SlotInvParts, InvParts DEF TypeOK
<1>2. OnlyReadyDropped /\ UNCHANGED schData
  BY SlotsUntouchedStep DEF SlotsUntouched, OnlyReadyDropped
<1>3. /\ UNCHANGED <<rmMsg, rmQueue, download>>
      /\ rmPc = "run"
      /\ rmPc' \in {"drain", "schedule"}
  BY DEF RunNothing, RunCallSchedular, moveToIdle, moveToDownloading, moveToPlayingNotReady,
         moveToPlayingDownloaded, moveToPlayingScheduleNext, MoveTo, RmUnchanged, Running, At
<1>4. Unanswered' = Unanswered
  BY <1>3, UnansweredKept DEF BeingServed
<1>5. rmMsg.msgId \in DownloadMsgId => AwaitingDownload
  BY <1>1, <1>3 DEF Phase, InHand
<1>6. SongPlays' <=> SongPlays
  BY <1>1, <1>3, <1>5
     DEF RunNothing, RunCallSchedular, moveToIdle, moveToDownloading, moveToPlayingNotReady,
         moveToPlayingDownloaded, moveToPlayingScheduleNext, MoveTo, Running, rmRunState,
         SongPlays, InPlaying, Served, AwaitingDownload, RmState, PlayerMsgId, DownloadMsgId
<1>7. ~NoSlot("PL_READY") /\ SongMayBeReady => SongMayBeReady'
  BY <1>1, <1>3, <1>5
     DEF RunNothing, RunCallSchedular, moveToIdle, moveToDownloading, moveToPlayingNotReady,
         moveToPlayingDownloaded, moveToPlayingScheduleNext, MoveTo, Running, rmRunState,
         SongMayBeReady, Served, AwaitingDownload, RmState, PlayerMsgId, DownloadMsgId
<1>8. NoSlot("PL_READY") => SlotParts'
  BY <1>1, <1>2, <1>4, <1>6 DEF SlotParts, DifferentSlots, NoSlot, HasSlot, SlotOf
<1> QED BY <1>1, <1>2, <1>4, <1>6, <1>7, <1>8, ReadyDropped

\* The answer of a download finds the one slot that waits for it.
LEMMA handleDownloadParts ==
    ASSUME SlotInv, handleDownloadComplete \/ handleDownloadError
    PROVE  /\ SlotParts'
           /\ \E i \in SlotIndex :
                 /\ DownloadSlot(i, rmMsg.data)
                 /\ \A k \in SlotIndex : schData[k].status = "PL_DOWNLOADING" => k = i
                 /\ \/ handleDownloadComplete /\ downloadReady(i, rmMsg.data.clntId)
                    \/ handleDownloadError /\ downloadFailed(i)
<1>1. TypeOK /\ SlotParts /\ Phase /\ DownloadInv
  BY SlotInvParts, InvParts
<1>2. /\ BeingServed(DownloadMsgId) /\ InHand(DownloadMsgId) /\ AwaitingDownload
      /\ Unanswered = {rmMsg.data}
  BY <1>1, UnansweredNone DEF handleDownloadComplete, handleDownloadError, Serving, At,
     BeingServed, InHand, DownloadMsgId, Phase
<1>3. ~Mismatch(rmMsg.data)
  BY <1>1, <1>2, FoundSlot DEF SlotParts
<1>4. PICK i \in SlotIndex :
         /\ DownloadSlot(i, rmMsg.data)
         /\ \/ handleDownloadComplete /\ downloadReady(i, rmMsg.data.clntId)
            \/ handleDownloadError /\ downloadFailed(i)
  BY <1>3 DEF handleDownloadComplete, handleDownloadError
<1>5. schData[i].status = "PL_DOWNLOADING"
  BY <1>4 DEF DownloadSlot
<1>6. \A k \in SlotIndex : k # i => schData[k].status # "PL_DOWNLOADING" /\ schData[k].status # "PL_READY"
  <2>1. NoSlot("PL_READY")
    BY <1>1, <1>2 DEF SlotParts, SongMayBeReady, AwaitingDownload, Served, BeingServed
  <2> QED BY <1>1, <1>5, <2>1 DEF SlotParts, DifferentSlots, NoSlot
<1>7. /\ UNCHANGED <<rmState, rmMsg, rmQueue, download>>
      /\ rmPc = "serve"
      /\ rmPc' \in {"notify", "run"}
      /\ schData \in [SlotIndex -> Slot]
      /\ schData' = [schData EXCEPT ![i].status =
                        IF handleDownloadComplete THEN "PL_READY" ELSE "PL_NONE"]
      /\ ~(handleDownloadComplete /\ handleDownloadError)
      /\ handleDownloadComplete => rmMsg.msgId = "rm_dw_complete_m"
      /\ rmMsg.msgId \in DownloadMsgId
  BY <1>1, <1>3, <1>4
     DEF TypeOK, ClientDbTypeOK, handleDownloadComplete, handleDownloadError, downloadReady,
         downloadFailed, RmUnchanged, Serving, At, DownloadMsgId
<1>8. Unanswered' = {}
  <2>1. download = {} /\ QueuedMsgs(DownloadMsgId) = {}
    BY <1>1, <1>2 DEF Phase, NoAnswer, Answers
  <2> QED BY <1>7, <2>1 DEF Unanswered, QueuedMsgs, BeingServed
<1>9. SlotParts'
  <2>1. DifferentSlots'
    BY <1>1, <1>5, <1>6, <1>7 DEF SlotParts, DifferentSlots, Slot
  <2>2. SongPlays' <=> SongPlays
    BY <1>7 DEF SongPlays, InPlaying, Served, PlayerMsgId, DownloadMsgId
  <2>3. (~NoSlot("PL_PLAYING") <=> SongPlays)'
    BY <1>1, <1>5, <1>7, <2>2 DEF SlotParts, NoSlot
  <2>4. (~NoSlot("PL_READY") => SongMayBeReady)'
    BY <1>6, <1>7 DEF NoSlot, SongMayBeReady, Served
  <2>5. \A k \in SlotIndex : schData'[k].status # "PL_DOWNLOADING"
    BY <1>6, <1>7
  <2> QED BY <1>8, <2>1, <2>3, <2>4, <2>5 DEF SlotParts
<1> QED BY <1>4, <1>5, <1>6, <1>9

\* The end of a song frees the slot that plays.
LEMMA ServMplayerResponseParts == ASSUME SlotInv, ServMplayerResponse PROVE SlotParts'
<1> USE DEF Served, InPlaying, SongPlays, SongMayBeReady
<1>1. TypeOK /\ SlotParts
  BY SlotInvParts DEF DownloadInv
<1>2. /\ UNCHANGED <<rmState, rmMsg, rmQueue, download>>
      /\ rmPc = "serve" /\ rmPc' \in {"notify", "run"}
      /\ rmMsg.msgId \in PlayerMsgId
      /\ schData \in [SlotIndex -> Slot]
  BY <1>1 DEF TypeOK, ClientDbTypeOK, ServMplayerResponse, RmUnchanged, Serving, At
<1>3. Unanswered' = Unanswered
  BY <1>2, UnansweredKept DEF BeingServed, PlayerMsgId, DownloadMsgId
<1>4. ~SongPlays' /\ (SongMayBeReady => SongMayBeReady')
  BY <1>2
<1>5. CASE NoSlot("PL_PLAYING")
  <2>1. OnlyReadyDropped
    BY <1>5 DEF ServMplayerResponse, cdbVars, OnlyReadyDropped
  <2> QED BY <1>1, <1>3, <1>4, <1>5, <2>1, ReadyDropped DEF SlotParts
<1>6. CASE ~NoSlot("PL_PLAYING")
  <2>1. PICK i \in SlotIndex : setPlayingStatus(i)
    BY <1>6 DEF ServMplayerResponse
  <2>2. schData[i].status = "PL_PLAYING" /\ schData' = [schData EXCEPT ![i].status = "PL_NONE"]
    BY <2>1 DEF setPlayingStatus, FirstSlot
  <2>3. DifferentSlots'
    BY <1>1, <1>2, <2>2 DEF SlotParts, DifferentSlots, Slot
  <2>4. NoSlot("PL_PLAYING")'
    BY <1>1, <1>2, <2>2 DEF SlotParts, DifferentSlots, NoSlot
  <2>5. (~NoSlot("PL_READY") => SongMayBeReady)'
    BY <1>1, <1>2, <1>4, <2>2 DEF SlotParts, NoSlot
  <2>6. ASSUME NEW r \in Unanswered PROVE HasSlot(r)'
    <3>1. PICK k \in SlotIndex :
             SlotOf(k, r.clntId, r.requestId) /\ schData[k].status = "PL_DOWNLOADING"
      BY <1>1 DEF SlotParts, HasSlot
    <3>2. schData'[k] = schData[k]
      BY <1>2, <2>2, <3>1
    <3> QED BY <3>1, <3>2 DEF HasSlot, SlotOf
  <2>7. ASSUME NEW k \in SlotIndex, schData'[k].status = "PL_DOWNLOADING"
        PROVE  \E r \in Unanswered : SlotOf(k, r.clntId, r.requestId)'
    <3>1. schData'[k] = schData[k]
      BY <1>2, <2>2, <2>7
    <3> QED BY <1>1, <2>7, <3>1 DEF SlotParts, SlotOf
  <2> QED BY <1>3, <1>4, <2>3, <2>4, <2>5, <2>6, <2>7 DEF SlotParts
<1> QED BY <1>5, <1>6

\* A song is played only when none plays, and it is the only one that was ready.
LEMMA moveToPlayingParts ==
    ASSUME SlotInv, moveToPlaying PROVE SlotParts' /\ NoSlot("PL_PLAYING")
<1>1. TypeOK /\ SlotParts /\ Phase /\ DownloadInv
  BY SlotInvParts, InvParts
<1>2. PICK i \in SlotIndex : getRequestForPlaying(i)
  BY DEF moveToPlaying
<1>3. /\ UNCHANGED <<rmMsg, rmQueue, download>>
      /\ rmPc = "run" /\ rmPc' = "schedule"
      /\ rmState' = "rm_Playing"
      /\ \/ rmState = "rm_Downloading" /\ rmMsg.msgId = "rm_dw_complete_m"
         \/ rmState = "rm_Playing_Downloaded" /\ rmMsg.msgId \in PlayerMsgId
      /\ schData \in [SlotIndex -> Slot]
  BY <1>1 DEF moveToPlaying, RmUnchanged, Running, At, rmRunState, TypeOK, ClientDbTypeOK
<1>4. schData[i].status = "PL_READY" /\ schData' = [schData EXCEPT ![i].status = "PL_PLAYING"]
  BY <1>2 DEF getRequestForPlaying, FirstSlot
<1>5. ~SongPlays /\ SongPlays'
  BY <1>3 DEF SongPlays, InPlaying, Served, PlayerMsgId
<1>6. \A k \in SlotIndex : schData[k].status # "PL_PLAYING"
  BY <1>1, <1>5 DEF SlotParts, NoSlot
<1>7. Unanswered = {} /\ Unanswered' = {}
  <2>1. Unanswered = {}
    BY <1>1, <1>3, UnansweredNone DEF InHand, DownloadMsgId, AwaitingDownload
  <2> QED BY <1>3, <2>1, UnansweredKept DEF BeingServed
<1>8. \A k \in SlotIndex : schData[k].status # "PL_DOWNLOADING"
  BY <1>1, <1>7 DEF SlotParts
<1>9. DifferentSlots' /\ ~NoSlot("PL_PLAYING")' /\ NoSlot("PL_READY")'
  BY <1>1, <1>3, <1>4, <1>6 DEF SlotParts, DifferentSlots, NoSlot, Slot
<1>10. \A k \in SlotIndex : schData'[k].status # "PL_DOWNLOADING"
  BY <1>3, <1>4, <1>8
<1> QED BY <1>5, <1>6, <1>7, <1>9, <1>10 DEF SlotParts, NoSlot

\* The scheduler uses a free slot, and no other one waits for a download.
LEMMA callSchedularParts ==
    ASSUME SlotInv, callSchedular
    PROVE  SlotParts' /\ NoSlot("PL_DOWNLOADING") /\ schData[scheduleIndex].status = "PL_NONE"
<1>1. TypeOK /\ SlotParts /\ Schedules /\ DownloadInv
  BY SlotInvParts, InvParts
<1>2. PICK request \in Request :
         getRequestForDownloading(request) /\ download' = download \cup {request}
  BY DEF callSchedular
<1>3. /\ UNCHANGED <<rmMsg, rmQueue>>
      /\ rmPc = "schedule" /\ rmPc' = "drain"
      /\ rmState \in {"rm_Idle", "rm_Playing"}
      /\ schData \in [SlotIndex -> Slot]
      /\ scheduleIndex \in SlotIndex
  BY <1>1 DEF callSchedular, At, Schedules, TypeOK, ClientDbTypeOK
<1>4. rmState' = IF rmState = "rm_Idle" THEN "rm_Downloading" ELSE "rm_Playing_Downloading"
  BY <1>3 DEF callSchedular
<1>5. /\ schData[scheduleIndex].status = "PL_NONE"
      /\ schData' = [schData EXCEPT ![scheduleIndex] =
                        [clientId |-> request.clntId, reqToken |-> request.requestId,
                         status |-> "PL_DOWNLOADING"]]
  BY <1>2 DEF getRequestForDownloading
<1>6. Unanswered = {} /\ Unanswered' = {request}
  <2>1. Unanswered = {}
    BY <1>1, <1>3, UnansweredNone DEF AwaitingDownload
  <2>2. download = {} /\ QueuedMsgs(DownloadMsgId)' = {} /\ ~BeingServed(DownloadMsgId)'
    BY <1>3, <2>1 DEF Unanswered, QueuedMsgs, BeingServed
  <2> QED BY <1>2, <2>1, <2>2 DEF Unanswered
<1>7. \A k \in SlotIndex : schData[k].status \notin {"PL_DOWNLOADING", "PL_READY"}
  BY <1>1, <1>3, <1>6 DEF SlotParts, SongMayBeReady, Served, NoSlot
<1>8. DifferentSlots'
  BY <1>1, <1>3, <1>5, <1>7 DEF SlotParts, DifferentSlots, Slot
<1>9. SongPlays' <=> SongPlays
  BY <1>3, <1>4 DEF SongPlays, InPlaying, Served
<1>10. (~NoSlot("PL_PLAYING") <=> SongPlays)' /\ NoSlot("PL_READY")'
  BY <1>1, <1>3, <1>5, <1>7, <1>9 DEF SlotParts, NoSlot
<1>11. HasSlot(request)'
  BY <1>3, <1>5 DEF HasSlot, SlotOf
<1>12. \A k \in SlotIndex : schData'[k].status = "PL_DOWNLOADING" =>
          SlotOf(k, request.clntId, request.requestId)'
  BY <1>3, <1>5, <1>7 DEF SlotOf
<1> QED BY <1>5, <1>6, <1>7, <1>8, <1>10, <1>11, <1>12 DEF SlotParts, NoSlot

LEMMA InitSlots == Init => SlotInv
<1> SUFFICES ASSUME Init PROVE SlotInv
  OBVIOUS
<1>1. /\ \A i \in SlotIndex : schData[i].status = "PL_NONE"
      /\ rmState = "rm_Idle" /\ rmPc = "start" /\ download = {} /\ rmQueue = <<>>
  BY DEF Init, initClientDb
<1>2. Unanswered = {}
  BY <1>1 DEF Unanswered, QueuedMsgs, BeingServed
<1>3. SlotParts
  BY <1>1, <1>2 DEF SlotParts, DifferentSlots, NoSlot, SongPlays, InPlaying
<1> QED BY <1>3, InitDownload, SlotInvParts

LEMMA NextSlots == SlotInv /\ [Next]_vars => SlotInv'
<1> SUFFICES ASSUME SlotInv, [Next]_vars PROVE SlotInv'
  OBVIOUS
<1>1. DownloadInv'
  BY NextDownload DEF SlotInv
<1>2. SlotParts'
  <2>1. CASE SlotsUntouched
    BY <2>1, JobParts, JukeBoxParts, TakeMessageParts, RunParts DEF SlotsUntouched
  <2>2. CASE SlotStep
    BY <2>2, handleDownloadParts, ServMplayerResponseParts, moveToPlayingParts, callSchedularParts
       DEF SlotStep
  <2> QED BY <2>1, <2>2, NextCases, ClientStepParts, JobParts
<1> QED BY <1>1, <1>2, SlotInvParts

\* The state machine knows its slots (resourceManager.c:409-437): as long as no worker
\* drops a client, whatever the resource manager deletes and deregisters in between, it is
\* in a playing state exactly while a slot plays, a ready slot is one it is about to look
\* at, and no two slots are alike.
THEOREM SlotsAgreeWithState == Spec => []SlotsFollowState
<1>1. SlotInv => SlotsFollowState
  BY DEF SlotInv
<1> QED BY <1>1, InitSlots, NextSlots, PTL DEF Spec

\* "MissMatch between downloading request and response" (clientdb.c:285-296) is not
\* reported as long as only the resource manager drops clients: every answer finds its
\* slot, and no slot waits for an answer for ever lost.  (It is reported when workers drop
\* them: see MCDropping.)
THEOREM AnswersFindSlots == Spec => []DownloadsHaveSlots
<1>1. SlotInv => DownloadsHaveSlots
  BY DEF SlotInv
<1> QED BY <1>1, InitSlots, NextSlots, PTL DEF Spec

-----------------------------------------------------------------------------
(* What the slots are worth: the file of a download, the active client, the *)
(* song deleteDownloading deletes.                                          *)

\* Deletions, deregistrations by the resource manager and the scheduler leave a slot alone
\* while a worker writes its file (clientdb.c:214-256, 402-456): as long as no worker drops
\* a client, only the answer to that download frees it.
THEOREM DownloadSlotIsSafe == Spec => DownloadSlotLeftAlone
<1>1. TypeOK /\ [Next]_vars =>
         [\A i \in SlotIndex :
             schData[i].status = "PL_DOWNLOADING" /\ schData'[i] # schData[i] =>
                 BeingServed(DownloadMsgId) /\ DownloadSlot(i, rmMsg.data)]_vars
  <2> SUFFICES ASSUME TypeOK, [Next]_vars, NEW i \in SlotIndex,
                      schData[i].status = "PL_DOWNLOADING", schData'[i] # schData[i]
               PROVE  BeingServed(DownloadMsgId) /\ DownloadSlot(i, rmMsg.data)
    OBVIOUS
  <2>1. schData \in [SlotIndex -> Slot] /\ scheduleIndex \in SlotIndex
    BY DEF TypeOK, ClientDbTypeOK
  <2>2. ~OnlyReadyDropped /\ ~UNCHANGED schData
    BY DEF OnlyReadyDropped
  <2>3. SlotStep
    BY <2>2, NextCases, ClientStepDrops, SlotsUntouchedStep
  <2>4. CASE handleDownloadComplete \/ handleDownloadError
    BY <2>1, <2>4
       DEF handleDownloadComplete, handleDownloadError, downloadReady, downloadFailed,
           NothingToServe, cdbVars, Serving, At, BeingServed, DownloadMsgId
  <2>5. CASE ServMplayerResponse
    BY <2>1, <2>5 DEF ServMplayerResponse, setPlayingStatus, FirstSlot, cdbVars
  <2>6. CASE moveToPlaying
    BY <2>1, <2>6 DEF moveToPlaying, getRequestForPlaying, FirstSlot
  <2>7. CASE callSchedular
    BY <2>1, <2>7 DEF callSchedular, getRequestForDownloading
  <2> QED BY <2>3, <2>4, <2>5, <2>6, <2>7 DEF SlotStep
<1> QED BY <1>1, TypeCorrect, PTL DEF Spec, DownloadSlotLeftAlone

\* Whoever is active keeps the slot that plays, as long as at most one plays.
LEMMA ActiveUnchanged ==
    ASSUME ActiveClientPlays, TypeOK,
           \A id \in ClientId :
               clientState'[id] = "clnt_active_state" => clientState[id] = "clnt_active_state",
           \A i \in SlotIndex :
               schData[i].status = "PL_PLAYING" => schData'[i] = schData[i]
    PROVE  ActiveClientPlays'
  BY DEF ActiveClientPlays

LEMMA NextActive ==
    ASSUME SlotInv, ActiveClientPlays, [Next]_vars PROVE ActiveClientPlays'
<1>1. /\ TypeOK /\ RmTypeOK /\ SlotParts
      /\ schData \in [SlotIndex -> Slot] /\ clientState \in [ClientId -> ClientState]
      /\ scheduleIndex \in SlotIndex
  BY SlotInvParts, TypeParts DEF DownloadInv, TypeOK, ClientDbTypeOK
<1>2. OnlyReadyDropped =>
         \A i \in SlotIndex : schData[i].status = "PL_PLAYING" => schData'[i] = schData[i]
  BY DEF OnlyReadyDropped
<1>3. ASSUME NEW id \in ClientId, deregisterClient(id)
      PROVE  \A k \in ClientId :
                clientState'[k] = "clnt_active_state" => clientState[k] = "clnt_active_state"
  BY <1>1, <1>3 DEF deregisterClient, cdbVars
<1>4. CASE ClientStep
  <2>1. ASSUME NEW id \in ClientId, NEW host, takeSlot(id, host)
        PROVE  \A k \in ClientId :
                  clientState'[k] = "clnt_active_state" => clientState[k] = "clnt_active_state"
    BY <1>1, <2>1 DEF takeSlot
  <2>2. \A k \in ClientId :
           clientState'[k] = "clnt_active_state" => clientState[k] = "clnt_active_state"
    BY <1>1, <1>3, <1>4, <2>1, MessageTypes
       DEF ClientStep, ServRegisterAgain, endOldSession, ServRegister, ServAdd, addToQueue,
           ServDeregister, ServDelete, deleteFromQueue, ServRefused,
           NotifyEnds, NotifyConnectFails, NotifySendFails, handleClient,
           SendAllJobs, sendAllEnds,
           sendAllRunsOut, sendAllSendFails, Crash, cdbVars, RmTypeOK
  <2> QED BY <1>1, <1>2, <1>4, <2>2, ClientStepDrops, ActiveUnchanged
<1>5. CASE SlotsUntouched
  <2>1. UNCHANGED clientState
    BY <1>5 DEF SlotsUntouched, StartJukeBox, TakeMessage, ServJukeBoxDone, ServJukeBoxStop,
         ServMplayerResponseWild, callSchedularWild, Crash,
         RunNothing, RunCallSchedular, moveToIdle, moveToDownloading,
         moveToPlayingNotReady, moveToPlayingDownloaded, moveToPlayingScheduleNext,
         callSchedularNoClient, MoveTo, PlayerJob, playSongOpens, playSongEnds, downloadEnds,
         vars, cdbVars
  <2> QED BY <1>1, <1>5, <2>1, SlotsUntouchedStep, ActiveUnchanged
<1>7. CASE handleDownloadComplete \/ handleDownloadError
  BY <1>1, <1>7, ActiveUnchanged
     DEF handleDownloadComplete, handleDownloadError, DownloadSlot, downloadReady,
         downloadFailed, NothingToServe, cdbVars
<1>8. CASE ServMplayerResponse
  <2>1. CASE NoSlot("PL_PLAYING")
    BY <1>1, <1>8, <2>1, ActiveUnchanged DEF ServMplayerResponse, cdbVars
  <2>2. CASE ~NoSlot("PL_PLAYING")
    <3>1. PICK i \in SlotIndex : setPlayingStatus(i)
      BY <1>8, <2>2 DEF ServMplayerResponse
    <3>2. \A k \in SlotIndex : schData[k].status = "PL_PLAYING" => k = i
      BY <1>1, <3>1 DEF setPlayingStatus, FirstSlot, SlotParts, DifferentSlots
    <3>3. \A id \in ClientId :
             clientState[id] = "clnt_active_state" => id = schData[i].clientId
      BY <3>2 DEF ActiveClientPlays
    <3>4. \A id \in ClientId : clientState'[id] # "clnt_active_state"
      BY <1>1, <3>1, <3>3 DEF setPlayingStatus
    <3> QED BY <3>4 DEF ActiveClientPlays
  <2> QED BY <2>1, <2>2
<1>9. CASE moveToPlaying
  <2>1. PICK i \in SlotIndex : getRequestForPlaying(i)
    BY <1>9 DEF moveToPlaying
  <2>2. /\ schData'[i].clientId = schData[i].clientId
        /\ schData'[i].status = "PL_PLAYING"
        /\ \A id \in ClientId \ {schData[i].clientId} : clientState'[id] = clientState[id]
    BY <1>1, <2>1 DEF getRequestForPlaying, Slot
  <2>3. \A id \in ClientId : clientState[id] # "clnt_active_state"
    BY <1>9, moveToPlayingParts DEF ActiveClientPlays, NoSlot
  <2> QED BY <2>2, <2>3 DEF ActiveClientPlays
<1>10. CASE callSchedular
  BY <1>1, <1>10, ActiveUnchanged DEF callSchedular, getRequestForDownloading
<1> QED BY <1>4, <1>5, <1>7, <1>8, <1>9, <1>10, NextCases DEF SlotStep

\* A client that is shown as active has the slot that plays (clientdb.c:345, 371), however
\* often it came and went in between, as long as no worker drops it.
THEOREM ActiveClientHasSlot == Spec => []ActiveClientPlays
<1>1. Init => SlotInv /\ ActiveClientPlays
  BY InitSlots DEF Init, initClientDb, ActiveClientPlays
<1>2. SlotInv /\ ActiveClientPlays /\ [Next]_vars => SlotInv' /\ ActiveClientPlays'
  BY NextSlots, NextActive
<1> QED BY <1>1, <1>2, PTL DEF Spec

-----------------------------------------------------------------------------
(* The songs that are being downloaded.                                     *)

Downloading(s) == {k \in DOMAIN s : s[k].plStatus = "PL_DOWNLOADING"}

\* Operations that add nothing to a list that is being downloaded.
NothingMoreIn(s, t) ==
    /\ \A k \in Downloading(t) : \E m \in Downloading(s) : t[k].token = s[m].token
    /\ (\A k, m \in Downloading(s) : k = m) => \A k, m \in Downloading(t) : k = m

NothingMore == \A id \in ClientId : NothingMoreIn(pList[id], pList'[id])

LEMMA NothingMoreSame == \A s : NothingMoreIn(s, s)
  BY DEF NothingMoreIn

LEMMA NothingMoreElsewhere ==
    ASSUME NEW id \in ClientId, NothingMoreIn(pList[id], pList'[id]),
           \A k \in ClientId \ {id} : pList'[k] = pList[k]
    PROVE  NothingMore
  BY NothingMoreSame DEF NothingMore

LEMMA RemoveAtElements ==
    ASSUME NEW S, NEW s \in Seq(S), NEW k \in DOMAIN s
    PROVE  /\ Len(s) \in Nat /\ DOMAIN s = 1 .. Len(s)
           /\ DOMAIN RemoveAt(s, k) = 1 .. Len(s) - 1
           /\ \A m \in 1 .. Len(s) - 1 : RemoveAt(s, k)[m] = s[IF m < k THEN m ELSE m + 1]
<1>1. Len(s) \in Nat /\ DOMAIN s = 1 .. Len(s)
  BY LenProperties
<1> DEFINE before == SubSeq(s, 1, k - 1)
           after == SubSeq(s, k + 1, Len(s))
<1>2. /\ before \in Seq(S) /\ Len(before) = k - 1
      /\ \A m \in 1 .. k - 1 : before[m] = s[m]
  <2>1. \A m \in 1 .. k - 1 : s[m] \in S
    BY <1>1, ElementOfSeq
  <2> QED BY <1>1, <2>1, SubSeqProperties
<1>3. /\ after \in Seq(S) /\ Len(after) = Len(s) - k
      /\ \A m \in 1 .. Len(s) - k : after[m] = s[k + m]
  <2>1. \A m \in k + 1 .. Len(s) : s[m] \in S
    BY <1>1, ElementOfSeq
  <2>2. \A m \in 1 .. Len(s) - (k + 1) + 1 : after[m] = s[k + 1 + m - 1]
    BY <1>1, <2>1, SubSeqProperties
  <2>3. after \in Seq(S) /\ Len(after) = IF k + 1 <= Len(s) THEN Len(s) - (k + 1) + 1 ELSE 0
    BY <1>1, <2>1, SubSeqProperties
  <2> QED BY <1>1, <2>2, <2>3
<1>4. RemoveAt(s, k) = before \o after
  BY DEF RemoveAt
<1> HIDE DEF before, after
<1>5. /\ before \o after \in Seq(S)
      /\ Len(before \o after) = Len(s) - 1
      /\ \A m \in 1 .. Len(s) - 1 :
            (before \o after)[m] = IF m <= k - 1 THEN before[m] ELSE after[m - (k - 1)]
  <2>1. /\ before \o after \in Seq(S)
        /\ Len(before \o after) = Len(before) + Len(after)
        /\ \A m \in 1 .. Len(before) + Len(after) :
              (before \o after)[m] = IF m <= Len(before) THEN before[m] ELSE after[m - Len(before)]
    BY <1>2, <1>3, ConcatProperties
  <2>2. Len(before) + Len(after) = Len(s) - 1
    BY <1>1, <1>2, <1>3
  <2>3. ASSUME NEW m \in 1 .. Len(s) - 1
        PROVE  (before \o after)[m] = IF m <= k - 1 THEN before[m] ELSE after[m - (k - 1)]
    BY <1>2, <2>1, <2>2
  <2> QED BY <2>1, <2>2, <2>3
<1>6. DOMAIN RemoveAt(s, k) = 1 .. Len(s) - 1
  BY <1>4, <1>5, LenProperties
<1>7. ASSUME NEW m \in 1 .. Len(s) - 1
      PROVE  RemoveAt(s, k)[m] = s[IF m < k THEN m ELSE m + 1]
  <2>1. CASE m < k
    BY <1>1, <1>2, <1>4, <1>5, <2>1
  <2>2. CASE ~(m < k)
    <3>1. m - (k - 1) \in 1 .. Len(s) - k /\ k + (m - (k - 1)) = m + 1
      BY <1>1, <2>2
    <3>2. after[m - (k - 1)] = s[m + 1]
      BY <1>3, <3>1
    <3> QED BY <1>1, <1>4, <1>5, <2>2, <3>2
  <2> QED BY <2>1, <2>2
<1> QED BY <1>1, <1>6, <1>7

LEMMA RemoveAtNothingMore ==
    ASSUME NEW s \in Seq(Song), NEW k \in DOMAIN s
    PROVE  NothingMoreIn(s, RemoveAt(s, k))
<1> DEFINE t == RemoveAt(s, k)
           old(m) == IF m < k THEN m ELSE m + 1
<1>1. /\ Len(s) \in Nat /\ DOMAIN s = 1 .. Len(s) /\ DOMAIN t = 1 .. Len(s) - 1
      /\ \A m \in DOMAIN t : old(m) \in DOMAIN s /\ t[m] = s[old(m)]
      /\ \A m, n \in DOMAIN t : old(m) = old(n) => m = n
  BY RemoveAtElements
<1> HIDE DEF t, old
<1>2. \A m \in Downloading(t) : old(m) \in Downloading(s) /\ t[m] = s[old(m)]
  BY <1>1 DEF Downloading
<1>3. NothingMoreIn(s, t)
  BY <1>1, <1>2 DEF NothingMoreIn, Downloading
<1> QED BY <1>3 DEF t

LEMMA DeleteNothingMore ==
    ASSUME PlayListTypeOK, NEW id \in ClientId, NEW field, NEW value,
           deleteOneFromListHaving(id, field, value)
    PROVE  NothingMore
<1>1. ASSUME NEW k \in DOMAIN pList[id], DeleteNode(id, k) PROVE NothingMore
  <2>1. NothingMoreIn(pList[id], RemoveAt(pList[id], k))
    BY ListType, RemoveAtNothingMore
  <2>2. pList' = [pList EXCEPT ![id] = RemoveAt(pList[id], k)] /\ pList \in [ClientId -> Seq(Song)]
    BY <1>1 DEF DeleteNode, PlayListTypeOK
  <2>3. pList'[id] = RemoveAt(pList[id], k) /\ \A m \in ClientId \ {id} : pList'[m] = pList[m]
    BY <2>2
  <2> QED BY <2>1, <2>3, NothingMoreElsewhere
<1> QED BY <1>1, NothingMoreSame DEF deleteOneFromListHaving, listVars, NothingMore

\* A song takes another status, but not that one.
LEMMA StatusNothingMore ==
    ASSUME PlayListTypeOK, NEW id \in ClientId, NEW k \in DOMAIN pList[id],
           NEW status, status # "PL_DOWNLOADING",
           pList' = [pList EXCEPT ![id][k].plStatus = status]
    PROVE  NothingMore /\ Downloading(pList'[id]) = Downloading(pList[id]) \ {k}
<1>1. pList[id] \in Seq(Song) /\ \A m \in DOMAIN pList[id] : pList[id][m] \in Song
  BY ListType
<1>2. /\ DOMAIN pList'[id] = DOMAIN pList[id]
      /\ \A m \in DOMAIN pList[id] \ {k} : pList'[id][m] = pList[id][m]
      /\ pList'[id][k].plStatus = status
      /\ \A m \in ClientId \ {id} : pList'[m] = pList[m]
  BY <1>1 DEF PlayListTypeOK, Song
<1>3. Downloading(pList'[id]) = Downloading(pList[id]) \ {k}
  BY <1>2 DEF Downloading
<1>4. \A m \in Downloading(pList'[id]) : pList'[id][m] = pList[id][m]
  BY <1>2, <1>3 DEF Downloading
<1>5. NothingMoreIn(pList[id], pList'[id])
  BY <1>3, <1>4 DEF NothingMoreIn
<1> QED BY <1>2, <1>3, <1>5, NothingMoreElsewhere

LEMMA addToPlayListNothingMore ==
    ASSUME PlayListTypeOK, NEW id \in ClientId, NEW tok \in Token, addToPlayList(id, tok)
    PROVE  NothingMore
<1>1. pList[id] \in Seq(Song) /\ [token |-> tok, plStatus |-> "PL_WAITING"] \in Song
  BY ListType DEF Song, SongStatus
<1>2. /\ Len(pList[id]) \in Nat
      /\ DOMAIN pList[id] = 1 .. Len(pList[id])
      /\ DOMAIN pList'[id] = 1 .. Len(pList[id]) + 1
      /\ \A m \in DOMAIN pList[id] : pList'[id][m] = pList[id][m]
      /\ pList'[id][Len(pList[id]) + 1].plStatus = "PL_WAITING"
      /\ \A m \in ClientId \ {id} : pList'[m] = pList[m]
  BY <1>1, AppendProperties, LenProperties DEF addToPlayList, PlayListTypeOK
<1>3. Downloading(pList'[id]) = Downloading(pList[id])
  BY <1>2 DEF Downloading
<1>4. \A m \in Downloading(pList'[id]) : pList'[id][m] = pList[id][m]
  BY <1>2, <1>3 DEF Downloading
<1>5. NothingMoreIn(pList[id], pList'[id])
  BY <1>3, <1>4 DEF NothingMoreIn
<1> QED BY <1>2, <1>3, <1>5, NothingMoreElsewhere

LEMMA setPlayListStatusNothingMore ==
    ASSUME PlayListTypeOK, NEW id \in ClientId, NEW status \in {"PL_READY", "PL_PLAYING"},
           setPlayListStatus(id, status)
    PROVE  NothingMore
<1>1. CASE UNCHANGED pList
  BY <1>1, NothingMoreSame DEF NothingMore
<1>2. ASSUME NEW k \in DOMAIN pList[id], pList' = [pList EXCEPT ![id][k].plStatus = status]
      PROVE  NothingMore
  <2>1. status # "PL_DOWNLOADING"
    OBVIOUS
  <2> QED BY <1>2, <2>1, StatusNothingMore
<1> QED BY <1>1, <1>2 DEF setPlayListStatus

LEMMA deletePlayingNothingMore ==
    ASSUME PlayListTypeOK, deletePlaying \/ deletePlayingWild PROVE NothingMore
  BY DeleteNothingMore, NothingMoreSame
     DEF deletePlaying, deletePlayingWild, WildPlaying, plVars, NothingMore

LEMMA deregisterClientNothingMore ==
    ASSUME PlayListTypeOK, NEW id \in ClientId, deregisterClient(id)
    PROVE  NothingMore /\ UNCHANGED currentDownloadingClient
<1>1. CASE ~Registered(id)
  BY <1>1, NothingMoreSame DEF deregisterClient, plVars, NothingMore
<1>2. CASE Registered(id)
  <2>1. /\ pList' = [pList EXCEPT ![id] = <<>>] /\ UNCHANGED currentDownloadingClient
        /\ pList \in [ClientId -> Seq(Song)]
    BY <1>2 DEF deregisterClient, deleteFromPlayList, PlayListTypeOK
  <2>2. pList'[id] = <<>> /\ \A m \in ClientId \ {id} : pList'[m] = pList[m]
    BY <2>1
  <2>3. NothingMoreIn(pList[id], pList'[id])
    BY <2>2 DEF NothingMoreIn, Downloading
  <2> QED BY <2>1, <2>2, <2>3, NothingMoreElsewhere
<1> QED BY <1>1, <1>2

\* A list loses the only song that was being downloaded.
LEMMA RemoveAtOnly ==
    ASSUME NEW s \in Seq(Song), NEW k \in DOMAIN s, Downloading(s) \subseteq {k}
    PROVE  Downloading(RemoveAt(s, k)) = {}
<1> DEFINE old(m) == IF m < k THEN m ELSE m + 1
<1>1. /\ Len(s) \in Nat /\ DOMAIN s = 1 .. Len(s) /\ DOMAIN RemoveAt(s, k) = 1 .. Len(s) - 1
      /\ \A m \in DOMAIN RemoveAt(s, k) :
            old(m) \in DOMAIN s /\ RemoveAt(s, k)[m] = s[old(m)] /\ old(m) # k
  BY RemoveAtElements
<1> QED BY <1>1 DEF Downloading

FindsSong ==
    \A id \in ClientId : \A k \in Downloading(pList[id]) :
        /\ id = currentDownloadingClient
        /\ \A m \in Downloading(pList[id]) : m = k
        /\ \E i \in SlotIndex :
              /\ SlotOf(i, id, pList[id][k].token)
              /\ schData[i].status = "PL_DOWNLOADING"

LEMMA FindsSongSame ==
    /\ DeleteDownloadingFindsSong <=> FindsSong
    /\ DeleteDownloadingFindsSong' <=> FindsSong'
  BY DEF DeleteDownloadingFindsSong, FindsSong, Downloading

LEMMA NothingMoreFinds ==
    ASSUME FindsSong, NothingMore, UNCHANGED currentDownloadingClient,
           \A i \in SlotIndex :
               schData[i].status = "PL_DOWNLOADING" => schData'[i] = schData[i]
    PROVE  FindsSong'
<1> SUFFICES ASSUME NEW id \in ClientId, NEW k \in Downloading(pList[id])'
             PROVE  /\ id = currentDownloadingClient
                    /\ \A m \in Downloading(pList[id])' : m = k
                    /\ \E i \in SlotIndex :
                          /\ SlotOf(i, id, pList[id][k].token)'
                          /\ schData'[i].status = "PL_DOWNLOADING"
  BY DEF FindsSong
<1>1. k \in Downloading(pList'[id]) /\ Downloading(pList[id])' = Downloading(pList'[id])
  BY DEF Downloading
<1>2. PICK m \in Downloading(pList[id]) : pList'[id][k].token = pList[id][m].token
  BY <1>1 DEF NothingMore, NothingMoreIn
<1>3. id = currentDownloadingClient /\ \A n \in Downloading(pList[id]) : n = m
  BY <1>2 DEF FindsSong
<1>4. \A n \in Downloading(pList[id])' : n = k
  BY <1>1, <1>3 DEF NothingMore, NothingMoreIn
<1>5. PICK i \in SlotIndex :
         SlotOf(i, id, pList[id][m].token) /\ schData[i].status = "PL_DOWNLOADING"
  BY <1>2 DEF FindsSong
<1>6. schData'[i] = schData[i]
  BY <1>5
<1> QED BY <1>2, <1>3, <1>4, <1>5, <1>6 DEF SlotOf

\* No step but the scheduler's adds a song that is being downloaded or turns to
\* another client.
LEMMA StepNothingMore ==
    ASSUME TypeOK, [Next]_vars
    PROVE  callSchedular \/ (NothingMore /\ UNCHANGED currentDownloadingClient)
<1>1. PlayListTypeOK /\ RmTypeOK /\ DbTypeOK
  BY TypeParts DEF TypeOK
<1>2. UNCHANGED plVars => NothingMore /\ UNCHANGED currentDownloadingClient
  BY NothingMoreSame DEF plVars, NothingMore
<1>3. CASE SlotsUntouched
  BY <1>2, <1>3 DEF SlotsUntouched, StartJukeBox, TakeMessage, ServJukeBoxDone, ServJukeBoxStop,
         ServMplayerResponseWild, callSchedularWild, Crash,
         RunNothing, RunCallSchedular, moveToIdle, moveToDownloading,
         moveToPlayingNotReady, moveToPlayingDownloaded, moveToPlayingScheduleNext,
         callSchedularNoClient, MoveTo, PlayerJob, playSongOpens, playSongEnds, downloadEnds, vars
<1>4. CASE ServRegister \/ ServRefused \/ NotifyEnds \/ NotifySendFails
           \/ \E msg \in ClientMsg : handleClient(msg)
  BY <1>2, <1>4 DEF ServRegister, takeSlot, ServRefused, NotifyEnds, NotifySendFails, Crash,
                    handleClient
<1>5. CASE ServAdd
  BY <1>1, <1>5, MessageTypes, addToPlayListNothingMore
     DEF ServAdd, addToQueue, addToPlayList
<1>6. CASE ServDelete
  <2>1. rmMsg.data.clntId \in ClientId
    BY <1>1, <1>6, MessageTypes DEF ServDelete
  <2>2. CASE deleteFromClientHavingToken(rmMsg.data.clntId, rmMsg.data.token)
    BY <1>1, <2>1, <2>2, DeleteNothingMore DEF deleteFromClientHavingToken
  <2> QED BY <1>2, <1>6, <2>2 DEF ServDelete, deleteFromQueue
<1>7. ASSUME NEW id \in ClientId, deregisterClient(id)
      PROVE  NothingMore /\ UNCHANGED currentDownloadingClient
  BY <1>1, <1>7, deregisterClientNothingMore
<1>8. CASE ServRegisterAgain \/ ServDeregister \/ NotifyConnectFails
  BY <1>1, <1>7, <1>8, MessageTypes
     DEF ServRegisterAgain, endOldSession, ServDeregister, NotifyConnectFails, RmTypeOK
<1>10. CASE SendAllJobs
  BY <1>2, <1>10 DEF SendAllJobs, sendAllEnds, sendAllRunsOut, sendAllSendFails, Crash
<1>11. CASE handleDownloadComplete
  <2>1. rmMsg.data.clntId \in ClientId
    BY <1>1, <1>11, MessageTypes DEF handleDownloadComplete, Serving, DownloadMsgId, Request
  <2>2. ASSUME setPlayListStatus(rmMsg.data.clntId, "PL_READY")
        PROVE  NothingMore /\ UNCHANGED currentDownloadingClient
    BY <1>1, <2>1, <2>2, setPlayListStatusNothingMore DEF setPlayListStatus
  <2> QED BY <1>2, <1>11, <2>2 DEF handleDownloadComplete, downloadReady, NothingToServe
<1>12. CASE handleDownloadError
  <2>1. ASSUME deleteDownloading PROVE NothingMore /\ UNCHANGED currentDownloadingClient
    BY <1>1, <2>1, DeleteNothingMore DEF deleteDownloading
  <2> QED BY <1>2, <1>12, <2>1 DEF handleDownloadError, downloadFailed, NothingToServe
<1>13. CASE ServMplayerResponse
  <2>1. ASSUME deletePlaying \/ deletePlayingWild
        PROVE  NothingMore /\ UNCHANGED currentDownloadingClient
    BY <1>1, <2>1, deletePlayingNothingMore DEF deletePlaying, deletePlayingWild, plVars
  <2> QED BY <1>2, <1>13, <2>1 DEF ServMplayerResponse, setPlayingStatus
<1>14. CASE moveToPlaying
  <2>1. PICK i \in SlotIndex : setPlayListStatus(schData[i].clientId, "PL_PLAYING")
    BY <1>14 DEF moveToPlaying, getRequestForPlaying
  <2>2. schData[i].clientId \in ClientId
    BY <1>1, SlotStatusType DEF DbTypeOK, Slot
  <2> QED BY <1>1, <2>1, <2>2, setPlayListStatusNothingMore DEF setPlayListStatus
<1> QED BY <1>3, <1>4, <1>5, <1>6, <1>8, <1>10, <1>11, <1>12, <1>13, <1>14, NextCases
        DEF ClientStep, SlotStep

\* The answer ends the only download, so no song is left that is being downloaded.
LEMMA handleDownloadFinds ==
    ASSUME SlotInv, FindsSong, handleDownloadComplete \/ handleDownloadError
    PROVE  FindsSong'
<1>1. TypeOK /\ PlayListTypeOK /\ pList \in [ClientId -> Seq(Song)]
  BY DEF SlotInv, DownloadInv, TypeOK, PlayListTypeOK
<1>2. PICK i \in SlotIndex :
         /\ DownloadSlot(i, rmMsg.data)
         /\ \A k \in SlotIndex : schData[k].status = "PL_DOWNLOADING" => k = i
         /\ \/ handleDownloadComplete /\ downloadReady(i, rmMsg.data.clntId)
            \/ handleDownloadError /\ downloadFailed(i)
  BY handleDownloadParts
<1> DEFINE c == rmMsg.data.clntId
<1>3. c \in ClientId /\ schData[i].clientId = c
  BY <1>1, <1>2, TypeParts, MessageTypes
     DEF handleDownloadComplete, handleDownloadError, Serving, DownloadMsgId, Request,
         DownloadSlot, SlotOf
<1>4. \A id \in ClientId : Downloading(pList[id]) # {} => id = c /\ id = currentDownloadingClient
  BY <1>2, <1>3 DEF FindsSong, SlotOf
<1>5. \A k, m \in Downloading(pList[c]) : k = m
  BY <1>3 DEF FindsSong
<1> HIDE DEF c
<1>6. ASSUME \A id \in ClientId : Downloading(pList'[id]) = {} PROVE FindsSong'
  BY <1>6 DEF FindsSong, Downloading
<1>7. ASSUME UNCHANGED pList, Downloading(pList[c]) = {} PROVE FindsSong'
  BY <1>4, <1>6, <1>7
<1>8. CASE downloadReady(i, c)
  <2>1. CASE NoneHaving(c, "plStatus", "PL_DOWNLOADING") /\ UNCHANGED pList
    BY <1>7, <2>1 DEF NoneHaving, Downloading
  <2>2. ASSUME NEW k \in DOMAIN pList[c], FirstHaving(c, k, "plStatus", "PL_DOWNLOADING"),
               pList' = [pList EXCEPT ![c][k].plStatus = "PL_READY"]
        PROVE  FindsSong'
    <3>1. Downloading(pList'[c]) = Downloading(pList[c]) \ {k} /\ k \in Downloading(pList[c])
      BY <1>1, <1>3, <2>2, StatusNothingMore DEF FirstHaving, Downloading
    <3>2. \A id \in ClientId \ {c} : pList'[id] = pList[id]
      BY <1>1, <2>2
    <3> QED BY <1>4, <1>5, <1>6, <3>1, <3>2
  <2> QED BY <1>8, <2>1, <2>2 DEF downloadReady, setPlayListStatus
<1>9. CASE downloadFailed(i)
  <2>1. deleteDownloading
    BY <1>9 DEF downloadFailed
  <2>2. CASE currentDownloadingClient # c
    <3>1. \A id \in ClientId : Downloading(pList[id]) = {}
      BY <1>4, <2>2
    <3>2. NothingMore
      BY <1>1, <2>1, DeleteNothingMore DEF deleteDownloading
    <3> QED BY <1>6, <3>1, <3>2 DEF NothingMore, NothingMoreIn
  <2>3. CASE currentDownloadingClient = c
    <3>1. CASE NoneHaving(c, "plStatus", "PL_DOWNLOADING") /\ UNCHANGED pList
      BY <1>7, <3>1 DEF NoneHaving, Downloading
    <3>2. ASSUME NEW k \in DOMAIN pList[c], FirstHaving(c, k, "plStatus", "PL_DOWNLOADING"),
                 DeleteNode(c, k)
          PROVE  FindsSong'
      <4>1. Downloading(pList[c]) \subseteq {k}
        BY <1>5, <3>2 DEF FirstHaving, Downloading
      <4>2. Downloading(RemoveAt(pList[c], k)) = {}
        BY <1>1, <1>3, <3>2, <4>1, RemoveAtOnly
      <4>3. pList'[c] = RemoveAt(pList[c], k) /\ \A id \in ClientId \ {c} : pList'[id] = pList[id]
        BY <1>1, <1>3, <3>2 DEF DeleteNode
      <4> QED BY <1>4, <1>6, <4>2, <4>3
    <3> QED BY <2>1, <2>3, <3>1, <3>2 DEF deleteDownloading, deleteOneFromListHaving, listVars
  <2> QED BY <2>2, <2>3
<1> QED BY <1>2, <1>8, <1>9 DEF c

LEMMA callSchedularFinds ==
    ASSUME SlotInv, FindsSong, callSchedular PROVE FindsSong'
<1>1. TypeOK /\ PlayListTypeOK /\ schData \in [SlotIndex -> Slot] /\ scheduleIndex \in SlotIndex
  BY DEF SlotInv, DownloadInv, TypeOK, ClientDbTypeOK
<1>2. \A id \in ClientId : Downloading(pList[id]) = {}
  BY callSchedularParts DEF FindsSong, NoSlot
<1>3. PICK request \in Request, k \in 1 .. 2 :
         /\ getRequestForDownloading(request)
         /\ getOneForDownloading(request.clntId, k)
         /\ request.requestId = pList[request.clntId][k].token
  BY DEF callSchedular, getRequestForDownloading
<1> DEFINE c == request.clntId
<1>4. c \in ClientId
  BY DEF Request
<1>5. k \in DOMAIN pList[c] /\ \A m \in DOMAIN pList[c] : pList[c][m] \in Song
  BY <1>1, <1>3, <1>4, ScheduledType, ListType DEF getOneForDownloading
<1>6. /\ currentDownloadingClient' = c
      /\ pList' = [pList EXCEPT ![c][k].plStatus = "PL_DOWNLOADING"]
      /\ pList \in [ClientId -> Seq(Song)]
      /\ schData' = [schData EXCEPT ![scheduleIndex] =
                        [clientId |-> c, reqToken |-> request.requestId,
                         status |-> "PL_DOWNLOADING"]]
  BY <1>1, <1>3 DEF getOneForDownloading, getRequestForDownloading, PlayListTypeOK
<1>7. pList[c] \in Seq(Song)
  BY <1>1, <1>4, ListType
<1>8. /\ \A id \in ClientId \ {c} : pList'[id] = pList[id]
      /\ DOMAIN pList'[c] = DOMAIN pList[c]
      /\ \A m \in DOMAIN pList[c] \ {k} : pList'[c][m] = pList[c][m]
      /\ pList'[c][k].token = pList[c][k].token
  BY <1>4, <1>5, <1>6, <1>7 DEF Song
<1>9. Downloading(pList'[c]) \subseteq {k}
  BY <1>2, <1>4, <1>8 DEF Downloading
<1>10. \E i \in SlotIndex :
          SlotOf(i, c, pList[c][k].token)' /\ schData'[i].status = "PL_DOWNLOADING"
  <2>1. schData'[scheduleIndex] = [clientId |-> c, reqToken |-> request.requestId,
                                   status |-> "PL_DOWNLOADING"]
    BY <1>1, <1>6
  <2>2. pList'[c][k].token = request.requestId
    BY <1>3, <1>8
  <2> QED BY <1>1, <2>1, <2>2 DEF SlotOf
<1> QED BY <1>2, <1>6, <1>8, <1>9, <1>10 DEF FindsSong, Downloading

LEMMA NextFinds == ASSUME SlotInv, FindsSong, [Next]_vars PROVE FindsSong'
<1>1. TypeOK /\ schData \in [SlotIndex -> Slot]
  BY DEF SlotInv, DownloadInv, TypeOK, ClientDbTypeOK
<1>2. CASE callSchedular \/ handleDownloadComplete \/ handleDownloadError
  BY <1>2, callSchedularFinds, handleDownloadFinds
<1>3. CASE ~(callSchedular \/ handleDownloadComplete \/ handleDownloadError)
  <2>1. NothingMore /\ UNCHANGED currentDownloadingClient
    BY <1>1, <1>3, StepNothingMore
  <2>2. ASSUME OnlyReadyDropped PROVE FindsSong'
    BY <2>1, <2>2, NothingMoreFinds DEF OnlyReadyDropped
  <2>3. CASE ServMplayerResponse \/ moveToPlaying
    BY <1>1, <2>1, <2>3, NothingMoreFinds
       DEF ServMplayerResponse, setPlayingStatus, moveToPlaying, getRequestForPlaying,
           FirstSlot, cdbVars
  <2> QED BY <1>1, <1>3, <2>2, <2>3, NextCases, ClientStepDrops, SlotsUntouchedStep
          DEF SlotStep, OnlyReadyDropped
<1> QED BY <1>2, <1>3

\* "Need to make it token based otherwise problem may happen" (playlist.h:43) of
\* deleteDownloading: none does as long as no worker drops a client.  Whatever lists are emptied or shortened in between, the
\* first song being downloaded of the client last scheduled is the only one there is, and
\* the slot of the download is its own.
THEOREM DeleteDownloadingIsRight == Spec => []DeleteDownloadingFindsSong
<1>1. Init => SlotInv /\ FindsSong
  <2>1. Init => FindsSong
    BY DEF Init, initPlayList, FindsSong, Downloading
  <2> QED BY <2>1, InitSlots
<1>2. SlotInv /\ FindsSong /\ [Next]_vars => SlotInv' /\ FindsSong'
  BY NextSlots, NextFinds
<1>3. FindsSong => DeleteDownloadingFindsSong
  BY FindsSongSame
<1> QED BY <1>1, <1>2, <1>3, PTL DEF Spec
==============================================================================
