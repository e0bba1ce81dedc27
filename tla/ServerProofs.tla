----------------------------- MODULE ServerProofs -----------------------------
(***************************************************************************)
(* The clients, the player and the scheduler behind the resource manager,  *)
(* for every value of the constants: connections of the resource manager   *)
(* may fail at any time, the player may end its songs in any order, and    *)
(* messages wait for any time.  No worker drops a client (ResourceManager; *)
(* Dropping and ClientTable are about those).                              *)
(***************************************************************************)
EXTENDS SlotProofs, FiniteSetTheorems

-----------------------------------------------------------------------------
(* The clients.                                                             *)

\* Two clients cannot share an address that is not 0, and a client has no other.
ClientInv ==
    /\ TypeOK
    /\ ClientsAreSeparate
    /\ \A id \in ClientId : Registered(id) => clientIP[id] # NoIP

LEMMA ClientsUnchanged ==
    ASSUME ClientInv, TypeOK', UNCHANGED clientIP,
           \A id \in ClientId : Registered(id)' <=> Registered(id),
           \A id \in ClientId : pList[id] = <<>> => pList'[id] = <<>>
    PROVE  ClientInv'
  BY DEF ClientInv, ClientsAreSeparate

LEMMA deregisterClientSeparate ==
    ASSUME ClientInv, TypeOK', NEW id \in ClientId, deregisterClient(id)
    PROVE  ClientInv'
<1>1. CASE ~Registered(id)
  BY <1>1, ClientsUnchanged DEF deregisterClient, cdbVars, plVars, Registered
<1>2. CASE Registered(id)
  <2>1. /\ clientState' = [clientState EXCEPT ![id] = "clnt_unregister_state"]
        /\ clientIP' = [clientIP EXCEPT ![id] = NoIP]
        /\ pList' = [pList EXCEPT ![id] = <<>>]
        /\ clientState \in [ClientId -> ClientState]
        /\ clientIP \in [ClientId -> Host \cup {NoIP}]
        /\ pList \in [ClientId -> Seq(Song)]
    BY <1>2 DEF deregisterClient, deleteFromPlayList, ClientInv, TypeOK, ClientDbTypeOK,
                PlayListTypeOK
  <2>2. /\ ~Registered(id)' /\ clientIP'[id] = NoIP /\ pList'[id] = <<>>
        /\ \A k \in ClientId \ {id} :
              /\ Registered(k)' <=> Registered(k)
              /\ clientIP'[k] = clientIP[k] /\ pList'[k] = pList[k]
    BY <2>1 DEF Registered
  <2> QED BY <2>2 DEF ClientInv, ClientsAreSeparate
<1> QED BY <1>1, <1>2

LEMMA takeSlotSeparate ==
    ASSUME ClientInv, TypeOK', NEW id \in ClientId, NEW host \in Host, takeSlot(id, host)
    PROVE  ClientInv'
<1>1. /\ clientState' = [clientState EXCEPT ![id] = "clnt_registered_state"]
      /\ clientIP' = [clientIP EXCEPT ![id] = host]
      /\ UNCHANGED pList
      /\ \A k \in ClientId : clientIP[k] # host
      /\ clientState \in [ClientId -> ClientState]
      /\ clientIP \in [ClientId -> Host \cup {NoIP}]
      /\ host # NoIP
  BY ClientDbAssumption DEF takeSlot, plVars, ClientInv, TypeOK, ClientDbTypeOK
<1>2. /\ Registered(id)' /\ clientIP'[id] = host
      /\ \A k \in ClientId \ {id} :
            (Registered(k)' <=> Registered(k)) /\ clientIP'[k] = clientIP[k]
  BY <1>1 DEF Registered
<1> QED BY <1>1, <1>2 DEF ClientInv, ClientsAreSeparate

\* Nothing is ever added to an empty list, but a song of a registered client.
LEMMA EmptyKept ==
    ASSUME PlayListTypeOK, NEW id \in ClientId, pList[id] = <<>>,
           \/ \E c \in ClientId : \E field, value : deleteOneFromListHaving(c, field, value)
           \/ \E c \in ClientId : \E status : setPlayListStatus(c, status)
           \/ \E c \in ClientId : \E k : getOneForDownloading(c, k)
    PROVE  pList'[id] = <<>>
<1>1. DOMAIN pList[id] = {} /\ pList \in [ClientId -> Seq(Song)]
  BY DEF PlayListTypeOK
<1>2. ASSUME NEW c \in ClientId, NEW k \in DOMAIN pList[c],
             \/ DeleteNode(c, k)
             \/ \E status : pList' = [pList EXCEPT ![c][k].plStatus = status]
      PROVE  pList'[id] = <<>>
  <2>1. c # id
    BY <1>1, <1>2
  <2> QED BY <1>1, <1>2, <2>1 DEF DeleteNode
<1>3. ASSUME NEW c \in ClientId, NEW k, getOneForDownloading(c, k) PROVE pList'[id] = <<>>
  <2>1. k \in DOMAIN pList[c]
    BY <1>3, ScheduledType DEF getOneForDownloading
  <2> QED BY <1>2, <1>3, <2>1 DEF getOneForDownloading
<1>4. ASSUME NEW c \in ClientId, NEW status, setPlayListStatus(c, status) PROVE pList'[id] = <<>>
  <2>1. UNCHANGED pList \/ \E k \in DOMAIN pList[c] : pList' = [pList EXCEPT ![c][k].plStatus = status]
    BY <1>4 DEF setPlayListStatus
  <2> QED BY <1>2, <2>1
<1>5. ASSUME NEW c \in ClientId, NEW field, NEW value, deleteOneFromListHaving(c, field, value)
      PROVE  pList'[id] = <<>>
  BY <1>2, <1>5 DEF deleteOneFromListHaving, listVars
<1> QED BY <1>3, <1>4, <1>5

LEMMA NextClients == ClientInv /\ [Next]_vars => ClientInv'
<1> SUFFICES ASSUME ClientInv, [Next]_vars PROVE ClientInv'
  OBVIOUS
<1>1. TypeOK /\ TypeOK' /\ PlayListTypeOK /\ DbTypeOK /\ RmTypeOK
  BY NextType, TypeParts DEF ClientInv, TypeOK
<1>2. UNCHANGED <<clientIP, clientState>> =>
         UNCHANGED clientIP /\ \A id \in ClientId : Registered(id)' <=> Registered(id)
  BY DEF Registered
<1>3. UNCHANGED <<clientIP, clientState, pList>> => ClientInv'
  BY <1>1, <1>2, ClientsUnchanged
<1>4. ASSUME UNCHANGED <<clientIP, clientState>>,
             \/ \E c \in ClientId : \E field, value : deleteOneFromListHaving(c, field, value)
             \/ \E c \in ClientId : \E status : setPlayListStatus(c, status)
             \/ \E c \in ClientId : \E k : getOneForDownloading(c, k)
      PROVE  ClientInv'
  BY <1>1, <1>2, <1>4, EmptyKept, ClientsUnchanged
<1>5. CASE SlotsUntouched
  BY <1>3, <1>5 DEF SlotsUntouched, StartJukeBox, TakeMessage, ServJukeBoxDone, ServJukeBoxStop,
         ServMplayerResponseWild, callSchedularWild, Crash,
         RunNothing, RunCallSchedular, moveToIdle, moveToDownloading,
         moveToPlayingNotReady, moveToPlayingDownloaded, moveToPlayingScheduleNext,
         callSchedularNoClient, MoveTo, PlayerJob, playSongOpens, playSongEnds, downloadEnds, vars,
         plVars, cdbVars
<1>6. CASE ServRefused \/ NotifyEnds \/ NotifySendFails
           \/ \E msg \in ClientMsg : handleClient(msg)
  BY <1>3, <1>6 DEF ServRefused, NotifyEnds, NotifySendFails, Crash, handleClient,
                    plVars, cdbVars
<1>7. CASE ServRegister
  BY <1>1, <1>7, MessageTypes, takeSlotSeparate DEF ServRegister
<1>8. CASE ServAdd
  <2>1. /\ rmMsg.data.clntId \in ClientId
        /\ Registered(rmMsg.data.clntId)
        /\ addToPlayList(rmMsg.data.clntId, rmMsg.data.token)
        /\ UNCHANGED <<clientState, clientIP>>
    BY <1>1, <1>8, MessageTypes DEF ServAdd, addToQueue
  <2>2. \A k \in ClientId \ {rmMsg.data.clntId} : pList'[k] = pList[k]
    BY <1>1, <2>1 DEF addToPlayList, PlayListTypeOK
  <2> QED BY <1>1, <1>2, <2>1, <2>2 DEF ClientInv, ClientsAreSeparate
<1>9. CASE ServDelete
  BY <1>1, <1>3, <1>4, <1>9, MessageTypes
     DEF ServDelete, deleteFromQueue, deleteFromClientHavingToken, plVars
<1>10. CASE ServRegisterAgain \/ ServDeregister \/ NotifyConnectFails
  BY <1>1, <1>10, MessageTypes, deregisterClientSeparate
     DEF ServRegisterAgain, endOldSession, ServDeregister, NotifyConnectFails, RmTypeOK
<1>12. CASE SendAllJobs
  BY <1>1, <1>3, <1>12
     DEF SendAllJobs, sendAllEnds,
         sendAllRunsOut, sendAllSendFails, Crash, plVars, cdbVars
<1>13. CASE handleDownloadComplete
  <2>1. rmMsg.data.clntId \in ClientId
    BY <1>1, <1>13, MessageTypes DEF handleDownloadComplete, Serving, DownloadMsgId, Request
  <2> QED BY <1>3, <1>4, <1>13, <2>1
          DEF handleDownloadComplete, downloadReady, NothingToServe, plVars, cdbVars
<1>14. CASE handleDownloadError
  BY <1>3, <1>4, <1>14
     DEF handleDownloadError, downloadFailed, deleteDownloading, NothingToServe, plVars, cdbVars
<1>15. CASE ServMplayerResponse
  <2>1. CASE NoSlot("PL_PLAYING")
    BY <1>3, <1>15, <2>1 DEF ServMplayerResponse, plVars, cdbVars
  <2>2. CASE ~NoSlot("PL_PLAYING")
    <3>1. PICK i \in SlotIndex : setPlayingStatus(i)
      BY <1>15, <2>2 DEF ServMplayerResponse
    <3>2. UNCHANGED clientIP /\ \A id \in ClientId : Registered(id)' <=> Registered(id)
      BY <1>1, <3>1 DEF setPlayingStatus, Registered, DbTypeOK, ClientDbTypeOK
    <3>3. \A id \in ClientId : pList[id] = <<>> => pList'[id] = <<>>
      <4>1. CASE deletePlaying
        BY <1>1, <4>1, EmptyKept DEF deletePlaying, WildPlaying
      <4> QED BY <3>1, <4>1 DEF setPlayingStatus, deletePlayingWild, plVars
    <3> QED BY <1>1, <3>2, <3>3, ClientsUnchanged
  <2> QED BY <2>1, <2>2
<1>16. CASE moveToPlaying
  <2>1. PICK i \in SlotIndex : getRequestForPlaying(i)
    BY <1>16 DEF moveToPlaying
  <2>2. schData[i].clientId \in ClientId /\ setPlayListStatus(schData[i].clientId, "PL_PLAYING")
    BY <1>1, <2>1, SlotStatusType DEF getRequestForPlaying, DbTypeOK, Slot
  <2>3. UNCHANGED clientIP /\ \A id \in ClientId : Registered(id)' <=> Registered(id)
    BY <1>1, <2>1 DEF getRequestForPlaying, Registered, DbTypeOK, ClientDbTypeOK
  <2>4. \A id \in ClientId : pList[id] = <<>> => pList'[id] = <<>>
    BY <1>1, <2>2, EmptyKept
  <2> QED BY <1>1, <2>3, <2>4, ClientsUnchanged
<1>17. CASE callSchedular
  BY <1>4, <1>17 DEF callSchedular, getRequestForDownloading, Request
<1> QED BY <1>5, <1>6, <1>7, <1>8, <1>9, <1>10, <1>12, <1>13, <1>14, <1>15, <1>16, <1>17,
           NextCases DEF ClientStep, SlotStep

\* For whatever reason the resource manager drops a client (clientdb.c:106-117, 157-161),
\* and however often, its slot has no address and no songs before the next client gets it,
\* and no two clients have the same address, so that the session of an address is found.
\* Of the addresses it is true even of clients dropped by workers (AddressesAreUnique).
THEOREM ClientsStaySeparate == Spec => []ClientsAreSeparate
<1>1. Init => ClientInv
  BY InitType DEF Init, initClientDb, initPlayList, ClientInv, ClientsAreSeparate, Registered
<1>2. ClientInv => ClientsAreSeparate
  BY DEF ClientInv
<1> QED BY <1>1, <1>2, NextClients, PTL DEF Spec

-----------------------------------------------------------------------------
(* How many messages of a kind are queued.                                  *)

LEMMA QueuedCounted ==
    ASSUME TypeOK, NEW msgIds
    PROVE  IsFiniteSet(QueuedMsgs(msgIds)) /\ Cardinality(QueuedMsgs(msgIds)) \in Nat
<1>1. DOMAIN rmQueue = 1 .. Len(rmQueue) /\ Len(rmQueue) \in Nat
  BY LenProperties DEF TypeOK
<1>2. IsFiniteSet(DOMAIN rmQueue)
  BY <1>1, FS_Interval
<1> QED BY <1>2, FS_Subset, FS_CardinalityType DEF QueuedMsgs

LEMMA QueuedPost ==
    ASSUME TypeOK, NEW msgIds, NEW msg \in RmMsg, Post(msg)
    PROVE  Cardinality(QueuedMsgs(msgIds)') =
              Cardinality(QueuedMsgs(msgIds)) + IF msg.msgId \in msgIds THEN 1 ELSE 0
<1>1. /\ Len(rmQueue) \in Nat
      /\ DOMAIN rmQueue = 1 .. Len(rmQueue)
      /\ DOMAIN rmQueue' = 1 .. Len(rmQueue) + 1
      /\ \A k \in DOMAIN rmQueue : rmQueue'[k] = rmQueue[k]
      /\ rmQueue'[Len(rmQueue) + 1] = msg
  BY AppendProperties, LenProperties DEF TypeOK, Post
<1>2. IsFiniteSet(QueuedMsgs(msgIds)) /\ Cardinality(QueuedMsgs(msgIds)) \in Nat
  BY QueuedCounted
<1>3. CASE msg.msgId \in msgIds
  <2>1. QueuedMsgs(msgIds)' = QueuedMsgs(msgIds) \cup {Len(rmQueue) + 1}
    BY <1>1, <1>3 DEF QueuedMsgs
  <2>2. Len(rmQueue) + 1 \notin QueuedMsgs(msgIds)
    BY <1>1 DEF QueuedMsgs
  <2> QED BY <1>2, <1>3, <2>1, <2>2, FS_AddElement
<1>4. CASE msg.msgId \notin msgIds
  <2>1. QueuedMsgs(msgIds)' = QueuedMsgs(msgIds)
    BY <1>1, <1>4 DEF QueuedMsgs
  <2> QED BY <1>2, <1>4, <2>1
<1> QED BY <1>3, <1>4

LEMMA QueuedTake ==
    ASSUME TypeOK, NEW msgIds, TakeMessage
    PROVE  /\ Cardinality(QueuedMsgs(msgIds)) =
                 Cardinality(QueuedMsgs(msgIds)') + IF rmMsg'.msgId \in msgIds THEN 1 ELSE 0
           /\ Cardinality(QueuedMsgs(msgIds)') \in Nat
<1> DEFINE rest == QueuedMsgs(msgIds) \ {1}
           next == QueuedMsgs(msgIds)'
           f == [k \in next |-> k + 1]
<1>1. /\ rmQueue \in Seq(RmMsg) /\ rmQueue # <<>>
      /\ rmMsg' = Head(rmQueue) /\ rmQueue' = Tail(rmQueue)
  BY DEF TakeMessage, TypeOK
<1>2. /\ Len(rmQueue) \in Nat
      /\ Len(rmQueue) >= 1
      /\ DOMAIN rmQueue = 1 .. Len(rmQueue)
      /\ rmMsg' = rmQueue[1]
      /\ DOMAIN rmQueue' = 1 .. Len(rmQueue) - 1
      /\ \A k \in DOMAIN rmQueue' : rmQueue'[k] = rmQueue[k + 1]
  BY <1>1, HeadTailProperties, LenProperties, EmptySeq
<1>3. TypeOK' /\ IsFiniteSet(next) /\ Cardinality(next) \in Nat
  <2>1. TypeOK'
    BY TakeMessageType
  <2>2. IsFiniteSet(DOMAIN rmQueue')
    BY <1>2, FS_Interval
  <2> QED BY <2>1, <2>2, FS_Subset, FS_CardinalityType DEF QueuedMsgs
<1>4. \A k \in next : k \in Int /\ k + 1 \in rest
  BY <1>2 DEF QueuedMsgs
<1>5. \A m \in rest : m \in Int /\ m - 1 \in next
  BY <1>2 DEF QueuedMsgs
<1>6. Cardinality(rest) = Cardinality(next)
  <2> HIDE DEF rest, next
  <2>1. f \in Bijection(next, rest)
    <3>1. f \in [next -> rest]
      BY <1>4
    <3>2. \A a, b \in next : f[a] = f[b] => a = b
      BY <1>4
    <3>3. \A m \in rest : \E k \in next : f[k] = m
      <4> SUFFICES ASSUME NEW m \in rest PROVE f[m - 1] = m /\ m - 1 \in next
        OBVIOUS
      <4> QED BY <1>5
    <3> QED BY <3>1, <3>2, <3>3 DEF Bijection, Injection, Surjection, IsInjective
  <2> QED BY <1>3, <2>1, FS_Bijection DEF ExistsBijection
<1>7. IsFiniteSet(QueuedMsgs(msgIds)) /\ Cardinality(QueuedMsgs(msgIds)) \in Nat
  BY QueuedCounted
<1>8. 1 \in QueuedMsgs(msgIds) <=> rmMsg'.msgId \in msgIds
  BY <1>2 DEF QueuedMsgs
<1>9. Cardinality(rest) = Cardinality(QueuedMsgs(msgIds)) - IF rmMsg'.msgId \in msgIds THEN 1 ELSE 0
  <2> DEFINE queued == QueuedMsgs(msgIds)
  <2>1. IsFiniteSet(queued) /\ Cardinality(queued) \in Nat /\ (1 \in queued <=> rmMsg'.msgId \in msgIds)
    BY <1>7, <1>8
  <2> HIDE DEF queued
  <2>2. Cardinality(queued \ {1}) = IF 1 \in queued THEN Cardinality(queued) - 1 ELSE Cardinality(queued)
    BY <2>1, FS_RemoveElement
  <2>3. Cardinality(queued \ {1}) = Cardinality(queued) - IF rmMsg'.msgId \in msgIds THEN 1 ELSE 0
    BY <2>1, <2>2
  <2> QED BY <2>3 DEF queued
<1> HIDE DEF rest
<1> QED BY <1>3, <1>6, <1>7, <1>9

-----------------------------------------------------------------------------
(* The player.                                                              *)

\* The jukebox is not active before it is started, nor once a message of the player has
\* been taken for the state machine's.
PlayerInv ==
    /\ TypeOK
    /\ PlayerBalance
    /\ rmPc = "start" => ~isActive
    /\ Served(PlayerMsgId) => ~isActive

Queued == Cardinality(QueuedMsgs(PlayerMsgId))

Count(b) == IF b THEN 1 ELSE 0

Songs == playJobs + players + Queued + Count(InHand(PlayerMsgId))

Expected == Count(isActive) + Count(InPlaying)

\* PlayerInv, with the terms of the sums named.
PlayerParts ==
    /\ Songs <= Expected
    /\ StopClearsActive => Songs = Expected
    /\ rmPc = "start" => ~isActive
    /\ Served(PlayerMsgId) => ~isActive

LEMMA CountType == \A b : Count(b) \in {0, 1}
  BY DEF Count

LEMMA PlayerInvParts ==
    /\ PlayerInv <=> TypeOK /\ PlayerParts
    /\ PlayerInv' <=> TypeOK' /\ PlayerParts'
  BY DEF PlayerInv, PlayerParts, PlayerBalance, SongsInPlayer, Songs, Expected,
         Queued, Count

LEMMA PlayerTypes ==
    ASSUME TypeOK
    PROVE  /\ playJobs \in Nat /\ players \in Nat /\ Queued \in Nat
           /\ isActive \in BOOLEAN
           /\ rmState \in RmState
           /\ StopClearsActive \in BOOLEAN
  BY QueuedCounted, ResourceManagerAssumption DEF TypeOK, PlayerTypeOK, Queued

LEMMA QueuedSame == ASSUME UNCHANGED rmQueue PROVE Queued' = Queued
  BY DEF Queued, QueuedMsgs

LEMMA PlayerUnchanged ==
    ASSUME PlayerParts, UNCHANGED <<playJobs, players, isActive>>, Queued' = Queued,
           InHand(PlayerMsgId)' <=> InHand(PlayerMsgId), InPlaying' <=> InPlaying,
           rmPc' = "start" => rmPc = "start",
           Served(PlayerMsgId)' => Served(PlayerMsgId) \/ ~isActive
    PROVE  PlayerParts'
  BY DEF PlayerParts, Songs, Expected, Count

\* What clients ask for and what becomes of the connections to them is nothing to it.
LEMMA ClientStepPlayer == ASSUME PlayerInv, ClientStep PROVE PlayerParts'
<1>1. TypeOK /\ RmTypeOK /\ PlayerParts
  BY PlayerInvParts, TypeParts
<1>2. UNCHANGED <<playJobs, players, isActive, rmState, rmMsg>>
  BY DEF ClientStep, ServRegisterAgain, endOldSession, ServRegister, takeSlot, ServAdd, addToQueue,
         ServDeregister, ServDelete, deleteFromQueue, ServRefused, RmUnchanged,
         NotifyEnds, NotifyConnectFails, NotifySendFails, handleClient, JobUnchanged,
         SendAllJobs, sendAllEnds,
         sendAllRunsOut, sendAllSendFails, Crash, deregisterClient, mpVars
<1>3. Queued' = Queued
  <2>1. ASSUME NEW msg \in ClientMsg, handleClient(msg) PROVE Queued' = Queued
    <3>1. /\ [msgId |-> "rm_clntMsg_m", data |-> msg] \in RmMsg
          /\ [msgId |-> "rm_clntMsg_m", data |-> msg].msgId \notin PlayerMsgId
      BY DEF RmMsg, PlayerMsgId
    <3>2. Queued' = Queued + 0
      BY <1>1, <2>1, <3>1, QueuedPost DEF handleClient, Queued
    <3> QED BY <1>1, <3>2, PlayerTypes
  <2>2. CASE ~\E msg \in ClientMsg : handleClient(msg)
    <3>1. UNCHANGED rmQueue
      BY <2>2 DEF ClientStep, ServRegisterAgain, ServRegister, ServAdd, ServDeregister, ServDelete,
         ServRefused, RmUnchanged, NotifyEnds, NotifyConnectFails, NotifySendFails,
         SendAllJobs, sendAllEnds,
         sendAllRunsOut, sendAllSendFails, Crash
    <3> QED BY <3>1, QueuedSame
  <2> QED BY <2>1, <2>2
<1>4. \/ UNCHANGED rmPc
      \/ /\ rmPc = "serve" /\ rmMsg.msgId = "rm_clntMsg_m"
         /\ rmPc' = "run"
      \/ rmPc = "notify" /\ rmPc' = "run"
  BY DEF ClientStep, ServRegisterAgain, ServRegister, ServAdd, ServDeregister, ServDelete,
         ServRefused, ServingClient, Serving, At, NotifyEnds, NotifyConnectFails, NotifySendFails,
         handleClient, JobUnchanged, SendAllJobs,
         sendAllEnds, sendAllRunsOut, sendAllSendFails, Crash
<1> QED BY <1>1, <1>2, <1>3, <1>4, PlayerUnchanged DEF InHand, InPlaying, Served, PlayerMsgId

LEMMA TakeMessagePlayer == ASSUME PlayerInv, TakeMessage PROVE PlayerParts'
<1>1. TypeOK /\ PlayerParts
  BY PlayerInvParts
<1>2. Queued = Queued' + Count(rmMsg'.msgId \in PlayerMsgId)
  BY <1>1, QueuedTake DEF Queued, Count
<1>3. /\ UNCHANGED <<playJobs, players, isActive, rmState>>
      /\ rmPc = "drain" /\ rmPc' = "serve"
  BY DEF TakeMessage, At
<1>4. Queued \in Nat /\ Queued' \in Nat /\ playJobs \in Nat /\ players \in Nat
  <2>1. Queued' \in Nat
    BY <1>1, QueuedTake DEF Queued
  <2> QED BY <1>1, <2>1, PlayerTypes
<1>5. ~InHand(PlayerMsgId) /\ (InHand(PlayerMsgId)' <=> rmMsg'.msgId \in PlayerMsgId)
  BY <1>3 DEF InHand
<1>6. ~Served(PlayerMsgId)' /\ (InPlaying' <=> InPlaying)
  BY <1>3 DEF Served, InPlaying
<1>7. /\ Count(InHand(PlayerMsgId)) = 0
      /\ Count(InHand(PlayerMsgId))' = Count(rmMsg'.msgId \in PlayerMsgId)
      /\ Count(InPlaying)' = Count(InPlaying)
      /\ Count(isActive)' = Count(isActive)
      /\ Count(InPlaying) \in Nat /\ Count(isActive) \in Nat
      /\ Count(rmMsg'.msgId \in PlayerMsgId) \in Nat
  BY <1>3, <1>5, <1>6 DEF Count
<1> HIDE DEF Count
<1> QED BY <1>1, <1>2, <1>3, <1>4, <1>6, <1>7 DEF PlayerParts, Songs, Expected

\* As many songs more or less as are expected.
LEMMA PlayerMoves ==
    ASSUME TypeOK, PlayerParts, NEW d \in Int, Songs' = Songs + d, Expected' = Expected + d,
           rmPc' # "start", Served(PlayerMsgId)' => ~isActive'
    PROVE  PlayerParts'
<1>1. Songs \in Int /\ Expected \in Int
  BY PlayerTypes, CountType DEF Songs, Expected
<1> QED BY <1>1 DEF PlayerParts

\* A song that opens or ends stays one song.
LEMMA PlayerJobPlayer == ASSUME PlayerInv, PlayerJob PROVE PlayerParts'
<1>1. TypeOK /\ PlayerParts
  BY PlayerInvParts
<1>2. UNCHANGED <<rmState, rmMsg, rmPc, isActive>>
  BY DEF PlayerJob, playSongOpens, SongOpens, playSongEnds, SongEnds, JobUnchanged
<1>3. playJobs + players + Queued = playJobs' + players' + Queued'
  <2>1. playJobs \in Nat /\ players \in Nat /\ Queued \in Nat
    BY <1>1, PlayerTypes
  <2>2. CASE playSongOpens
    <3>1. Queued' = Queued /\ playJobs' = playJobs - 1 /\ players' = players + 1
      BY <2>2, QueuedSame DEF playSongOpens, SongOpens
    <3> QED BY <2>1, <3>1
  <2>3. ASSUME NEW msgId \in PlayerMsgId, playSongEnds(msgId)
        PROVE  playJobs + players + Queued = playJobs' + players' + Queued'
    <3>1. [msgId |-> msgId] \in RmMsg /\ [msgId |-> msgId].msgId \in PlayerMsgId
      BY DEF RmMsg
    <3>2. Queued' = Queued + 1
      BY <1>1, <2>3, <3>1, QueuedPost DEF playSongEnds, Queued
    <3>3. \/ playJobs' = playJobs - 1 /\ players' = players
          \/ playJobs' = playJobs /\ players' = players - 1
      BY <2>3 DEF playSongEnds, SongEnds
    <3> QED BY <2>1, <3>2, <3>3
  <2> QED BY <2>2, <2>3 DEF PlayerJob
<1>4. Songs' = Songs /\ Expected' = Expected
  BY <1>2, <1>3 DEF Songs, Expected, InHand, InPlaying, Count
<1> QED BY <1>1, <1>2, <1>4 DEF PlayerParts, Served

LEMMA DownloadJobPlayer == ASSUME PlayerInv, DownloadJob PROVE PlayerParts'
<1>1. TypeOK /\ PlayerParts
  BY PlayerInvParts
<1>2. UNCHANGED <<rmState, rmMsg, rmPc, playJobs, players, isActive>>
  BY DEF DownloadJob, downloadEnds, JobUnchanged, mpVars
<1>3. PICK request \in download, msgId \in DownloadMsgId :
         Post([msgId |-> msgId, data |-> request])
  BY DEF DownloadJob, downloadEnds
<1>4. /\ [msgId |-> msgId, data |-> request] \in RmMsg
      /\ [msgId |-> msgId, data |-> request].msgId \notin PlayerMsgId
  BY <1>1 DEF TypeOK, RmMsg, PlayerMsgId, DownloadMsgId
<1>5. Queued' = Queued
  <2>1. Queued' = Queued + 0 /\ Queued \in Nat
    BY <1>1, <1>3, <1>4, QueuedPost, PlayerTypes DEF Queued
  <2> QED BY <2>1
<1> QED BY <1>1, <1>2, <1>5, PlayerUnchanged DEF InHand, InPlaying, Served

\* The jukebox has one song while it is active, and loses it when it stops.
LEMMA JukeBoxPlayer ==
    ASSUME PlayerInv, StartJukeBox \/ ServJukeBoxDone \/ ServJukeBoxStop PROVE PlayerParts'
<1>1. /\ TypeOK /\ PlayerParts /\ Queued' = Queued
      /\ playJobs \in Nat /\ players \in Nat /\ Queued \in Nat
      /\ isActive \in BOOLEAN /\ StopClearsActive \in BOOLEAN
  BY PlayerInvParts, PlayerTypes, QueuedSame
     DEF StartJukeBox, ServJukeBoxDone, ServJukeBoxStop, RmUnchanged, jobVars
<1>2. /\ UNCHANGED <<rmState, players>> /\ rmPc' = "drain"
      /\ ~InHand(PlayerMsgId)' /\ ~Served(PlayerMsgId)'
  BY DEF StartJukeBox, scheduleNextRandomSong, ServJukeBoxDone, ServJukeBoxStop, InHand, Served
<1>3. Count(InHand(PlayerMsgId))' = 0 /\ Count(InPlaying)' = Count(InPlaying)
  BY <1>2 DEF Count, InPlaying
<1>4. CASE StartJukeBox
  <2>1. playJobs' = playJobs + 1 /\ isActive' = TRUE /\ rmPc = "start"
    BY <1>4 DEF StartJukeBox, scheduleNextRandomSong, At
  <2>2. Count(InHand(PlayerMsgId)) = 0 /\ Count(isActive) = 0 /\ Count(isActive)' = 1
    BY <1>1, <2>1 DEF PlayerParts, InHand, Count
  <2>3. Songs' = Songs + 1 /\ Expected' = Expected + 1
    BY <1>1, <1>2, <1>3, <2>1, <2>2, CountType DEF Songs, Expected
  <2> QED BY <1>1, <1>2, <2>3, PlayerMoves
<1>5. CASE ServJukeBoxDone
  <2>1. /\ playJobs' = playJobs + 1 /\ isActive' = TRUE /\ isActive = TRUE
        /\ InHand(PlayerMsgId)
    BY <1>1, <1>5 DEF ServJukeBoxDone, scheduleNextRandomSong, Serving, At, InHand, PlayerMsgId
  <2>2. Count(InHand(PlayerMsgId)) = 1 /\ Count(isActive)' = Count(isActive)
    BY <2>1 DEF Count
  <2>3. Songs' = Songs + 0
    <3>1. Songs' = playJobs + 1 + players + Queued + 0 /\ Songs = playJobs + players + Queued + 1
      BY <1>1, <1>2, <1>3, <1>5, <2>2 DEF Songs, ServJukeBoxDone, scheduleNextRandomSong
    <3> QED BY <1>1, <3>1
  <2>4. Expected' = Expected + 0
    <3>1. Expected' = Expected
      BY <1>3, <2>2 DEF Expected
    <3>2. Expected \in Int
      BY CountType DEF Expected
    <3> QED BY <3>1, <3>2
  <2> QED BY <1>1, <1>2, <2>3, <2>4, PlayerMoves
<1>6. CASE ServJukeBoxStop
  <2>1. /\ playJobs' = playJobs /\ isActive = TRUE /\ isActive' = ~StopClearsActive
        /\ InHand(PlayerMsgId)
    BY <1>1, <1>6 DEF ServJukeBoxStop, Serving, At, InHand, PlayerMsgId
  <2>2. /\ Count(InHand(PlayerMsgId)) = 1 /\ Count(isActive) = 1
        /\ Count(isActive)' = IF StopClearsActive THEN 0 ELSE 1
    BY <1>1, <2>1 DEF Count
  <2>3. Songs' = Songs - 1
    <3>1. Songs' = playJobs + players + Queued + 0 /\ Songs = playJobs + players + Queued + 1
      BY <1>1, <1>2, <1>3, <1>6, <2>2 DEF Songs, ServJukeBoxStop
    <3> QED BY <1>1, <3>1
  <2>4. Expected' = IF StopClearsActive THEN Expected - 1 ELSE Expected
    <3>1. Expected = 1 + Count(InPlaying) /\ Count(InPlaying) \in Int
      BY <2>2, CountType DEF Expected
    <3>2. Expected' = (IF StopClearsActive THEN 0 ELSE 1) + Count(InPlaying)
      BY <1>3, <2>2 DEF Expected
    <3> QED BY <1>1, <3>1, <3>2
  <2>5. Songs \in Int /\ Expected \in Int
    BY <1>1, CountType DEF Songs, Expected
  <2> QED BY <1>1, <1>2, <2>3, <2>4, <2>5 DEF PlayerParts
<1> QED BY <1>4, <1>5, <1>6

\* While a message is served, and when the scheduler is called.
LEMMA ServPlayer ==
    ASSUME PlayerInv,
           \/ ServMplayerResponse \/ ServMplayerResponseWild
           \/ handleDownloadComplete \/ handleDownloadError
           \/ callSchedular \/ callSchedularNoClient \/ callSchedularWild
    PROVE  PlayerParts'
<1>1. TypeOK /\ PlayerParts /\ Queued' = Queued /\ rmState \in RmState
  BY PlayerInvParts, PlayerTypes, QueuedSame
     DEF ServMplayerResponse, ServMplayerResponseWild, handleDownloadComplete,
         handleDownloadError, callSchedular, callSchedularNoClient, callSchedularWild,
         MoveTo, Crash, RmUnchanged
<1>2. UNCHANGED <<playJobs, players, isActive, rmMsg>>
  BY DEF ServMplayerResponse, setPlayingStatus, ServMplayerResponseWild, handleDownloadComplete,
         downloadReady, handleDownloadError, downloadFailed, NothingToServe,
         callSchedular, getRequestForDownloading, callSchedularNoClient, callSchedularWild,
         MoveTo, Crash, RmUnchanged, mpVars
<1>3. \/ UNCHANGED rmPc
      \/ rmPc = "serve" /\ rmPc' \in {"notify", "run"}
         /\ (rmMsg.msgId \in PlayerMsgId => ~isActive)
      \/ rmPc = "schedule" /\ rmPc' = "drain"
  BY DEF ServMplayerResponse, ServMplayerResponseWild, handleDownloadComplete,
         handleDownloadError, callSchedular, callSchedularNoClient, callSchedularWild,
         MoveTo, Crash, Serving, At, PlayerMsgId
<1>4. InPlaying' <=> InPlaying
  <2>1. CASE callSchedular
    BY <2>1 DEF callSchedular, InPlaying
  <2>2. CASE ~callSchedular
    BY <2>2 DEF ServMplayerResponse, ServMplayerResponseWild, handleDownloadComplete,
         handleDownloadError, callSchedularNoClient, callSchedularWild, MoveTo, Crash, InPlaying
  <2> QED BY <2>1, <2>2
<1> QED BY <1>1, <1>2, <1>3, <1>4, PlayerUnchanged DEF InHand, Served

\* The end of the state machine's song ends its playing state, unless the next song is
\* played at once.
LEMMA RunPlayer ==
    ASSUME PlayerInv,
           \/ RunNothing \/ RunCallSchedular \/ moveToIdle \/ moveToDownloading
           \/ moveToPlaying \/ moveToPlayingNotReady
           \/ moveToPlayingDownloaded \/ moveToPlayingScheduleNext
    PROVE  PlayerParts'
<1> DEFINE more == IF moveToPlaying THEN 1 ELSE 0
           less == Count(rmMsg.msgId \in PlayerMsgId)
<1>1. /\ TypeOK /\ PlayerParts /\ Queued' = Queued /\ rmState \in RmState
      /\ playJobs \in Nat /\ players \in Nat /\ Queued \in Nat
  BY PlayerInvParts, PlayerTypes, QueuedSame
     DEF RunNothing, RunCallSchedular, moveToIdle, moveToDownloading, moveToPlaying,
         moveToPlayingNotReady, moveToPlayingDownloaded, moveToPlayingScheduleNext,
         MoveTo, RmUnchanged
<1>2. /\ UNCHANGED <<players, isActive, rmMsg>>
      /\ rmPc = "run"
      /\ rmPc' \in {"drain", "schedule"}
      /\ playJobs' = IF moveToPlaying THEN playJobs + 1 ELSE playJobs
  BY DEF RunNothing, RunCallSchedular, moveToIdle, moveToDownloading, moveToPlaying,
         moveToPlayingNotReady, moveToPlayingDownloaded, moveToPlayingScheduleNext,
         MoveTo, RmUnchanged, Running, At, rmRunState, getRequestForPlaying, queueSong, mpVars
<1>3. /\ InHand(PlayerMsgId) <=> rmMsg.msgId \in PlayerMsgId
      /\ ~InHand(PlayerMsgId)' /\ ~Served(PlayerMsgId)'
  BY <1>2 DEF InHand, Served
<1>4. Count(InHand(PlayerMsgId)) = less /\ Count(InHand(PlayerMsgId))' = 0
  BY <1>3 DEF Count
<1>5. rmMsg.msgId \in PlayerMsgId => InPlaying
  <2> SUFFICES ASSUME rmMsg.msgId \in PlayerMsgId, ~InPlaying PROVE FALSE
    OBVIOUS
  <2>1. ~isActive /\ less = 1
    BY <1>1, <1>2 DEF PlayerParts, Served, Count
  <2>2. Expected = 0
    BY <2>1 DEF Expected, Count
  <2>3. Songs >= 1
    BY <1>1, <1>4, <2>1 DEF Songs
  <2>4. Songs \in Int
    BY <1>1, CountType DEF Songs
  <2> QED BY <1>1, <2>2, <2>3, <2>4 DEF PlayerParts
<1>6. Count(InPlaying)' = Count(InPlaying) + more - less
  BY <1>1, <1>2, <1>5
     DEF RunNothing, RunCallSchedular, moveToIdle, moveToDownloading, moveToPlaying,
         moveToPlayingNotReady, moveToPlayingDownloaded, moveToPlayingScheduleNext,
         MoveTo, Running, At, rmRunState, InPlaying, RmState, PlayerMsgId, Count
<1>7. Songs' = Songs + (more - less) /\ Expected' = Expected + (more - less)
  <2>1. Count(isActive)' = Count(isActive) /\ playJobs' = playJobs + more
    BY <1>1, <1>2 DEF Count
  <2>2. more \in Int /\ less \in Int
    BY CountType
  <2> HIDE DEF more, less
  <2> QED BY <1>1, <1>2, <1>4, <1>6, <2>1, <2>2, CountType DEF Songs, Expected
<1>8. more - less \in Int
  BY CountType
<1> QED BY <1>1, <1>2, <1>3, <1>7, <1>8, PlayerMoves

LEMMA NextPlayer == PlayerInv /\ [Next]_vars => PlayerInv'
<1> SUFFICES ASSUME PlayerInv, [Next]_vars PROVE PlayerInv'
  OBVIOUS
<1>1. TypeOK'
  BY NextType DEF PlayerInv
<1>2. CASE UNCHANGED vars
  <2>1. Queued' = Queued
    BY <1>2, QueuedSame DEF vars
  <2> QED BY <1>1, <1>2, <2>1, PlayerInvParts, PlayerUnchanged
          DEF vars, mpVars, InHand, InPlaying, Served
<1>3. CASE Next
  BY <1>1, <1>3, PlayerInvParts, ClientStepPlayer, TakeMessagePlayer, PlayerJobPlayer,
     DownloadJobPlayer, JukeBoxPlayer, ServPlayer, RunPlayer
     DEF Next, RmStep, ClientStep
<1> QED BY <1>2, <1>3

\* Each song for one owner (resourceManager.c:158-172, 305-338, jukebox.c): the one player
\* has a song for the jukebox while it is active and one for the state machine while it is
\* in a playing state, and no other; with isActive cleared as intended, no fewer either, so
\* that no playing state waits for a song nobody plays.
THEOREM PlayerBalanced == Spec => []PlayerBalance
<1>1. Init => PlayerInv
  <2> SUFFICES ASSUME Init PROVE PlayerInv
    OBVIOUS
  <2>1. TypeOK
    BY InitType
  <2>2. Queued = 0
    BY FS_EmptySet DEF Init, Queued, QueuedMsgs
  <2>3. Songs = 0 /\ Expected = 0 /\ rmPc = "start" /\ ~isActive
    BY <2>2 DEF Init, initMplayer, Songs, Expected, Count, InHand, InPlaying
  <2> QED BY <2>1, <2>3, PlayerInvParts DEF PlayerParts, Served
<1>2. PlayerInv => PlayerBalance
  BY DEF PlayerInv
<1> QED BY <1>1, <1>2, NextPlayer, PTL DEF Spec

-----------------------------------------------------------------------------
(* The scheduler.                                                           *)

LEMMA RoundRobin ==
    ASSUME NEW m \in Nat \ {0}, NEW k \in 0 .. m - 1
    PROVE  k % m = k /\ (k + m) % m = k /\ (m + m) % m = 0
  OBVIOUS

LEMMA ProbesReach ==
    ASSUME PlayListTypeOK, currentDownloadingClient \in ClientId,
           NEW id \in ClientId \ {currentDownloadingClient, MaxClient - 1}
    PROVE  \E n \in 1 .. MaxClient - 1 :
              Probe(n) = id /\ (currentDownloadingClient < MaxClient - 1 => n < MaxClient - 1)
<1> DEFINE c == currentDownloadingClient
           m == MaxClient - 1
<1>1. m \in Nat \ {0} /\ c \in 0 .. m /\ id \in 0 .. m - 1 /\ id # c
  BY PlayListAssumption DEF ClientId
<1> HIDE DEF c, m
<1>2. id % m = id /\ (id + m) % m = id /\ (m + m) % m = 0
  BY <1>1, RoundRobin
<1>3. \E n \in 1 .. m : (c + n) % m = id /\ (c < m => n < m)
  <2>1. CASE id > c
    <3>1. id - c \in 1 .. m /\ c + (id - c) = id /\ id - c < m
      BY <1>1, <2>1
    <3> QED BY <1>2, <3>1
  <2>2. CASE id < c /\ ~(id = 0 /\ c = m)
    <3>1. id - c + m \in 1 .. m /\ c + (id - c + m) = id + m /\ id - c + m < m
      BY <1>1, <2>2
    <3> QED BY <1>2, <3>1
  <2>3. CASE id = 0 /\ c = m
    <3>1. m \in 1 .. m /\ (c + m) % m = id /\ ~(c < m)
      BY <1>1, <1>2, <2>3
    <3> QED BY <3>1
  <2> QED BY <1>1, <2>1, <2>2, <2>3
<1> QED BY <1>3 DEF Probe, c, m

\* The scheduler comes back to the client whose turn it was after all the others.
LEMMA SecondTurn ==
    ASSUME PlayListTypeOK, currentDownloadingClient \in ClientId,
           NEW k \in 1 .. 2, Scheduled(currentDownloadingClient, k),
           NEW id \in ClientId \ {currentDownloadingClient, MaxClient - 1}
    PROVE  ~HeadWaiting(id)
<1>1. PICK n \in 1 .. MaxClient - 1 :
         Probe(n) = id /\ (currentDownloadingClient < MaxClient - 1 => n < MaxClient - 1)
  BY ProbesReach
<1>2. MaxClient \in Nat /\ MaxClient >= 2
  BY PlayListAssumption
<1>3. CASE NoHeadWaiting
  BY <1>1, <1>2, <1>3 DEF NoHeadWaiting
<1>4. CASE ~NoHeadWaiting
  <2> DEFINE c == currentDownloadingClient
             m == MaxClient - 1
  <2>1. PICK round \in 1 .. MaxClient :
           c = Probe(round) /\ \A j \in 1 .. round - 1 : ~HeadWaiting(Probe(j))
    BY <1>4 DEF Scheduled
  <2>2. m \in Nat \ {0} /\ c \in 0 .. m /\ c = (c + round) % m /\ round \in Nat \ {0}
    BY <1>2, <2>1 DEF Probe, ClientId
  <2> HIDE DEF c, m
  <2>3. c < m
    BY <2>2
  <2>4. round >= m
    <3> SUFFICES ASSUME round < m PROVE FALSE
      BY <2>2
    <3>1. CASE c + round < m
      <4>1. (c + round) % m = c + round
        BY <2>2, <3>1, RoundRobin
      <4> QED BY <2>2, <4>1
    <3>2. CASE c + round >= m
      <4>1. c + round - m \in 0 .. m - 1 /\ (c + round - m) + m = c + round
        BY <2>2, <2>3, <3>2
      <4>2. (c + round) % m = c + round - m
        BY <2>2, <4>1, RoundRobin
      <4> QED BY <2>2, <4>2
    <3> QED BY <2>2, <3>1, <3>2
  <2>5. n \in 1 .. round - 1
    BY <1>1, <1>2, <2>2, <2>3, <2>4 DEF c, m
  <2> QED BY <1>1, <2>1, <2>5
<1> QED BY <1>3, <1>4

LEMMA OnlySchedularDownloads == ASSUME Next, ~callSchedular PROVE download' \subseteq download
<1>1. CASE RmStep
  BY <1>1 DEF RmStep, StartJukeBox, TakeMessage, ServRegisterAgain, ServRegister, ServAdd,
       ServDeregister, ServDelete, ServRefused, ServJukeBoxDone, ServJukeBoxStop,
       ServMplayerResponse, ServMplayerResponseWild, handleDownloadComplete,
       handleDownloadError, NotifyEnds, NotifyConnectFails, NotifySendFails,
       RunNothing, RunCallSchedular, moveToIdle, moveToDownloading, moveToPlaying,
       moveToPlayingNotReady, moveToPlayingDownloaded, moveToPlayingScheduleNext,
       callSchedularNoClient, callSchedularWild, MoveTo, RmUnchanged, Crash, jobVars
<1>2. CASE PlayerJob \/ DownloadJob \/ SendAllJobs \/ \E msg \in ClientMsg : handleClient(msg)
  BY <1>2 DEF PlayerJob, playSongOpens, playSongEnds, DownloadJob, downloadEnds,
       SendAllJobs,
       sendAllEnds, sendAllRunsOut, sendAllSendFails, Crash, handleClient,
       jobVars
<1> QED BY <1>1, <1>2 DEF Next

\* The scheduler takes turns (playlist.c:189-218): the client of the last download gets the
\* next one only if no first song of another client waits, whatever has been deleted and
\* whoever has come and gone since.
THEOREM TurnsAreTaken == Spec => NoSecondTurn
<1>1. ASSUME TypeOK, Next, NEW r \in download' \ download, r.clntId = currentDownloadingClient,
             NEW id \in ClientId \ {r.clntId, MaxClient - 1}
      PROVE  ~HeadWaiting(id)
  <2>1. callSchedular
    BY <1>1, OnlySchedularDownloads
  <2>2. /\ r \in Request
        /\ \E k \in 1 .. 2 : Scheduled(r.clntId, k)
    BY <2>1 DEF callSchedular, getRequestForDownloading, getOneForDownloading
  <2>3. PlayListTypeOK /\ r.clntId \in ClientId
    BY <1>1, <2>2 DEF TypeOK, Request
  <2> QED BY <1>1, <2>2, <2>3, SecondTurn
<1>2. TypeOK /\ [Next]_vars =>
         [\A r \in download' \ download :
             r.clntId = currentDownloadingClient =>
                 \A id \in ClientId \ {r.clntId, MaxClient - 1} : ~HeadWaiting(id)]_vars
  BY <1>1
<1> QED BY <1>2, InitType, NextType, PTL DEF Spec, NoSecondTurn
-----------------------------------------------------------------------------
(* The counts of the lists.                                                 *)

\* No count is about to wrap: that takes 2^32 requests of one client (list.h:37).
CountsInRange == \A id \in ClientId : totalNode[id] + 1 < U32

\* Every song that is counted before a step is counted after it.
KeepsCounted ==
    \A id \in ClientId : Len(pList[id]) <= totalNode[id] => Len(pList'[id]) <= totalNode'[id]

LEMMA CountedSame == ASSUME UNCHANGED listVars PROVE KeepsCounted
  BY DEF KeepsCounted, listVars

LEMMA NoWrap ==
    ASSUME NEW n \in 0 .. U32 - 1
    PROVE  /\ n + 1 < U32 => (n + 1) % U32 = n + 1
           /\ n > 0 => (n - 1) % U32 = n - 1
<1>1. U32 \in Nat \ {0}
  BY Constants
<1>2. ASSUME NEW u \in Nat \ {0}, NEW m \in 0 .. u - 1 PROVE m % u = m
  BY <1>2
<1> QED BY <1>1, <1>2

\* Only the list of one client changes.
LEMMA CountedElsewhere ==
    ASSUME NEW id \in ClientId,
           Len(pList[id]) <= totalNode[id] => Len(pList'[id]) <= totalNode'[id],
           \A k \in ClientId \ {id} : pList'[k] = pList[k] /\ totalNode'[k] = totalNode[k]
    PROVE  KeepsCounted
  BY DEF KeepsCounted

LEMMA DeleteCounted ==
    ASSUME PlayListTypeOK, NEW id \in ClientId, NEW field, NEW value,
           deleteOneFromListHaving(id, field, value)
    PROVE  KeepsCounted
<1>1. ASSUME NEW k \in DOMAIN pList[id], DeleteNode(id, k) PROVE KeepsCounted
  <2>1. /\ pList[id] \in Seq(Song) /\ Len(pList[id]) \in Nat
        /\ DOMAIN pList[id] = 1 .. Len(pList[id])
    BY ListType
  <2>2. Len(RemoveAt(pList[id], k)) = Len(pList[id]) - 1
    <3>1. Len(RemoveAt(pList[id], k)) \in Nat
          /\ DOMAIN RemoveAt(pList[id], k) = 1 .. Len(RemoveAt(pList[id], k))
      BY <2>1, RemoveAtType, LenProperties
    <3>2. DOMAIN RemoveAt(pList[id], k) = 1 .. Len(pList[id]) - 1
      BY <2>1, RemoveAtElements
    <3>3. ASSUME NEW m \in Nat, NEW n \in Nat, 1 .. m = 1 .. n PROVE m = n
      <4>1. m \in 1 .. n \/ m = 0
        BY <3>3
      <4>2. n \in 1 .. m \/ n = 0
        BY <3>3
      <4> QED BY <3>3, <4>1, <4>2
    <3>4. Len(pList[id]) - 1 \in Nat
      BY <2>1
    <3> QED BY <3>1, <3>2, <3>3, <3>4
  <2>3. /\ pList'[id] = RemoveAt(pList[id], k)
        /\ totalNode'[id] = IF k = 1 THEN (totalNode[id] - 1) % U32 ELSE totalNode[id]
        /\ \A m \in ClientId \ {id} : pList'[m] = pList[m] /\ totalNode'[m] = totalNode[m]
        /\ totalNode[id] \in 0 .. U32 - 1
    BY <1>1 DEF DeleteNode, PlayListTypeOK
  <2>4. ASSUME Len(pList[id]) <= totalNode[id] PROVE Len(pList'[id]) <= totalNode'[id]
    <3>1. totalNode[id] \in Nat /\ totalNode[id] > 0
      BY <2>1, <2>3, <2>4, Constants
    <3>2. totalNode'[id] >= totalNode[id] - 1 /\ totalNode'[id] \in Nat
      BY <2>3, <3>1, NoWrap
    <3> QED BY <2>1, <2>2, <2>3, <2>4, <3>1, <3>2
  <2> QED BY <2>3, <2>4, CountedElsewhere
<1> QED BY <1>1, CountedSame DEF deleteOneFromListHaving

\* A song takes another status.
LEMMA StatusCounted ==
    ASSUME PlayListTypeOK, NEW id \in ClientId, NEW k \in DOMAIN pList[id], NEW status,
           pList' = [pList EXCEPT ![id][k].plStatus = status], UNCHANGED totalNode
    PROVE  KeepsCounted
<1>1. Len(pList'[id]) = Len(pList[id])
  <2>1. pList[id] \in Seq(Song) /\ pList \in [ClientId -> Seq(Song)]
    BY ListType DEF PlayListTypeOK
  <2>2. pList'[id] = [pList[id] EXCEPT ![k].plStatus = status]
    BY <2>1
  <2> QED BY <2>1, <2>2, LenProperties
<1>2. \A m \in ClientId \ {id} : pList'[m] = pList[m] /\ totalNode'[m] = totalNode[m]
  BY DEF PlayListTypeOK
<1>3. totalNode'[id] = totalNode[id]
  OBVIOUS
<1> QED BY <1>1, <1>2, <1>3, CountedElsewhere

LEMMA setPlayListStatusCounted ==
    ASSUME PlayListTypeOK, NEW id \in ClientId, NEW status, setPlayListStatus(id, status)
    PROVE  KeepsCounted
  BY CountedSame, StatusCounted DEF setPlayListStatus, listVars

LEMMA addToPlayListCounted ==
    ASSUME PlayListTypeOK, CountsInRange, NEW id \in ClientId, NEW tok \in Token,
           addToPlayList(id, tok)
    PROVE  KeepsCounted
<1>1. /\ pList' = [pList EXCEPT ![id] = Append(@, [token |-> tok, plStatus |-> "PL_WAITING"])]
      /\ totalNode' = [totalNode EXCEPT ![id] = (@ + 1) % U32]
      /\ pList \in [ClientId -> Seq(Song)] /\ totalNode \in [ClientId -> 0 .. U32 - 1]
  BY DEF addToPlayList, PlayListTypeOK
<1>2. pList[id] \in Seq(Song) /\ Len(pList[id]) \in Nat
      /\ [token |-> tok, plStatus |-> "PL_WAITING"] \in Song
  BY ListType DEF Song, SongStatus
<1>3. Len(pList'[id]) = Len(pList[id]) + 1
  BY <1>1, <1>2, AppendProperties
<1>4. totalNode'[id] = totalNode[id] + 1 /\ totalNode[id] \in Nat
  BY <1>1, NoWrap, Constants DEF CountsInRange
<1>5. \A m \in ClientId \ {id} : pList'[m] = pList[m] /\ totalNode'[m] = totalNode[m]
  BY <1>1
<1> QED BY <1>2, <1>3, <1>4, <1>5, CountedElsewhere

LEMMA deregisterClientCounted ==
    ASSUME PlayListTypeOK, NEW id \in ClientId, deregisterClient(id)
    PROVE  KeepsCounted
<1>1. CASE Registered(id)
  <2>1. /\ pList' = [pList EXCEPT ![id] = <<>>]
        /\ totalNode' = [totalNode EXCEPT ![id] = (@ - Len(pList[id])) % U32]
        /\ pList \in [ClientId -> Seq(Song)] /\ totalNode \in [ClientId -> 0 .. U32 - 1]
    BY <1>1 DEF deregisterClient, deleteFromPlayList, PlayListTypeOK
  <2>2. /\ Len(pList'[id]) = 0
        /\ totalNode'[id] = (totalNode[id] - Len(pList[id])) % U32
        /\ \A m \in ClientId \ {id} : pList'[m] = pList[m] /\ totalNode'[m] = totalNode[m]
    BY <2>1
  <2>3. totalNode'[id] \in 0 .. U32 - 1
    <3>1. totalNode[id] \in Int /\ Len(pList[id]) \in Int
      BY <2>1, ListType, Constants
    <3> QED BY <2>2, <3>1, Wraps
  <2> QED BY <2>2, <2>3, Constants, CountedElsewhere
<1>2. CASE ~Registered(id)
  BY <1>2, CountedSame DEF deregisterClient, plVars, listVars
<1> QED BY <1>1, <1>2

LEMMA StepCounted ==
    ASSUME TypeOK, CountsInRange, [Next]_vars PROVE KeepsCounted
<1>1. PlayListTypeOK /\ RmTypeOK /\ DbTypeOK
  BY TypeParts DEF TypeOK
<1>2. UNCHANGED plVars => KeepsCounted
  BY CountedSame DEF plVars, listVars
<1>3. CASE SlotsUntouched
  BY <1>2, <1>3 DEF SlotsUntouched, StartJukeBox, TakeMessage, ServJukeBoxDone, ServJukeBoxStop,
         ServMplayerResponseWild, callSchedularWild, Crash,
         RunNothing, RunCallSchedular, moveToIdle, moveToDownloading,
         moveToPlayingNotReady, moveToPlayingDownloaded, moveToPlayingScheduleNext,
         callSchedularNoClient, MoveTo, PlayerJob, playSongOpens, playSongEnds, downloadEnds, vars
<1>4. CASE ServRegister \/ ServRefused \/ NotifyEnds \/ NotifySendFails
           \/ \E msg \in ClientMsg : handleClient(msg)
  BY <1>2, <1>4 DEF ServRegister, takeSlot, ServRefused, NotifyEnds, NotifySendFails, Crash,
                    handleClient
<1>5. CASE ServAdd
  BY <1>1, <1>2, <1>5, MessageTypes, addToPlayListCounted DEF ServAdd, addToQueue
<1>6. CASE ServDelete
  <2>1. rmMsg.data.clntId \in ClientId
    BY <1>1, <1>6, MessageTypes DEF ServDelete
  <2>2. CASE deleteFromClientHavingToken(rmMsg.data.clntId, rmMsg.data.token)
    BY <1>1, <2>1, <2>2, DeleteCounted DEF deleteFromClientHavingToken
  <2> QED BY <1>2, <1>6, <2>2 DEF ServDelete, deleteFromQueue
<1>7. ASSUME NEW id \in ClientId, deregisterClient(id) PROVE KeepsCounted
  BY <1>1, <1>7, deregisterClientCounted
<1>8. CASE ServRegisterAgain \/ ServDeregister \/ NotifyConnectFails
  BY <1>1, <1>7, <1>8, MessageTypes
     DEF ServRegisterAgain, endOldSession, ServDeregister, NotifyConnectFails, RmTypeOK
<1>10. CASE SendAllJobs
  BY <1>2, <1>10 DEF SendAllJobs, sendAllEnds, sendAllRunsOut, sendAllSendFails, Crash
<1>11. CASE handleDownloadComplete
  <2>1. rmMsg.data.clntId \in ClientId
    BY <1>1, <1>11, MessageTypes DEF handleDownloadComplete, Serving, DownloadMsgId, Request
  <2>2. ASSUME setPlayListStatus(rmMsg.data.clntId, "PL_READY") PROVE KeepsCounted
    BY <1>1, <2>1, <2>2, setPlayListStatusCounted
  <2> QED BY <1>2, <1>11, <2>2 DEF handleDownloadComplete, downloadReady, NothingToServe
<1>12. CASE handleDownloadError
  <2>1. ASSUME deleteDownloading PROVE KeepsCounted
    BY <1>1, <2>1, DeleteCounted DEF deleteDownloading
  <2> QED BY <1>2, <1>12, <2>1 DEF handleDownloadError, downloadFailed, NothingToServe
<1>13. CASE ServMplayerResponse
  <2>1. ASSUME deletePlaying \/ deletePlayingWild PROVE KeepsCounted
    BY <1>1, <1>2, <2>1, DeleteCounted DEF deletePlaying, deletePlayingWild, WildPlaying
  <2> QED BY <1>2, <1>13, <2>1 DEF ServMplayerResponse, setPlayingStatus
<1>14. CASE moveToPlaying
  <2>1. PICK i \in SlotIndex : setPlayListStatus(schData[i].clientId, "PL_PLAYING")
    BY <1>14 DEF moveToPlaying, getRequestForPlaying
  <2>2. schData[i].clientId \in ClientId
    BY <1>1, SlotStatusType DEF DbTypeOK, Slot
  <2> QED BY <1>1, <2>1, <2>2, setPlayListStatusCounted
<1>15. CASE callSchedular
  <2>1. PICK request \in Request, k \in 1 .. 2 : getOneForDownloading(request.clntId, k)
    BY <1>15 DEF callSchedular, getRequestForDownloading
  <2>2. request.clntId \in ClientId /\ k \in DOMAIN pList[request.clntId]
    BY <1>1, <2>1, ScheduledType DEF getOneForDownloading, Request
  <2> QED BY <1>1, <2>1, <2>2, StatusCounted DEF getOneForDownloading
<1> QED BY <1>3, <1>4, <1>5, <1>6, <1>8, <1>10, <1>11, <1>12, <1>13, <1>14, <1>15, NextCases
        DEF ClientStep, SlotStep

\* While no count has come close to 2^32, no song of a list is missed by its count
\* (clientdb.c:497-502), by any number of steps: deletions count down by one node at most
\* and never more than they take out, though some are not counted at all (list.c:115-131).
THEOREM SongsAreCounted == Spec /\ []CountsInRange => []EverySongIsCounted
<1>1. Init => EverySongIsCounted
  <2>1. Init => \A id \in ClientId : pList[id] = <<>> /\ totalNode[id] = 0
    BY DEF Init, initPlayList
  <2> QED BY <2>1 DEF EverySongIsCounted
<1>2. TypeOK /\ CountsInRange /\ EverySongIsCounted /\ [Next]_vars => EverySongIsCounted'
  BY StepCounted DEF KeepsCounted, EverySongIsCounted
<1> QED BY <1>1, <1>2, InitType, NextType, PTL DEF Spec
==============================================================================
