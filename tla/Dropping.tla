------------------------------- MODULE Dropping -------------------------------
(***************************************************************************)
(* Clients dropped by workers while the resource manager carries songs     *)
(* through the two scheduling slots (clientdb.c, resourceManager.c), in    *)
(* the steps between which the threads can be interrupted.                 *)
(*                                                                         *)
(* deregisterClient and checkAndDeleteCurrentList hold no lock: a worker   *)
(* reads the status of a slot (clientdb.c:689, 704) and writes PL_NONE     *)
(* (:697, :712) while the resource manager uses the slot.  Of a song there *)
(* is its client and the slot it is in; which of the waiting songs is next *)
(* is left open.  As in Playback, no end of a song reaches the database    *)
(* (resourceManager.c:166), and the player is not part of this module.     *)
(***************************************************************************)
EXTENDS Naturals

CONSTANTS
    MaxClient,    \* the client slots that the scheduler reaches
    Worker,       \* workers whose connections to clients fail, other than rm
    MaxRequests,  \* bound: client messages the resource manager serves
    MaxFailures   \* bound: connections to clients that fail

rm == "rm"

Thread == Worker \cup {rm}

ClientId == 0 .. MaxClient - 1
SlotIndex == 0 .. 1
Status == {"PL_NONE", "PL_DOWNLOADING", "PL_READY", "PL_PLAYING"}

VARIABLES
    clientState,
    waiting,        \* the songs of each list that are not scheduled yet
    schData,
    scheduleIndex,
    rmState,
    served,         \* the message the resource manager is dealing with
    found,          \* i of setDownloadingStatus and getClientRequestForPlaying
    download,       \* the last request and what became of it
    updates,        \* the sendOneUpdateToAllClient jobs that have yet to connect to each client
    at,             \* where each thread is
    client,         \* the client it deregisters, or adds a song for
    slotAt,         \* the slot checkAndDeleteCurrentList is at
    seen,           \* the status it read there
    back,           \* where deregisterClient returns to
    stale,          \* a PL_READY that was read has been cleared when it was none any more
    messages,
    failures

dbVars == <<clientState, waiting, schData, scheduleIndex>>
rmVars == <<rmState, served, found, download, updates>>
callVars == <<client, slotAt, seen, back>>
boundVars == <<messages, failures>>
dropVars == <<dbVars, rmVars, at, callVars, stale, boundVars>>

(***************************************************************************)
(* "idle": between two messages or jobs.  deregisterClient: "test",        *)
(* "owner", "status", "clear", "songs", "state".  A worker: "again", the   *)
(* second deregisterClient of an update; "post", the message of a download *)
(* that could not connect.  The resource manager: "add", addToQueue after  *)
(* its test; "answer", setDownloadingStatus after it found the slot;       *)
(* "notify", sendDeleteOneToClient; "run", the state machine; "ready",     *)
(* "play", "active", "activate", getClientRequestForPlaying; "schedule".   *)
(***************************************************************************)
DeregisterPc == {"test", "owner", "status", "clear", "songs", "state"}
RmPc ==
    {"add", "answer", "notify", "run", "ready", "play", "active", "activate", "schedule"}
Pc == {"idle", "again", "post"} \cup DeregisterPc \cup RmPc

DroppingTypeOK ==
    /\ clientState \in [ClientId -> {"unregister", "registered", "active"}]
    /\ waiting \in [ClientId -> 0 .. MaxRequests]
    /\ schData \in [SlotIndex -> [clientId : ClientId, status : Status]]
    /\ scheduleIndex \in SlotIndex
    /\ rmState \in {"rm_Idle", "rm_Downloading", "rm_Playing",
                    "rm_Playing_Downloading", "rm_Playing_Downloaded"}
    /\ served \in {"rm_clntMsg_m", "rm_dw_complete_m", "rm_dw_err_m"}
    /\ found \in SlotIndex
    /\ download \in [clntId : ClientId,
                     state : {"none", "running", "failing", "rm_dw_complete_m", "rm_dw_err_m"}]
    /\ updates \in [ClientId -> 0 .. MaxFailures]
    /\ at \in [Thread -> Pc]
    /\ client \in [Thread -> ClientId]
    /\ slotAt \in [Thread -> SlotIndex]
    /\ seen \in [Thread -> Status]
    /\ back \in [Thread -> {"run", "again", "post", "idle"}]
    /\ stale \in BOOLEAN
    /\ messages \in 0 .. MaxRequests
    /\ failures \in 0 .. MaxFailures

DroppingInit ==
    /\ clientState = [id \in ClientId |-> "unregister"]
    /\ waiting = [id \in ClientId |-> 0]
    /\ schData = [i \in SlotIndex |-> [clientId |-> 0, status |-> "PL_NONE"]]
    /\ scheduleIndex = 0
    /\ rmState = "rm_Idle"
    /\ served = "rm_clntMsg_m"
    /\ found = 0
    /\ download = [clntId |-> 0, state |-> "none"]
    /\ updates = [id \in ClientId |-> 0]
    /\ at = [t \in Thread |-> "idle"]
    /\ client = [t \in Thread |-> 0]
    /\ slotAt = [t \in Thread |-> 0]
    /\ seen = [t \in Thread |-> "PL_NONE"]
    /\ back = [t \in Thread |-> "idle"]
    /\ stale = FALSE
    /\ messages = 0
    /\ failures = 0

At(t, label) == at[t] = label
GoTo(t, label) == at' = [at EXCEPT ![t] = label]

Registered(id) == clientState[id] # "unregister"

\* addJobToQueue(sendOneUpdateToAllClient, msg): the job connects to these clients, at any
\* time.  No more jobs count than can fail.
Update(ids) ==
    updates' = [id \in ClientId |->
                  IF id \in ids /\ updates[id] < MaxFailures THEN updates[id] + 1 ELSE updates[id]]

----------------------------------------------------------------------------
(* deregisterClient, called by thread t.                                    *)

CallDeregister(t, id, returnTo) ==
    /\ GoTo(t, "test")
    /\ client' = [client EXCEPT ![t] = id]
    /\ back' = [back EXCEPT ![t] = returnTo]
    /\ UNCHANGED <<slotAt, seen>>

Test(t) ==
    /\ At(t, "test")
    /\ GoTo(t, IF Registered(client[t]) THEN "owner" ELSE back[t])
    /\ UNCHANGED <<dbVars, rmVars, callVars, stale, boundVars>>

\* checkAndDeleteCurrentList goes on to slot 1, or has looked at both.
NextSlot(t) ==
    /\ GoTo(t, IF slotAt[t] = 0 THEN "owner" ELSE "songs")
    /\ slotAt' = [slotAt EXCEPT ![t] = 1 - @]

\* cdb->schData[k].clientId == id
ReadOwner(t) ==
    /\ At(t, "owner")
    /\ IF schData[slotAt[t]].clientId = client[t]
       THEN GoTo(t, "status") /\ UNCHANGED slotAt
       ELSE NextSlot(t)
    /\ UNCHANGED <<dbVars, rmVars, client, seen, back, stale, boundVars>>

\* The switch over the status.
ReadStatus(t) ==
    /\ At(t, "status")
    /\ seen' = [seen EXCEPT ![t] = schData[slotAt[t]].status]
    /\ GoTo(t, "clear")
    /\ UNCHANGED <<dbVars, rmVars, client, slotAt, back, stale, boundVars>>

\* Variant: a song that is being downloaded is dropped as well.
ClearDownloading(t) ==
    /\ At(t, "clear")
    /\ IF seen[t] \in {"PL_READY", "PL_DOWNLOADING"}
       THEN schData' = [schData EXCEPT ![slotAt[t]].status = "PL_NONE"]
       ELSE UNCHANGED schData
    /\ stale' = (\/ stale
                 \/ /\ seen[t] = "PL_READY"
                    /\ schData[slotAt[t]].status \in {"PL_DOWNLOADING", "PL_PLAYING"})
    /\ seen' = [seen EXCEPT ![t] = "PL_NONE"]
    /\ NextSlot(t)
    /\ UNCHANGED <<clientState, waiting, scheduleIndex, rmVars, client, back, boundVars>>

\* What it does for PL_READY, whatever the slot has become by now.
Clear(t) ==
    /\ At(t, "clear")
    /\ IF seen[t] = "PL_READY"
       THEN schData' = [schData EXCEPT ![slotAt[t]].status = "PL_NONE"]
       ELSE UNCHANGED schData
    /\ stale' = (\/ stale
                 \/ /\ seen[t] = "PL_READY"
                    /\ schData[slotAt[t]].status \in {"PL_DOWNLOADING", "PL_PLAYING"})
    /\ seen' = [seen EXCEPT ![t] = "PL_NONE"]
    /\ NextSlot(t)
    /\ UNCHANGED <<clientState, waiting, scheduleIndex, rmVars, client, back, boundVars>>

\* deleteFromPlayList
DeleteSongs(t) ==
    /\ At(t, "songs")
    /\ waiting' = [waiting EXCEPT ![client[t]] = 0]
    /\ GoTo(t, "state")
    /\ UNCHANGED <<clientState, schData, scheduleIndex, rmVars, callVars, stale, boundVars>>

ClearState(t) ==
    /\ At(t, "state")
    /\ clientState' = [clientState EXCEPT ![client[t]] = "unregister"]
    /\ Update(ClientId \ {client[t]})
    /\ GoTo(t, back[t])
    /\ UNCHANGED <<waiting, schData, scheduleIndex, rmState, served, found, download,
                   callVars, stale, boundVars>>

Deregister(t) ==
    Test(t) \/ ReadOwner(t) \/ ReadStatus(t) \/ Clear(t) \/ DeleteSongs(t) \/ ClearState(t)

----------------------------------------------------------------------------
(* The workers.                                                             *)

Drop == failures < MaxFailures /\ failures' = failures + 1

DownloadEnds(msgId) ==
    /\ download.state = "running"
    /\ download' = [download EXCEPT !.state = msgId]
    /\ UNCHANGED <<dbVars, rmState, served, found, updates, at, callVars, stale, boundVars>>

\* It cannot connect: it drops the client and then posts the error.
DownloadConnectFails(w) ==
    /\ At(w, "idle")
    /\ download.state = "running"
    /\ download' = [download EXCEPT !.state = "failing"]
    /\ Drop
    /\ CallDeregister(w, download.clntId, "post")
    /\ UNCHANGED <<dbVars, rmState, served, found, updates, stale, messages>>

PostError(w) ==
    /\ At(w, "post")
    /\ download' = [download EXCEPT !.state = "rm_dw_err_m"]
    /\ GoTo(w, "idle")
    /\ UNCHANGED <<dbVars, rmState, served, found, updates, callVars, stale, boundVars>>

\* sendOneUpdateToAllClient cannot connect: connectToClient drops the client, and then
\* the job does so again.
UpdateConnectFails(w, id) ==
    /\ At(w, "idle")
    /\ updates[id] > 0
    /\ updates' = [updates EXCEPT ![id] = @ - 1]
    /\ Registered(id)
    /\ Drop
    /\ CallDeregister(w, id, "again")
    /\ UNCHANGED <<dbVars, rmState, served, found, download, stale, messages>>

DeregisterAgain(w) ==
    /\ At(w, "again")
    /\ CallDeregister(w, client[w], "idle")
    /\ UNCHANGED <<dbVars, rmVars, stale, boundVars>>

WorkerStep(w) ==
    \/ Deregister(w) \/ DownloadConnectFails(w) \/ PostError(w) \/ DeregisterAgain(w)
    \/ \E id \in ClientId : UpdateConnectFails(w, id)

----------------------------------------------------------------------------
(* The resource manager serves a message.                                   *)

Request ==
    /\ At(rm, "idle")
    /\ messages < MaxRequests
    /\ messages' = messages + 1
    /\ served' = "rm_clntMsg_m"

registerClient(id) ==
    /\ Request
    /\ ~Registered(id)
    /\ clientState' = [clientState EXCEPT ![id] = "registered"]
    /\ GoTo(rm, "run")
    /\ UNCHANGED <<waiting, schData, scheduleIndex, rmState, found, download, updates,
                   callVars, stale, failures>>

StartDeregister(id) ==
    /\ Request
    /\ CallDeregister(rm, id, "run")
    /\ UNCHANGED <<dbVars, rmState, found, download, updates, stale, failures>>

\* addToClientQueue: the client is looked at first ...
AddTest(id) ==
    /\ Request
    /\ Registered(id)
    /\ client' = [client EXCEPT ![rm] = id]
    /\ GoTo(rm, "add")
    /\ UNCHANGED <<dbVars, rmState, found, download, updates, slotAt, seen, back, stale, failures>>

\* ... and the song is added.
AddSong ==
    /\ At(rm, "add")
    /\ waiting' = [waiting EXCEPT ![client[rm]] = @ + 1]
    /\ Update(ClientId \ {client[rm]})
    /\ GoTo(rm, "run")
    /\ UNCHANGED <<clientState, schData, scheduleIndex, rmState, served, found, download,
                   callVars, stale, boundVars>>

\* A song that waits or is ready is deleted, one that plays is stopped.  Which client the
\* update does not go to is read from a request that was freed (resourceManager.c:318).
deleteFromQueue(id) ==
    /\ Request
    /\ Registered(id)
    /\ \/ /\ waiting[id] > 0
          /\ waiting' = [waiting EXCEPT ![id] = @ - 1]
          /\ UNCHANGED schData
       \/ \E i \in SlotIndex :
             /\ schData[i] = [clientId |-> id, status |-> "PL_READY"]
             /\ schData' = [schData EXCEPT ![i].status = "PL_NONE"]
             /\ UNCHANGED waiting
       \/ /\ [clientId |-> id, status |-> "PL_PLAYING"] \in {schData[0], schData[1]}
          /\ UNCHANGED <<waiting, schData>>
    /\ Update(ClientId)
    /\ GoTo(rm, "run")
    /\ UNCHANGED <<clientState, scheduleIndex, rmState, found, download, callVars, stale, failures>>

\* Every table or list can be full, every id or token unknown.
Refused ==
    /\ Request
    /\ GoTo(rm, "run")
    /\ UNCHANGED <<dbVars, rmState, found, download, updates, callVars, stale, failures>>

\* The slot of the download, which is the only one: the tokens are left out.
DownloadSlot(i) ==
    schData[i].clientId = download.clntId /\ schData[i].status = "PL_DOWNLOADING"

\* setDownloadingStatus reports "FATAL ERROR, MissMatch between downloading request and
\* response".
Mismatch == \A i \in SlotIndex : ~DownloadSlot(i)

\* handleDownloadComplete and handleDownloadError: setDownloadingStatus looks for the slot
\* ...
ServeAnswer ==
    /\ At(rm, "idle")
    /\ download.state \in {"rm_dw_complete_m", "rm_dw_err_m"}
    /\ served' = download.state
    /\ IF Mismatch
       THEN /\ download' = [download EXCEPT !.state = "none"]
            /\ GoTo(rm, "run")
            /\ UNCHANGED found
       ELSE /\ found' = CHOOSE i \in SlotIndex : DownloadSlot(i) /\ (i = 1 => ~DownloadSlot(0))
            /\ GoTo(rm, "answer")
            /\ UNCHANGED download
    /\ UNCHANGED <<dbVars, rmState, updates, callVars, stale, boundVars>>

\* ... and sets its status.
SetAnswered ==
    /\ At(rm, "answer")
    /\ schData' = [schData EXCEPT ![found].status =
                      IF served = "rm_dw_complete_m" THEN "PL_READY" ELSE "PL_NONE"]
    /\ download' = [download EXCEPT !.state = "none"]
    /\ GoTo(rm, IF served = "rm_dw_complete_m" THEN "run" ELSE "notify")
    /\ UNCHANGED <<clientState, waiting, scheduleIndex, rmState, served, found, updates,
                   callVars, stale, boundVars>>

NotifyEnds ==
    /\ At(rm, "notify")
    /\ GoTo(rm, "run")
    /\ UNCHANGED <<dbVars, rmVars, callVars, stale, boundVars>>

NotifyConnectFails ==
    /\ At(rm, "notify")
    /\ Drop
    /\ CallDeregister(rm, download.clntId, "run")
    /\ UNCHANGED <<dbVars, rmVars, stale, messages>>

----------------------------------------------------------------------------
(* The state machine.                                                       *)

\* Table with one wrong entry: for client messages while a download is awaited.
rmRunStateSchedulesTwice ==
    CASE rmState \in {"rm_Idle", "rm_Playing", "rm_Downloading"} /\ served = "rm_clntMsg_m" -> "callSchedular"
      [] rmState = "rm_Downloading" /\ served = "rm_dw_err_m" -> "moveToIdle"
      [] rmState = "rm_Downloading" /\ served = "rm_dw_complete_m" -> "moveToPlaying"
      [] rmState = "rm_Playing_Downloading" /\ served = "rm_dw_complete_m" -> "moveToPlayingDownloaded"
      [] rmState = "rm_Playing_Downloading" /\ served = "rm_dw_err_m" -> "moveToPlayingScheduleNext"
      [] OTHER -> "none"

\* The entries of rmRunState for the messages that are not the player's.
rmRunState ==
    CASE rmState \in {"rm_Idle", "rm_Playing"} /\ served = "rm_clntMsg_m" -> "callSchedular"
      [] rmState = "rm_Downloading" /\ served = "rm_dw_err_m" -> "moveToIdle"
      [] rmState = "rm_Downloading" /\ served = "rm_dw_complete_m" -> "moveToPlaying"
      [] rmState = "rm_Playing_Downloading" /\ served = "rm_dw_complete_m" -> "moveToPlayingDownloaded"
      [] rmState = "rm_Playing_Downloading" /\ served = "rm_dw_err_m" -> "moveToPlayingScheduleNext"
      [] OTHER -> "none"

\* The handlers; moveToPlaying is the next four actions.
RunState ==
    /\ At(rm, "run")
    /\ rmState' = CASE rmRunState = "moveToIdle" -> "rm_Idle"
                    [] rmRunState = "moveToPlayingDownloaded" -> "rm_Playing_Downloaded"
                    [] rmRunState = "moveToPlayingScheduleNext" -> "rm_Playing"
                    [] OTHER -> rmState
    /\ GoTo(rm, CASE rmRunState = "moveToPlaying" -> "ready"
                  [] rmRunState \in {"none", "moveToPlayingDownloaded"} -> "idle"
                  [] OTHER -> "schedule")
    /\ UNCHANGED <<dbVars, served, found, download, updates, callVars, stale, boundVars>>

\* getClientRequestForPlaying looks for a slot that is ready ...
FindReady ==
    /\ At(rm, "ready")
    /\ \/ \E i \in SlotIndex :
             /\ schData[i].status = "PL_READY"
             /\ i = 1 => schData[0].status # "PL_READY"
             /\ found' = i
             /\ GoTo(rm, "play")
             /\ UNCHANGED rmState
       \/ /\ \A i \in SlotIndex : schData[i].status # "PL_READY"
          /\ rmState' = "rm_Idle"
          /\ GoTo(rm, "schedule")
          /\ UNCHANGED found
    /\ UNCHANGED <<dbVars, served, download, updates, callVars, stale, boundVars>>

\* ... and takes it, whatever it has become.
SetPlaying ==
    /\ At(rm, "play")
    /\ schData' = [schData EXCEPT ![found].status = "PL_PLAYING"]
    /\ rmState' = "rm_Playing"
    /\ GoTo(rm, "active")
    /\ UNCHANGED <<clientState, waiting, scheduleIndex, served, found, download,
                   updates, callVars, stale, boundVars>>

\* setClientStateActive looks at the client and sets its state; then all clients are told
\* what plays.
ActiveTest ==
    /\ At(rm, "active")
    /\ \/ /\ Registered(schData[found].clientId)
          /\ GoTo(rm, "activate")
          /\ UNCHANGED updates
       \/ /\ ~Registered(schData[found].clientId)
          /\ GoTo(rm, "schedule")
          /\ Update(ClientId)
    /\ UNCHANGED <<dbVars, rmState, served, found, download, callVars, stale, boundVars>>

SetActive ==
    /\ At(rm, "activate")
    /\ clientState' = [clientState EXCEPT ![schData[found].clientId] = "active"]
    /\ GoTo(rm, "schedule")
    /\ Update(ClientId)
    /\ UNCHANGED <<waiting, schData, scheduleIndex, rmState, served, found, download,
                   callVars, stale, boundVars>>

\* getClientRequestForDownloading gives G_OK, and the request becomes a job.
callSchedular(id) ==
    /\ At(rm, "schedule")
    /\ schData[scheduleIndex].status = "PL_NONE"
    /\ waiting[id] > 0
    /\ waiting' = [waiting EXCEPT ![id] = @ - 1]
    /\ schData' = [schData EXCEPT ![scheduleIndex] = [clientId |-> id, status |-> "PL_DOWNLOADING"]]
    /\ scheduleIndex' = (scheduleIndex + 1) % 2
    /\ download' = [clntId |-> id, state |-> "running"]
    /\ rmState' = CASE rmState = "rm_Idle" -> "rm_Downloading"
                    [] rmState = "rm_Playing" -> "rm_Playing_Downloading"
                    [] OTHER -> rmState
    /\ GoTo(rm, "idle")
    /\ UNCHANGED <<clientState, served, found, updates, callVars, stale, boundVars>>

\* The slot is taken, or the scheduler finds no song.
callSchedularNoClient ==
    /\ At(rm, "schedule")
    /\ GoTo(rm, "idle")
    /\ UNCHANGED <<dbVars, rmVars, callVars, stale, boundVars>>

RmStep ==
    \/ Deregister(rm)
    \/ \E id \in ClientId :
          \/ registerClient(id) \/ StartDeregister(id) \/ AddTest(id) \/ deleteFromQueue(id)
          \/ callSchedular(id)
    \/ AddSong \/ Refused \/ ServeAnswer \/ SetAnswered \/ NotifyEnds \/ NotifyConnectFails
    \/ RunState \/ FindReady \/ SetPlaying \/ ActiveTest \/ SetActive \/ callSchedularNoClient

DroppingNext ==
    \/ RmStep
    \/ \E w \in Worker : WorkerStep(w)
    \/ \E msgId \in {"rm_dw_complete_m", "rm_dw_err_m"} : DownloadEnds(msgId)

DroppingSpec == DroppingInit /\ [][DroppingNext]_dropVars

----------------------------------------------------------------------------
(* What has to hold.                                                        *)

Answers == {"rm_dw_complete_m", "rm_dw_err_m"}
AwaitingDownload == rmState \in {"rm_Downloading", "rm_Playing_Downloading"}
InPlaying == rmState \in {"rm_Playing", "rm_Playing_Downloading", "rm_Playing_Downloaded"}

\* The answer has been served and the state machine has not run on it.
AnswerServed ==
    /\ served \in Answers
    /\ \/ at[rm] \in {"notify", "run"}
       \/ at[rm] \in DeregisterPc /\ back[rm] = "run"

\* The state machine waits for a download exactly while one is running or its answer has
\* not been served, and schedules no other, however workers clear slots, drop clients and
\* post errors for downloads that cannot connect, even when the song that was ready is
\* gone (serverRoutine.c:234-239, resourceManager.c:353-376).
OneAnswerIsAwaited ==
    /\ IF AwaitingDownload /\ ~AnswerServed /\ at[rm] \notin {"ready", "play"}
       THEN download.state # "none"
       ELSE download.state = "none"
    /\ at[rm] = "schedule" => ~AwaitingDownload

\* The one thing that workers can break is what a stale PL_READY breaks: as long as none
\* was cleared late, the slot of every answer is there and no other waits for one, one
\* slot plays exactly while a song is played, and one is ready only while that is
\* expected, whoever drops clients between the steps of the resource manager
\* (clientdb.c:152-161, 285-296, 325-345, 683-718).
OnlyStaleClearsHurt ==
    stale \/
    /\ \A i \in SlotIndex :
          schData[i].status = "PL_DOWNLOADING" <=> download.state # "none" /\ i # scheduleIndex
    /\ download.state # "none" => ~Mismatch
    /\ InPlaying <=> \E i \in SlotIndex : schData[i].status = "PL_PLAYING"
    /\ \A i \in SlotIndex :
          schData[i].status = "PL_READY" =>
             \/ rmState = "rm_Playing_Downloaded"
             \/ AnswerServed /\ served = "rm_dw_complete_m"
             \/ at[rm] \in {"ready", "play"}
    /\ schData[0].status = schData[1].status => schData[0].status = "PL_NONE"

----------------------------------------------------------------------------
(* What the code says, and it does not do.                                  *)

\* clientdb.c:294: that there is no slot is a "FATAL ERROR, MissMatch between downloading
\* request and response".
EveryAnswerHasSlot ==
    download.state # "none" => ~Mismatch
=============================================================================
