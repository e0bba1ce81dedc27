----------------------------- MODULE ClientTable -----------------------------
(***************************************************************************)
(* Registration and deregistration of clientdb.c in the steps between      *)
(* which a thread can be interrupted, and playListLock with its owner.     *)
(*                                                                         *)
(* The resource manager registers clients, adds their songs and            *)
(* deregisters them; workers deregister whoever they cannot connect to.    *)
(* All of them read and write clientState and clientIP with no lock; only  *)
(* the songs are under playListLock.  The scheduling slots are the module  *)
(* Dropping.                                                               *)
(***************************************************************************)
EXTENDS Naturals

CONSTANTS
    MaxClient,    \* MAX_CLIENT
    Host,         \* IP addresses of clients
    NoIP,         \* address 0
    Worker,       \* the workers of the pool
    NoThread,     \* nobody holds playListLock
    MaxRequests,  \* bound: messages the resource manager serves
    MaxDrops      \* bound: connections to clients that fail

rm == "rm"

\* As many clients as are wanted, with the addresses they have.
ASSUME TableAssumption ==
    /\ MaxClient \in Nat \ {0}
    /\ NoIP \notin Host
    /\ rm \notin Worker
    /\ NoThread \notin Worker \cup {rm}
    /\ MaxRequests \in Nat /\ MaxDrops \in Nat

Thread == Worker \cup {rm}

ClientId == 0 .. MaxClient - 1

VARIABLES
    registered,    \* the clients whose state is not clnt_unregister_state
    clientIP,
    withSongs,     \* the clients whose list in the playlist is not empty
    playListLock,  \* the thread that holds it, or NoThread
    pc,            \* where each thread is
    i,             \* the slot each thread is working on
    ret,           \* where each thread's deregisterClient returns to
    clntInfo,      \* the address the resource manager is registering
    jobs,          \* clients a sendAllUpdateToClient job was queued for
    downloading,   \* clients a getMP3FileFromClient job is not finished for
    updating,      \* some sendOneUpdateToAllClient job was queued
    requests,
    drops

slotVars == <<registered, clientIP>>
jobVars == <<jobs, downloading, updating>>
boundVars == <<requests, drops>>
tableVars == <<slotVars, withSongs, playListLock, pc, i, ret, clntInfo, jobVars, boundVars>>

(***************************************************************************)
(* "idle": between two messages or jobs.  deregisterClient: "dereg",       *)
(* "songs", "ip", "state".  registerClient: "findIP", "findFree",          *)
(* "setIP", "setState".  "add": addToQueue after its test.  "again": the   *)
(* second deregisterClient of an update.  sendAllUpdateToClient: "lock",   *)
(* "walk", "unlock".                                                       *)
(***************************************************************************)
Pc == {"idle", "dereg", "songs", "ip", "state", "findIP", "findFree", "setIP",
       "setState", "add", "again", "lock", "walk", "unlock"}

TableTypeOK ==
    /\ registered \subseteq ClientId
    /\ clientIP \in [ClientId -> Host \cup {NoIP}]
    /\ withSongs \subseteq ClientId
    /\ playListLock \in Thread \cup {NoThread}
    /\ pc \in [Thread -> Pc]
    /\ i \in [Thread -> ClientId]
    /\ ret \in [Thread -> {"idle", "findFree", "again", "unlock"}]
    /\ clntInfo \in Host \cup {NoIP}
    /\ jobs \subseteq ClientId
    /\ downloading \subseteq ClientId
    /\ updating \in BOOLEAN
    /\ requests \in 0 .. MaxRequests
    /\ drops \in 0 .. MaxDrops

TableInit ==
    /\ registered = {}
    /\ clientIP = [id \in ClientId |-> NoIP]
    /\ withSongs = {}
    /\ playListLock = NoThread
    /\ pc = [t \in Thread |-> "idle"]
    /\ i = [t \in Thread |-> 0]
    /\ ret = [t \in Thread |-> "idle"]
    /\ clntInfo = NoIP
    /\ jobs = {}
    /\ downloading = {}
    /\ updating = FALSE
    /\ requests = 0
    /\ drops = 0

At(t, label) == pc[t] = label

GoTo(t, label) == pc' = [pc EXCEPT ![t] = label]

LockFree == playListLock = NoThread

----------------------------------------------------------------------------
(* deregisterClient(id) called by thread t.                                 *)

CallDeregister(t, id, returnTo) ==
    /\ pc' = [pc EXCEPT ![t] = "dereg"]
    /\ i' = [i EXCEPT ![t] = id]
    /\ ret' = [ret EXCEPT ![t] = returnTo]

\* The search for a free slot begins at 0.
Return(t) ==
    /\ GoTo(t, ret[t])
    /\ i' = [i EXCEPT ![t] = IF ret[t] = "findFree" THEN 0 ELSE @]

DeregisterTest(t) ==
    /\ At(t, "dereg")
    /\ IF i[t] \in registered THEN GoTo(t, "songs") /\ UNCHANGED i ELSE Return(t)
    /\ UNCHANGED <<slotVars, withSongs, playListLock, ret, clntInfo, jobVars, boundVars>>

\* deleteFromPlayList, which takes playListLock and gives it back.
DeleteSongs(t) ==
    /\ At(t, "songs")
    /\ LockFree
    /\ withSongs' = withSongs \ {i[t]}
    /\ GoTo(t, "ip")
    /\ UNCHANGED <<slotVars, playListLock, i, ret, clntInfo, jobVars, boundVars>>

ClearIP(t) ==
    /\ At(t, "ip")
    /\ clientIP' = [clientIP EXCEPT ![i[t]] = NoIP]
    /\ GoTo(t, "state")
    /\ UNCHANGED <<registered, withSongs, playListLock, i, ret, clntInfo, jobVars, boundVars>>

ClearState(t) ==
    /\ At(t, "state")
    /\ registered' = registered \ {i[t]}
    /\ updating' = TRUE
    /\ Return(t)
    /\ UNCHANGED <<clientIP, withSongs, playListLock, ret, clntInfo, jobs,
                   downloading, boundVars>>

Deregister(t) == DeregisterTest(t) \/ DeleteSongs(t) \/ ClearIP(t) \/ ClearState(t)

----------------------------------------------------------------------------
(* The resource manager.                                                    *)

\* A loop over the slots; the next one begins at 0 again.
NextSlot(id) == IF id + 1 < MaxClient THEN id + 1 ELSE 0

Request == At(rm, "idle") /\ requests < MaxRequests /\ requests' = requests + 1

StartRegister(host) ==
    /\ Request
    /\ clntInfo' = host
    /\ i' = [i EXCEPT ![rm] = 0]
    /\ GoTo(rm, "findIP")
    /\ UNCHANGED <<slotVars, withSongs, playListLock, ret, jobVars, drops>>

\* Variant: an old session of the address is left alone.
FindIPLeavesOld ==
    /\ At(rm, "findIP")
    /\ GoTo(rm, "findFree")
    /\ UNCHANGED <<slotVars, withSongs, playListLock, i, ret, clntInfo, jobVars, boundVars>>

\* One round of the loop for an old session of the address.
FindIP ==
    /\ At(rm, "findIP")
    /\ IF clientIP[i[rm]] = clntInfo
       THEN CallDeregister(rm, i[rm], "findFree")
       ELSE /\ i' = [i EXCEPT ![rm] = NextSlot(@)]
            /\ GoTo(rm, IF i[rm] + 1 < MaxClient THEN "findIP" ELSE "findFree")
            /\ UNCHANGED ret
    /\ UNCHANGED <<slotVars, withSongs, playListLock, clntInfo, jobVars, boundVars>>

\* One round of the loop for a free slot; without one the client is refused.
FindFree ==
    /\ At(rm, "findFree")
    /\ IF i[rm] \notin registered
       THEN GoTo(rm, "setIP") /\ UNCHANGED i
       ELSE /\ i' = [i EXCEPT ![rm] = NextSlot(@)]
            /\ GoTo(rm, IF i[rm] + 1 < MaxClient THEN "findFree" ELSE "idle")
    /\ UNCHANGED <<slotVars, withSongs, playListLock, ret, clntInfo, jobVars, boundVars>>

SetIP ==
    /\ At(rm, "setIP")
    /\ clientIP' = [clientIP EXCEPT ![i[rm]] = clntInfo]
    /\ GoTo(rm, "setState")
    /\ UNCHANGED <<registered, withSongs, playListLock, i, ret, clntInfo, jobVars, boundVars>>

\* The slot is the client's; a worker is to send it the songs of the others.
SetState ==
    /\ At(rm, "setState")
    /\ registered' = registered \cup {i[rm]}
    /\ jobs' = jobs \cup {i[rm]}
    /\ GoTo(rm, "idle")
    /\ UNCHANGED <<clientIP, withSongs, playListLock, i, ret, clntInfo, downloading,
                   updating, boundVars>>

\* addToClientQueue: the client is looked at first ...
AddTest(id) ==
    /\ Request
    /\ id \in registered
    /\ i' = [i EXCEPT ![rm] = id]
    /\ GoTo(rm, "add")
    /\ UNCHANGED <<slotVars, withSongs, playListLock, ret, clntInfo, jobVars, drops>>

\* ... and the song is added under playListLock.
AddSong ==
    /\ At(rm, "add")
    /\ LockFree
    /\ withSongs' = withSongs \cup {i[rm]}
    /\ updating' = TRUE
    /\ GoTo(rm, "idle")
    /\ UNCHANGED <<slotVars, playListLock, i, ret, clntInfo, jobs, downloading, boundVars>>

\* A song is scheduled, under playListLock.
Schedule(id) ==
    /\ Request
    /\ LockFree
    /\ downloading = {}
    /\ id \in withSongs
    /\ downloading' = {id}
    /\ UNCHANGED <<slotVars, withSongs, playListLock, pc, i, ret, clntInfo, jobs, updating, drops>>

\* deregister_m
StartDeregister(id) ==
    /\ Request
    /\ CallDeregister(rm, id, "idle")
    /\ UNCHANGED <<slotVars, withSongs, playListLock, clntInfo, jobVars, drops>>

----------------------------------------------------------------------------
(* The workers.                                                             *)

Drop == drops < MaxDrops /\ drops' = drops + 1

\* getMP3FileFromClient ends, or cannot connect.
DownloadEnds(w) ==
    /\ At(w, "idle")
    /\ downloading # {}
    /\ downloading' = {}
    /\ UNCHANGED <<slotVars, withSongs, playListLock, pc, i, ret, clntInfo, jobs, updating, boundVars>>

DownloadConnectFails(w, id) ==
    /\ At(w, "idle")
    /\ id \in downloading
    /\ downloading' = {}
    /\ Drop
    /\ CallDeregister(w, id, "idle")
    /\ UNCHANGED <<slotVars, withSongs, playListLock, clntInfo, jobs, updating, requests>>

\* A sendOneUpdateToAllClient job cannot connect to a client: connectToClient
\* deregisters it, and the job does so again.
UpdateConnectFails(w, id) ==
    /\ At(w, "idle")
    /\ updating
    /\ id \in registered
    /\ Drop
    /\ CallDeregister(w, id, "again")
    /\ UNCHANGED <<slotVars, withSongs, playListLock, clntInfo, jobVars, requests>>

DeregisterAgain(w) ==
    /\ At(w, "again")
    /\ CallDeregister(w, i[w], "idle")
    /\ UNCHANGED <<slotVars, withSongs, playListLock, clntInfo, jobVars, boundVars>>

\* sendAllUpdateToClient
StartSendAll(w, id) ==
    /\ At(w, "idle")
    /\ id \in jobs
    /\ jobs' = jobs \ {id}
    /\ i' = [i EXCEPT ![w] = id]
    /\ GoTo(w, IF id \in registered THEN "lock" ELSE "idle")
    /\ UNCHANGED <<slotVars, withSongs, playListLock, ret, clntInfo, downloading, updating, boundVars>>

LockPlayList(w) ==
    /\ At(w, "lock")
    /\ LockFree
    /\ playListLock' = w
    /\ GoTo(w, "walk")
    /\ UNCHANGED <<slotVars, withSongs, i, ret, clntInfo, jobVars, boundVars>>

\* Variant: without the unlock of the early return for an empty playlist.
SendAllReturnsLocked(w) ==
    /\ At(w, "walk")
    /\ GoTo(w, IF withSongs = {} THEN "idle" ELSE "unlock")
    /\ UNCHANGED <<slotVars, withSongs, playListLock, i, ret, clntInfo, jobVars, boundVars>>

\* Nothing to send, or it is sent, or a send fails.
SendAllEnds(w) ==
    /\ At(w, "walk")
    /\ GoTo(w, "unlock")
    /\ UNCHANGED <<slotVars, withSongs, playListLock, i, ret, clntInfo, jobVars, boundVars>>

\* connectToClient deregisters the client; the lock is still held.
SendAllConnectFails(w) ==
    /\ At(w, "walk")
    /\ i[w] \in registered
    /\ withSongs \ {i[w]} # {}
    /\ Drop
    /\ CallDeregister(w, i[w], "unlock")
    /\ UNCHANGED <<slotVars, withSongs, playListLock, clntInfo, jobVars, requests>>

UnlockPlayList(w) ==
    /\ At(w, "unlock")
    /\ playListLock' = NoThread
    /\ GoTo(w, "idle")
    /\ UNCHANGED <<slotVars, withSongs, i, ret, clntInfo, jobVars, boundVars>>

----------------------------------------------------------------------------

\* What begins a message or a job, or is a connection that fails.
Begin ==
    \/ \E host \in Host : StartRegister(host)
    \/ \E id \in ClientId : AddTest(id) \/ Schedule(id) \/ StartDeregister(id)
    \/ \E w \in Worker :
          \/ DownloadEnds(w)
          \/ SendAllConnectFails(w)
          \/ \E id \in ClientId :
                \/ DownloadConnectFails(w, id) \/ UpdateConnectFails(w, id)
                \/ StartSendAll(w, id)

\* What thread t does next inside an operation.
Continue(t) ==
    \/ Deregister(t)
    \/ t = rm /\ (FindIP \/ FindFree \/ SetIP \/ SetState \/ AddSong)
    \/ t \in Worker /\ (DeregisterAgain(t) \/ LockPlayList(t) \/ SendAllEnds(t) \/ UnlockPlayList(t))

TableNext == Begin \/ \E t \in Thread : Continue(t)

TableSpec == TableInit /\ [][TableNext]_tableVars

\* A thread inside an operation continues, and gets playListLock when it is free
\* again and again; every call on a socket returns.
TableFairSpec == TableSpec /\ \A t \in Thread : SF_tableVars(Continue(t))

----------------------------------------------------------------------------
(* What has to hold.                                                        *)

\* Two registered clients never have the same address, although a worker may clear
\* the address or the state of a slot at any step of a registration: an old session is
\* always found at or above the slot that is free (clientdb.c:106-133).
OneSessionPerAddress ==
    \A id, k \in registered : clientIP[id] = clientIP[k] /\ clientIP[id] # NoIP => id = k

\* A thread that holds playListLock and waits for it (clientdb.c:516).
SelfDeadlock == \E t \in Thread : playListLock = t /\ At(t, "songs")

\* Every operation ends, whoever holds playListLock while it is needed: the one thing
\* that stops a thread is sendAllUpdateToClient deregistering its client.
OperationsEnd ==
    \A t \in Thread : ~At(t, "idle") ~> (At(t, "idle") \/ SelfDeadlock)
=============================================================================
