---------------------------- MODULE ThreadsProofs ----------------------------
(***************************************************************************)
(* Proofs about the parts in which threads wait for each other, each for   *)
(* any value of its constants.                                             *)
(*                                                                         *)
(* Inbox: the resource manager serves its messages as a JobPool with one   *)
(* worker.                                                                 *)
(*                                                                         *)
(* ClientTable: registerClient and deregisterClient take no lock; that no  *)
(* two registered clients have one address rests on the order in which the *)
(* slots are searched: of the slots that hold an address, a registered one *)
(* is the first, and the slot a registration takes is never behind it.     *)
(*                                                                         *)
(* Player: the jobs that share one handle, one file name and one stop flag *)
(* are kept apart by nothing, yet each leaves the handle closed or to      *)
(* another job that closes it.                                             *)
(*                                                                         *)
(* Jukebox: the type of its search.                                        *)
(*                                                                         *)
(* MCThreads: a behaviour of its specification is one of each part.        *)
(***************************************************************************)
EXTENDS MCThreads, SequenceTheorems, TLAPS

-----------------------------------------------------------------------------
(* The inbox.                                                               *)

\* A message is being served exactly when the resource manager is at servRequest.
ServesOne == rmPc = "serve" <=> rmsg # NoMsg

\* What has been queued, is served or has been served was posted.
OnlyPosted ==
    /\ \A k \in DOMAIN rmQueue : post[rmQueue[k]] # "new"
    /\ rmsg # NoMsg => post[rmsg] # "new"
    /\ \A m \in served : post[m] # "new"

InboxInv == TypeOK /\ ServesOne /\ OnlyPosted

-----------------------------------------------------------------------------
(* The invariant is inductive.                                              *)

LEMMA InboxInit == Init => InboxInv
  BY DEF Init, InboxInv, TypeOK, RmPc, ServesOne, OnlyPosted

LEMMA EnqueueStep == ASSUME InboxInv, NEW m \in RmMsg, Enqueue(m) PROVE InboxInv'
<1> USE InboxAssumption DEF InboxInv, TypeOK, Enqueue
<1>1. /\ rmQueue' \in Seq(RmMsg) /\ DOMAIN rmQueue' = 1 .. Len(rmQueue) + 1
      /\ DOMAIN rmQueue = 1 .. Len(rmQueue) /\ Len(rmQueue) \in Nat
      /\ \A k \in 1 .. Len(rmQueue) : rmQueue'[k] = rmQueue[k]
      /\ rmQueue'[Len(rmQueue) + 1] = m
  BY AppendProperties, LenProperties
<1>2. TypeOK'
  BY <1>1
<1>3. ServesOne'
  BY DEF ServesOne
<1>4. OnlyPosted'
  <2>1. \A k \in DOMAIN rmQueue : rmQueue[k] \in RmMsg
    OBVIOUS
  <2>2. \A n \in RmMsg : post[n] # "new" => post'[n] # "new"
    OBVIOUS
  <2>3. ASSUME NEW k \in DOMAIN rmQueue' PROVE post'[rmQueue'[k]] # "new"
    BY <1>1, <2>1, <2>2 DEF OnlyPosted
  <2> QED BY <2>2, <2>3 DEF OnlyPosted
<1> QED BY <1>2, <1>3, <1>4

LEMMA DequeueStep == ASSUME InboxInv, Dequeue PROVE InboxInv'
<1> USE InboxAssumption DEF InboxInv, TypeOK, Dequeue
<1>1. /\ rmQueue' \in Seq(RmMsg) /\ DOMAIN rmQueue' = 1 .. Len(rmQueue) - 1
      /\ DOMAIN rmQueue = 1 .. Len(rmQueue) /\ Len(rmQueue) \in Nat \ {0}
      /\ \A k \in DOMAIN rmQueue' : rmQueue'[k] = rmQueue[k + 1]
      /\ Head(rmQueue) = rmQueue[1] /\ Head(rmQueue) \in RmMsg
  BY HeadTailProperties, LenProperties, EmptySeq
<1>2. TypeOK'
  BY <1>1 DEF RmPc
<1>3. ServesOne'
  BY <1>1 DEF ServesOne
<1>4. OnlyPosted'
  BY <1>1 DEF OnlyPosted
<1> QED BY <1>2, <1>3, <1>4

LEMMA InboxStep == ASSUME InboxInv, [Next]_vars PROVE InboxInv'
<1> USE InboxAssumption DEF InboxInv, TypeOK, RmPc
<1>1. ASSUME NEW m \in RmMsg, Signal(m) PROVE InboxInv'
  <2>1. TypeOK'
    BY <1>1 DEF Signal
  <2>2. ServesOne'
    BY <1>1 DEF Signal, ServesOne
  <2>3. OnlyPosted'
    BY <1>1 DEF Signal, OnlyPosted
  <2> QED BY <2>1, <2>2, <2>3
<1>2. ASSUME NEW from, NEW to \in RmPc \ {"serve"}, from # "serve", RmGoes(from, to) PROVE InboxInv'
  BY <1>2 DEF RmGoes, ServesOne, OnlyPosted
<1>3. StartJukeBox \/ Lock \/ Wait \/ RelockAndUnlock \/ SpuriousWakeup \/ QueueEmpty => InboxInv'
  BY <1>2 DEF StartJukeBox, Lock, Wait, RelockAndUnlock, SpuriousWakeup, QueueEmpty
<1>4. ASSUME ServRequest PROVE InboxInv'
  <2>1. TypeOK'
    BY <1>4 DEF ServRequest, ServesOne
  <2>2. ServesOne'
    BY <1>4 DEF ServRequest, ServesOne
  <2>3. OnlyPosted'
    BY <1>4 DEF ServRequest, ServesOne, OnlyPosted
  <2> QED BY <2>1, <2>2, <2>3
<1>5. ASSUME UNCHANGED vars PROVE InboxInv'
  BY <1>5 DEF vars, ServesOne, OnlyPosted
<1> QED BY <1>1, <1>3, <1>4, <1>5, EnqueueStep, DequeueStep DEF Next, RmStep

\* Every variable keeps its type (resourceManager.c:100-134).
THEOREM InboxTypeCorrect == Spec => []TypeOK
<1>1. InboxInv => TypeOK
  BY DEF InboxInv
<1> QED BY <1>1, InboxInit, InboxStep, PTL DEF Spec

-----------------------------------------------------------------------------
(* The inbox implements JobPool.                                            *)

LEMMA AbstractInit == Init => Abstract!Init
  BY InboxAssumption DEF Init, Abstract!Init

LEMMA AbstractStep ==
    ASSUME InboxInv, [Next]_vars
    PROVE  [Abstract!Next]_Abstract!poolVars
<1> USE InboxAssumption DEF InboxInv, TypeOK
<1>1. ASSUME NEW m \in RmMsg, Enqueue(m) PROVE Abstract!Submit(m)
  <2>1. m \notin Abstract!Known
    BY <1>1 DEF Enqueue, Abstract!Known, OnlyPosted
  <2> QED BY <1>1, <2>1 DEF Enqueue, Abstract!Submit
<1>2. ASSUME Dequeue PROVE Abstract!Start
  <2>1. Head(rmQueue) \in RmMsg
    BY <1>2, HeadTailProperties DEF Dequeue
  <2>2. rmsg = NoMsg
    BY <1>2 DEF Dequeue, ServesOne
  <2> QED BY <1>2, <2>1, <2>2 DEF Dequeue, Abstract!Start
<1>3. ASSUME ServRequest PROVE rmsg \in RmMsg /\ Abstract!Finish(rmsg)
  BY <1>3 DEF ServRequest, ServesOne, Abstract!Finish
<1>4. ASSUME \/ \E m \in RmMsg : Signal(m)
             \/ StartJukeBox \/ Lock \/ Wait \/ RelockAndUnlock \/ SpuriousWakeup \/ QueueEmpty
             \/ UNCHANGED vars
      PROVE  UNCHANGED Abstract!poolVars
  BY <1>4 DEF Signal, StartJukeBox, Lock, Wait, RelockAndUnlock, SpuriousWakeup, QueueEmpty,
              RmGoes, vars, Abstract!poolVars
<1> QED BY <1>1, <1>2, <1>3, <1>4 DEF Next, RmStep, Abstract!Next

\* Messages are served in the order in which postMsgToRmQueue enqueued them, each once and
\* one at a time, whatever becomes of their signals (resourceManager.c:105, 128-129).
THEOREM MessagesServedInOrder == Spec => ServesInOrder
  BY AbstractInit, AbstractStep, InboxInit, InboxStep, PTL DEF Spec, ServesInOrder, Abstract!Spec

-----------------------------------------------------------------------------
(* The client table.                                                        *)

\* Of the slots with one address a registered one comes first.
FirstOfAddress ==
    \A id \in registered, k \in ClientId :
        clientIP[id] = clientIP[k] /\ clientIP[id] # NoIP => id <= k

\* The resource manager deregisters an old session for a registration.
EndsOldSession == pc[rm] \in {"dereg", "songs", "ip", "state"} /\ ret[rm] = "findFree"

Registers == EndsOldSession \/ pc[rm] \in {"findIP", "findFree", "setIP", "setState"}

\* What the search for a slot has found out, which no worker can undo.
Searched ==
    /\ Registers => clntInfo # NoIP
    /\ Registers => \A k \in ClientId : k < i[rm] => clientIP[k] # clntInfo
    /\ EndsOldSession => \A k \in registered : clientIP[k] = clntInfo => k = i[rm]
    /\ pc[rm] \in {"findFree", "setIP", "setState"} =>
          \A k \in registered : clientIP[k] # clntInfo
    /\ pc[rm] \in {"setIP", "setState"} => i[rm] \notin registered
    /\ pc[rm] = "setState" => clientIP[i[rm]] \in {clntInfo, NoIP}

TableInv == TableTypeOK /\ FirstOfAddress /\ Searched

-----------------------------------------------------------------------------
(* The initial state, and the types.                                        *)

LEMMA InitTableInv == ASSUME TableInit PROVE TableInv
<1> USE TableAssumption DEF TableInit, ClientId, Thread
<1>1. TableTypeOK
  <2>1. /\ pc \in [Thread -> Pc]
        /\ i \in [Thread -> ClientId]
        /\ ret \in [Thread -> {"idle", "findFree", "again", "unlock"}]
        /\ clientIP \in [ClientId -> Host \cup {NoIP}]
    BY DEF Pc
  <2>2. requests \in 0 .. MaxRequests /\ drops \in 0 .. MaxDrops
    OBVIOUS
  <2>3. /\ registered \subseteq ClientId /\ withSongs \subseteq ClientId
        /\ jobs \subseteq ClientId /\ downloading \subseteq ClientId
        /\ playListLock \in Thread \cup {NoThread}
        /\ clntInfo \in Host \cup {NoIP}
        /\ updating \in BOOLEAN
    OBVIOUS
  <2> QED BY <2>1, <2>2, <2>3 DEF TableTypeOK
<1>2. FirstOfAddress
  BY DEF FirstOfAddress
<1>3. Searched
  BY DEF Searched, Registers, EndsOldSession
<1> QED BY <1>1, <1>2, <1>3 DEF TableInv

\* The actions, by whose they are.
LEMMA Steps ==
  ASSUME TableNext
  PROVE  \/ \E t \in Thread : Deregister(t)
         \/ FindIP \/ FindFree \/ SetIP \/ SetState \/ AddSong
         \/ \E host \in Host : StartRegister(host)
         \/ \E id \in ClientId : AddTest(id) \/ Schedule(id) \/ StartDeregister(id)
         \/ \E w \in Worker :
               \/ DeregisterAgain(w) \/ LockPlayList(w) \/ SendAllEnds(w) \/ UnlockPlayList(w)
               \/ DownloadEnds(w) \/ SendAllConnectFails(w)
               \/ \E id \in ClientId :
                     \/ DownloadConnectFails(w, id) \/ UpdateConnectFails(w, id)
                     \/ StartSendAll(w, id)
  BY DEF TableNext, Begin, Continue

LEMMA TypeStep == ASSUME TableTypeOK, TableNext PROVE TableTypeOK'
<1> USE TableAssumption DEF TableTypeOK, Thread, Pc, GoTo, At, slotVars, jobVars, boundVars
<1>1. ASSUME NEW t \in Thread, DeregisterTest(t) PROVE TableTypeOK'
  BY <1>1 DEF DeregisterTest, Return, ClientId
<1>2. ASSUME NEW t \in Thread, DeleteSongs(t) PROVE TableTypeOK'
  BY <1>2 DEF DeleteSongs
<1>3. ASSUME NEW t \in Thread, ClearIP(t) PROVE TableTypeOK'
  BY <1>3 DEF ClearIP
<1>4. ASSUME NEW t \in Thread, ClearState(t) PROVE TableTypeOK'
  <2>1. pc' \in [Thread -> Pc] /\ i' \in [Thread -> ClientId]
    BY <1>4 DEF ClearState, Return, ClientId
  <2> QED BY <1>4, <2>1 DEF ClearState
<1>5. ASSUME FindIP PROVE TableTypeOK'
  BY <1>5 DEF FindIP, NextSlot, CallDeregister, ClientId
<1>6. ASSUME FindFree PROVE TableTypeOK'
  BY <1>6 DEF FindFree, NextSlot, ClientId
<1>7. ASSUME SetIP PROVE TableTypeOK'
  BY <1>7 DEF SetIP
<1>8. ASSUME SetState PROVE TableTypeOK'
  BY <1>8 DEF SetState
<1>9. ASSUME AddSong PROVE TableTypeOK'
  BY <1>9 DEF AddSong
<1>10. ASSUME NEW host \in Host, StartRegister(host) PROVE TableTypeOK'
  BY <1>10 DEF StartRegister, Request, ClientId
<1>11. ASSUME NEW id \in ClientId, AddTest(id) PROVE TableTypeOK'
  BY <1>11 DEF AddTest, Request
<1>12. ASSUME NEW id \in ClientId, Schedule(id) PROVE TableTypeOK'
  BY <1>12 DEF Schedule, Request
<1>13. ASSUME NEW id \in ClientId, StartDeregister(id) PROVE TableTypeOK'
  BY <1>13 DEF StartDeregister, Request, CallDeregister
<1>14. ASSUME NEW w \in Worker, DeregisterAgain(w) PROVE TableTypeOK'
  BY <1>14 DEF DeregisterAgain, CallDeregister
<1>15. ASSUME NEW w \in Worker, LockPlayList(w) PROVE TableTypeOK'
  BY <1>15 DEF LockPlayList
<1>16. ASSUME NEW w \in Worker, SendAllEnds(w) PROVE TableTypeOK'
  BY <1>16 DEF SendAllEnds
<1>17. ASSUME NEW w \in Worker, UnlockPlayList(w) PROVE TableTypeOK'
  BY <1>17 DEF UnlockPlayList
<1>18. ASSUME NEW w \in Worker, DownloadEnds(w) PROVE TableTypeOK'
  BY <1>18 DEF DownloadEnds
<1>19. ASSUME NEW w \in Worker, SendAllConnectFails(w) PROVE TableTypeOK'
  BY <1>19 DEF SendAllConnectFails, Drop, CallDeregister
<1>20. ASSUME NEW w \in Worker, NEW id \in ClientId, DownloadConnectFails(w, id) PROVE TableTypeOK'
  BY <1>20 DEF DownloadConnectFails, Drop, CallDeregister
<1>21. ASSUME NEW w \in Worker, NEW id \in ClientId, UpdateConnectFails(w, id) PROVE TableTypeOK'
  BY <1>21 DEF UpdateConnectFails, Drop, CallDeregister
<1>22. ASSUME NEW w \in Worker, NEW id \in ClientId, StartSendAll(w, id) PROVE TableTypeOK'
  BY <1>22 DEF StartSendAll
<1> QED BY <1>1, <1>2, <1>3, <1>4, <1>5, <1>6, <1>7, <1>8, <1>9, <1>10, <1>11, <1>12, <1>13, <1>14, <1>15, <1>16, <1>17, <1>18, <1>19, <1>20, <1>21, <1>22, Steps DEF Deregister

-----------------------------------------------------------------------------
(* FirstOfAddress and Searched.                                             *)

\* The resource manager is where it was; addresses and slots may have been cleared.
LEMMA OnlyCleared ==
  ASSUME TableInv,
         \A k \in ClientId : clientIP'[k] \in {clientIP[k], NoIP},
         registered' \subseteq registered,
         pc'[rm] = pc[rm], i'[rm] = i[rm], ret'[rm] = ret[rm], clntInfo' = clntInfo
  PROVE  FirstOfAddress' /\ Searched'
<1> USE DEF TableInv, TableTypeOK
<1>1. FirstOfAddress'
  BY DEF FirstOfAddress
<1>2. Searched'
  <2>1. i[rm] \in ClientId
    BY DEF Thread
  <2> QED BY <2>1 DEF Searched, Registers, EndsOldSession
<1> QED BY <1>1, <1>2

\* A worker, or what it calls.
LEMMA WorkerStep ==
  ASSUME TableInv, NEW w \in Worker,
         \/ Deregister(w)
         \/ DeregisterAgain(w) \/ LockPlayList(w) \/ SendAllEnds(w) \/ UnlockPlayList(w)
         \/ DownloadEnds(w) \/ SendAllConnectFails(w)
         \/ \E id \in ClientId :
               DownloadConnectFails(w, id) \/ UpdateConnectFails(w, id) \/ StartSendAll(w, id)
  PROVE  FirstOfAddress' /\ Searched'
<1>1. w # rm /\ rm \in Thread /\ w \in Thread
  BY TableAssumption DEF Thread
<1>2. /\ pc \in [Thread -> Pc] /\ i \in [Thread -> ClientId]
      /\ ret \in [Thread -> {"idle", "findFree", "again", "unlock"}]
      /\ clientIP \in [ClientId -> Host \cup {NoIP}]
  BY DEF TableInv, TableTypeOK
<1>3. pc'[rm] = pc[rm] /\ i'[rm] = i[rm] /\ ret'[rm] = ret[rm] /\ clntInfo' = clntInfo
  BY <1>1, <1>2
     DEF Deregister, DeregisterTest, DeleteSongs, ClearIP, ClearState, Return, DeregisterAgain,
         LockPlayList, SendAllEnds, UnlockPlayList, DownloadEnds, SendAllConnectFails,
         DownloadConnectFails, UpdateConnectFails, StartSendAll, CallDeregister, GoTo
<1>4. registered' \subseteq registered /\ \A k \in ClientId : clientIP'[k] \in {clientIP[k], NoIP}
  BY <1>2
     DEF Deregister, DeregisterTest, DeleteSongs, ClearIP, ClearState, DeregisterAgain,
         LockPlayList, SendAllEnds, UnlockPlayList, DownloadEnds, SendAllConnectFails,
         DownloadConnectFails, UpdateConnectFails, StartSendAll, slotVars
<1> QED BY <1>3, <1>4, OnlyCleared

\* The resource manager deregisters a client, for a registration or because it was asked to.
LEMMA DeregisterStep ==
  ASSUME TableInv, Deregister(rm)
  PROVE  FirstOfAddress' /\ Searched'
<1> USE DEF GoTo, At
<1>1. /\ pc \in [Thread -> Pc] /\ i \in [Thread -> ClientId] /\ rm \in Thread
      /\ ret \in [Thread -> {"idle", "findFree", "again", "unlock"}]
      /\ clientIP \in [ClientId -> Host \cup {NoIP}]
      /\ registered \subseteq ClientId
  BY DEF TableInv, TableTypeOK, Thread
<1>2. clntInfo' = clntInfo /\ ret' = ret
  BY DEF Deregister, DeregisterTest, DeleteSongs, ClearIP, ClearState
<1>3. registered' \subseteq registered /\ \A k \in ClientId : clientIP'[k] \in {clientIP[k], NoIP}
  BY <1>1 DEF Deregister, DeregisterTest, DeleteSongs, ClearIP, ClearState, slotVars
<1>4. FirstOfAddress'
  BY <1>1, <1>3 DEF TableInv, FirstOfAddress
<1>5. CASE pc'[rm] \in {"songs", "ip", "state"} /\ i'[rm] = i[rm]
  <2>1. pc[rm] \in {"dereg", "songs", "ip", "state"}
    BY DEF Deregister, DeregisterTest, DeleteSongs, ClearIP, ClearState
  <2>2. Searched'
    BY <1>1, <1>2, <1>3, <1>5, <2>1 DEF TableInv, Searched, Registers, EndsOldSession
  <2> QED BY <1>4, <2>2
<1>6. CASE Return(rm) /\ At(rm, "dereg") /\ i[rm] \notin registered
  <2>1. pc'[rm] = ret[rm]
    BY <1>1, <1>6 DEF Return
  <2>2. CASE ret[rm] # "findFree"
    BY <1>1, <1>4, <2>1, <2>2 DEF Searched, Registers, EndsOldSession
  <2>3. CASE ret[rm] = "findFree"
    <3>1. EndsOldSession /\ Registers
      BY <1>6, <2>3 DEF EndsOldSession, Registers
    <3>2. clntInfo # NoIP /\ \A k \in registered : clientIP[k] # clntInfo
      BY <1>6, <3>1 DEF TableInv, Searched
    <3>3. i'[rm] = 0
      BY <1>1, <1>6, <2>3 DEF Return
    <3>4. Searched'
      BY <1>1, <1>2, <1>3, <2>1, <2>3, <3>2, <3>3 DEF Searched, Registers, EndsOldSession, ClientId
    <3> QED BY <1>4, <3>4
  <2> QED BY <2>2, <2>3
<1>7. CASE ClearState(rm)
  <2>1. pc'[rm] = ret[rm] /\ registered' = registered \ {i[rm]} /\ At(rm, "state")
    BY <1>1, <1>7 DEF ClearState, Return
  <2>2. CASE ret[rm] # "findFree"
    BY <1>1, <1>4, <2>1, <2>2 DEF Searched, Registers, EndsOldSession
  <2>3. CASE ret[rm] = "findFree"
    <3>1. EndsOldSession /\ Registers
      BY <2>1, <2>3 DEF EndsOldSession, Registers
    <3>2. clntInfo # NoIP /\ \A k \in registered : clientIP[k] = clntInfo => k = i[rm]
      BY <3>1 DEF TableInv, Searched
    <3>3. i'[rm] = 0
      BY <1>1, <1>7, <2>3 DEF ClearState, Return
    <3>4. Searched'
      BY <1>1, <1>2, <1>3, <2>1, <2>3, <3>2, <3>3 DEF Searched, Registers, EndsOldSession, ClientId
    <3> QED BY <1>4, <3>4
  <2> QED BY <2>2, <2>3
<1>8. DeregisterTest(rm) \/ DeleteSongs(rm) \/ ClearIP(rm) =>
         \/ pc'[rm] \in {"songs", "ip", "state"} /\ i'[rm] = i[rm]
         \/ Return(rm) /\ At(rm, "dereg") /\ i[rm] \notin registered
  BY <1>1 DEF DeregisterTest, DeleteSongs, ClearIP
<1> QED BY <1>5, <1>6, <1>7, <1>8 DEF Deregister

\* The steps of a registration.
LEMMA RegisterStep ==
  ASSUME TableInv, FindIP \/ FindFree \/ SetIP \/ SetState
  PROVE  FirstOfAddress' /\ Searched'
<1> USE DEF GoTo, At
<1>1. /\ pc \in [Thread -> Pc] /\ i \in [Thread -> ClientId] /\ rm \in Thread
      /\ clientIP \in [ClientId -> Host \cup {NoIP}]
      /\ registered \subseteq ClientId
      /\ i[rm] \in 0 .. MaxClient - 1 /\ MaxClient \in Nat
  BY TableAssumption DEF TableInv, TableTypeOK, Thread, ClientId
<1>2. CASE FindIP
  <2>1. Registers /\ clntInfo # NoIP /\ \A k \in ClientId : k < i[rm] => clientIP[k] # clntInfo
    BY <1>2 DEF FindIP, TableInv, Searched, Registers
  <2>2. UNCHANGED <<clientIP, registered, clntInfo>>
    BY <1>2 DEF FindIP, slotVars
  <2>3. FirstOfAddress'
    BY <2>2 DEF TableInv, FirstOfAddress, ClientId
  <2>4. CASE clientIP[i[rm]] = clntInfo
    <3>1. pc'[rm] = "dereg" /\ i'[rm] = i[rm]
      BY <1>1, <1>2, <2>4 DEF FindIP, CallDeregister
    <3>2. \A k \in registered : clientIP[k] = clntInfo => k = i[rm]
      BY <1>1, <2>1, <2>4 DEF TableInv, FirstOfAddress, ClientId
    <3> QED BY <2>1, <2>2, <2>3, <3>1, <3>2 DEF Searched, Registers, EndsOldSession, ClientId
  <2>5. CASE clientIP[i[rm]] # clntInfo
    <3>1. \/ pc'[rm] = "findIP" /\ i'[rm] = i[rm] + 1
          \/ pc'[rm] = "findFree" /\ i'[rm] = 0 /\ i[rm] = MaxClient - 1
      BY <1>1, <1>2, <2>5 DEF FindIP, NextSlot
    <3>2. CASE pc'[rm] = "findIP" /\ i'[rm] = i[rm] + 1
      BY <1>1, <2>1, <2>2, <2>3, <2>5, <3>2 DEF Searched, Registers, EndsOldSession, ClientId
    <3>3. CASE pc'[rm] = "findFree" /\ i'[rm] = 0 /\ i[rm] = MaxClient - 1
      BY <1>1, <2>1, <2>2, <2>3, <2>5, <3>3 DEF Searched, Registers, EndsOldSession, ClientId
    <3> QED BY <3>1, <3>2, <3>3
  <2> QED BY <2>4, <2>5
<1>3. CASE FindFree
  <2>1. /\ clntInfo # NoIP /\ \A k \in ClientId : k < i[rm] => clientIP[k] # clntInfo
        /\ \A k \in registered : clientIP[k] # clntInfo
    BY <1>3 DEF FindFree, TableInv, Searched, Registers
  <2>2. UNCHANGED <<clientIP, registered, clntInfo>>
    BY <1>3 DEF FindFree, slotVars
  <2>3. FirstOfAddress'
    BY <2>2 DEF TableInv, FirstOfAddress, ClientId
  <2>4. CASE i[rm] \notin registered
    <3>1. pc'[rm] = "setIP" /\ i'[rm] = i[rm]
      BY <1>1, <1>3, <2>4 DEF FindFree
    <3> QED BY <2>1, <2>2, <2>3, <2>4, <3>1 DEF Searched, Registers, EndsOldSession, ClientId
  <2>5. CASE i[rm] \in registered
    <3>1. \/ pc'[rm] = "findFree" /\ i'[rm] = i[rm] + 1
          \/ pc'[rm] = "idle"
      BY <1>1, <1>3, <2>5 DEF FindFree, NextSlot
    <3>2. clientIP[i[rm]] # clntInfo
      BY <2>1, <2>5
    <3> QED BY <1>1, <2>1, <2>2, <2>3, <3>1, <3>2
            DEF Searched, Registers, EndsOldSession, ClientId
  <2> QED BY <2>4, <2>5
<1>4. CASE SetIP
  <2>1. /\ clntInfo # NoIP /\ \A k \in ClientId : k < i[rm] => clientIP[k] # clntInfo
        /\ \A k \in registered : clientIP[k] # clntInfo
        /\ i[rm] \notin registered
    BY <1>4 DEF SetIP, TableInv, Searched, Registers
  <2>2. /\ clientIP' = [clientIP EXCEPT ![i[rm]] = clntInfo]
        /\ pc'[rm] = "setState"
        /\ UNCHANGED <<registered, clntInfo, i>>
    BY <1>1, <1>4 DEF SetIP
  <2>3. FirstOfAddress'
    BY <1>1, <2>1, <2>2 DEF TableInv, FirstOfAddress, ClientId
  <2> QED BY <1>1, <2>1, <2>2, <2>3 DEF Searched, Registers, EndsOldSession, ClientId
<1>5. CASE SetState
  <2>1. /\ \A k \in ClientId : k < i[rm] => clientIP[k] # clntInfo
        /\ \A k \in registered : clientIP[k] # clntInfo
        /\ clientIP[i[rm]] \in {clntInfo, NoIP}
    BY <1>5 DEF SetState, TableInv, Searched, Registers
  <2>2. registered' = registered \cup {i[rm]} /\ clientIP' = clientIP /\ pc'[rm] = "idle"
    BY <1>1, <1>5 DEF SetState
  <2>3. FirstOfAddress'
    BY <1>1, <2>1, <2>2 DEF TableInv, FirstOfAddress, ClientId
  <2>4. Searched'
    BY <2>2 DEF Searched, Registers, EndsOldSession
  <2> QED BY <2>3, <2>4
<1> QED BY <1>2, <1>3, <1>4, <1>5

\* The steps that begin what the resource manager does, or add or schedule a song.
LEMMA RequestStep ==
  ASSUME TableInv,
         \/ AddSong
         \/ \E host \in Host : StartRegister(host)
         \/ \E id \in ClientId : AddTest(id) \/ Schedule(id) \/ StartDeregister(id)
  PROVE  FirstOfAddress' /\ Searched'
<1>1. /\ pc \in [Thread -> Pc] /\ i \in [Thread -> ClientId] /\ rm \in Thread
      /\ ret \in [Thread -> {"idle", "findFree", "again", "unlock"}]
  BY DEF TableInv, TableTypeOK, Thread
<1>2. UNCHANGED <<clientIP, registered>>
  BY DEF AddSong, StartRegister, AddTest, Schedule, StartDeregister, slotVars
<1>3. FirstOfAddress'
  BY <1>2 DEF TableInv, FirstOfAddress, ClientId
<1>4. \/ pc'[rm] \in {"idle", "add"}
      \/ pc'[rm] = "dereg" /\ ret'[rm] = "idle"
      \/ pc'[rm] = "findIP" /\ i'[rm] = 0 /\ clntInfo' \in Host
  BY <1>1 DEF AddSong, StartRegister, AddTest, Schedule, StartDeregister, CallDeregister,
              Request, GoTo, At
<1>5. Searched'
  BY <1>4, TableAssumption DEF Searched, Registers, EndsOldSession, ClientId
<1> QED BY <1>3, <1>5

-----------------------------------------------------------------------------
(* The theorems.                                                            *)

LEMMA StepTableInv == ASSUME TableInv, [TableNext]_tableVars PROVE TableInv'
<1>1. CASE TableNext
  <2>1. TableTypeOK'
    BY <1>1, TypeStep DEF TableInv
  <2>2. FirstOfAddress' /\ Searched'
    BY <1>1, Steps, WorkerStep, DeregisterStep, RegisterStep, RequestStep DEF Thread
  <2> QED BY <2>1, <2>2 DEF TableInv
<1>2. CASE UNCHANGED tableVars
  BY <1>2 DEF tableVars, slotVars, jobVars, boundVars, TableInv, TableTypeOK, FirstOfAddress, Searched,
              Registers, EndsOldSession, ClientId
<1> QED BY <1>1, <1>2

\* Every variable of the client table keeps its type, whoever is interrupted where
\* (clientdb.c:96-166).
THEOREM TableTypeCorrect == TableSpec => []TableTypeOK
<1>1. TableInit => TableInv
  BY InitTableInv
<1>2. TableInv /\ [TableNext]_tableVars => TableInv'
  BY StepTableInv
<1>3. TableInv => TableTypeOK
  BY DEF TableInv
<1> QED BY <1>1, <1>2, <1>3, PTL DEF TableSpec

\* Two registered clients never have the same address, although a registration and any
\* number of deregistrations of the slots it looks at are interleaved (clientdb.c:106-133).
THEOREM AddressesAreUnique == TableSpec => []OneSessionPerAddress
<1>1. TableInit => TableInv
  BY InitTableInv
<1>2. TableInv /\ [TableNext]_tableVars => TableInv'
  BY StepTableInv
<1>3. TableInv => OneSessionPerAddress
  BY DEF TableInv, TableTypeOK, FirstOfAddress, OneSessionPerAddress, ClientId
<1> QED BY <1>1, <1>2, <1>3, PTL DEF TableSpec

-----------------------------------------------------------------------------
(* The player.                                                              *)

PlayerMsg == {"rm_mplayerDone_m", "rm_mplayerStop_m", "rm_mplayerErr_m"}
InLoop == {"read", "test", "stop", "close"}

\* TypeOK of Playback, without the file names.
PlayerTypeOK ==
    /\ playPc \in [Player!Job -> Player!JobPc]
    /\ posted \in Seq(PlayerMsg)
    /\ jbPc \in {"start", "wait", "choose"}
    /\ clientMsgs \in Nat
    /\ stop \in BOOLEAN

PlayerInv == PlayerTypeOK /\ Player!OpenFileIsRead

LEMMA PlayerInitInv == Player!Init => PlayerInv
<1> SUFFICES ASSUME Player!Init PROVE PlayerInv
  OBVIOUS
<1> USE DEF Player!Init
<1>1. PlayerTypeOK
  <2>1. posted \in Seq(PlayerMsg)
    OBVIOUS
  <2>2. playPc \in [Player!Job -> Player!JobPc]
    BY DEF Player!JobPc
  <2> QED BY <2>1, <2>2 DEF PlayerTypeOK
<1>2. Player!OpenFileIsRead
  BY DEF Player!OpenFileIsRead
<1> QED BY <1>1, <1>2 DEF PlayerInv

\* A job is called.
LEMMA JobQueued ==
    ASSUME PlayerInv, Player!Queue, jbPc' \in {"start", "wait", "choose"}, handle' = handle,
           stop' = stop, posted' = posted, clientMsgs' \in Nat
    PROVE  PlayerInv'
<1>1. PICK j \in Player!Job :
         playPc[j] = "none" /\ playPc' = [playPc EXCEPT ![j] = "queued"]
  BY DEF Player!Queue
<1>2. PlayerTypeOK'
  BY <1>1 DEF PlayerInv, PlayerTypeOK, Player!JobPc
<1>3. Player!OpenFileIsRead'
  BY <1>1 DEF PlayerInv, PlayerTypeOK, Player!OpenFileIsRead
<1> QED BY <1>2, <1>3 DEF PlayerInv

\* The resource manager takes a message.
LEMMA PlayerMsgTaken ==
    ASSUME PlayerInv, posted # <<>>, posted' = Tail(posted), jbPc' \in {"wait", "choose"},
           UNCHANGED <<handle, playPc, stop, clientMsgs>>
    PROVE  PlayerInv'
<1>1. Tail(posted) \in Seq(PlayerMsg)
  BY HeadTailProperties DEF PlayerInv, PlayerTypeOK
<1> QED BY <1>1 DEF PlayerInv, PlayerTypeOK, Player!OpenFileIsRead

LEMMA PlayerRmStep ==
    ASSUME PlayerInv, Player!RmStep \/ Player!StopJukeBox \/ Player!moveToPlaying PROVE PlayerInv'
<1> USE DEF Player!playerVars
<1>1. CASE Player!StartJukeBox
  BY <1>1 DEF Player!StartJukeBox, Player!ChooseSong, PlayerInv, PlayerTypeOK,
              Player!OpenFileIsRead
<1>2. CASE Player!ServDone
  BY <1>2, PlayerMsgTaken DEF Player!ServDone, Player!ChooseSong
<1>3. CASE Player!ServStop
  BY <1>3, PlayerMsgTaken DEF Player!ServStop
<1>4. ASSUME NEW song \in RandomSong, Player!PlayRandomSong(song) PROVE PlayerInv'
  BY <1>4, JobQueued DEF Player!PlayRandomSong, PlayerInv, PlayerTypeOK
<1>5. CASE Player!StopJukeBox
  BY <1>5 DEF Player!StopJukeBox, PlayerInv, PlayerTypeOK, Player!OpenFileIsRead
<1>6. CASE Player!moveToPlaying
  BY <1>6, JobQueued DEF Player!moveToPlaying, PlayerInv, PlayerTypeOK
<1> QED BY <1>1, <1>2, <1>3, <1>4, <1>5, <1>6 DEF Player!RmStep

\* A job goes on, and posts nothing.
LEMMA JobGoesOn ==
    ASSUME PlayerInv, NEW j \in Player!Job, NEW to \in InLoop,
           playPc[j] \in {"open", "read", "test"}, playPc' = [playPc EXCEPT ![j] = to],
           UNCHANGED <<stop, posted, jbPc, clientMsgs>>
    PROVE  PlayerInv'
<1>1. PlayerTypeOK'
  BY DEF PlayerInv, PlayerTypeOK, Player!JobPc, InLoop
<1>2. Player!OpenFileIsRead'
  BY DEF PlayerInv, PlayerTypeOK, Player!OpenFileIsRead, InLoop
<1> QED BY <1>1, <1>2 DEF PlayerInv

\* A job returns, with its message.
LEMMA JobReturns ==
    ASSUME PlayerInv, NEW j \in Player!Job, NEW msgId \in PlayerMsg,
           playPc' = [playPc EXCEPT ![j] = "ended"], posted' = Append(posted, msgId),
           handle' = NoSong, stop' \in {stop, FALSE}, UNCHANGED <<jbPc, clientMsgs>>
    PROVE  PlayerInv'
<1>1. posted' \in Seq(PlayerMsg)
  BY AppendProperties DEF PlayerInv, PlayerTypeOK
<1>2. PlayerTypeOK'
  BY <1>1 DEF PlayerInv, PlayerTypeOK, Player!JobPc
<1>3. Player!OpenFileIsRead'
  BY DEF Player!OpenFileIsRead
<1> QED BY <1>2, <1>3 DEF PlayerInv

\* A worker takes the job from the queue.
LEMMA PickedStep == ASSUME PlayerInv, NEW j \in Player!Job, Player!Picked(j) PROVE PlayerInv'
<1> USE DEF Player!Picked, Player!Goes
<1>1. PlayerTypeOK'
  BY DEF PlayerInv, PlayerTypeOK, Player!JobPc
<1>2. Player!OpenFileIsRead'
  BY DEF PlayerInv, PlayerTypeOK, Player!OpenFileIsRead
<1> QED BY <1>1, <1>2 DEF PlayerInv

LEMMA playSongStep == ASSUME PlayerInv, NEW j \in Player!Job, Player!playSong(j) PROVE PlayerInv'
<1> USE DEF Player!Goes
<1>1. CASE Player!Open(j)
  BY <1>1, JobGoesOn DEF InLoop, Player!Open
<1>2. CASE Player!OpenFails(j)
  BY <1>2, JobReturns DEF Player!OpenFails, PlayerMsg
<1>3. CASE Player!Read(j)
  BY <1>3, JobGoesOn DEF InLoop, Player!Read
<1>4. CASE Player!TestStop(j)
  <2>1. CASE stop
    BY <1>4, <2>1, JobGoesOn DEF InLoop, Player!TestStop
  <2>2. CASE ~stop
    BY <1>4, <2>2, JobGoesOn DEF InLoop, Player!TestStop
  <2> QED BY <2>1, <2>2
<1>5. CASE Player!Stopped(j)
  BY <1>5, JobReturns DEF Player!Stopped, Player!Close, PlayerMsg
<1>6. CASE Player!Done(j)
  BY <1>6, JobReturns DEF Player!Done, Player!Close, PlayerMsg
<1> QED BY <1>1, <1>2, <1>3, <1>4, <1>5, <1>6 DEF Player!playSong

LEMMA PlayerSafe == Player!Spec => []PlayerInv
<1>1. PlayerInv /\ [Player!Next]_(Player!vars) => PlayerInv'
  <2> SUFFICES ASSUME PlayerInv, [Player!Next]_(Player!vars) PROVE PlayerInv'
    OBVIOUS
  <2>1. CASE UNCHANGED Player!vars
    BY <2>1 DEF Player!vars, Player!playerVars, PlayerInv, PlayerTypeOK, Player!OpenFileIsRead
  <2> QED BY <2>1, PlayerRmStep, PickedStep, playSongStep DEF Player!Next
<1> QED BY PlayerInitInv, <1>1, PTL DEF Player!Spec

\* When no job is in its loop, the handle is closed, however many jobs have opened it and
\* closed it under each other (musicPlayer.c:52-73).
THEOREM NoFileStaysOpen == Player!Spec => []OpenFileIsRead
<1>1. PlayerInv => OpenFileIsRead
  BY DEF PlayerInv, OpenFileIsRead
<1> QED BY PlayerSafe, <1>1, PTL

\* What TypeOK of Playback says and PlayerTypeOK does not.
PlayerBound ==
    /\ fileName \in {"jukebox", "slot"}
    /\ jbFile \in RandomSong \cup {NoSong}
    /\ handle \in Player!AnySong
    /\ left \in 0 .. Frames
    /\ clientMsgs \in 0 .. MaxMsgs
    /\ handed \in BOOLEAN

LEMMA PlayerBoundRmStep ==
    ASSUME PlayerBound, Player!RmStep \/ Player!StopJukeBox \/ Player!moveToPlaying
    PROVE  PlayerBound'
<1> USE ThreadsAssumption DEF PlayerBound, Player!playerVars
<1>1. CASE Player!StartJukeBox \/ Player!ServDone
  BY <1>1 DEF Player!StartJukeBox, Player!ServDone, Player!ChooseSong
<1>2. CASE Player!ServStop
  BY <1>2 DEF Player!ServStop
<1>3. ASSUME NEW song \in RandomSong, Player!PlayRandomSong(song) PROVE PlayerBound'
  BY <1>3 DEF Player!PlayRandomSong
<1>4. CASE Player!StopJukeBox
  BY <1>4 DEF Player!StopJukeBox
<1>5. CASE Player!moveToPlaying
  BY <1>5 DEF Player!moveToPlaying
<1> QED BY <1>1, <1>2, <1>3, <1>4, <1>5 DEF Player!RmStep

LEMMA PlayerBoundJobStep ==
    ASSUME PlayerBound, NEW j \in Player!Job, Player!playSong(j) PROVE PlayerBound'
<1> USE ThreadsAssumption DEF PlayerBound, Player!AnySong
<1>1. CASE Player!Open(j)
  BY <1>1 DEF Player!Open, Player!FileName
<1>2. CASE Player!OpenFails(j)
  BY <1>2 DEF Player!OpenFails
<1>3. CASE Player!Read(j)
  <2>1. left' \in 0 .. Frames
    BY <1>3 DEF Player!Read
  <2> QED BY <1>3, <2>1 DEF Player!Read
<1>4. CASE Player!TestStop(j)
  BY <1>4 DEF Player!TestStop
<1>5. CASE Player!Stopped(j)
  BY <1>5 DEF Player!Stopped, Player!Close
<1>6. CASE Player!Done(j)
  BY <1>6 DEF Player!Done, Player!Close
<1> QED BY <1>1, <1>2, <1>3, <1>4, <1>5, <1>6 DEF Player!playSong

LEMMA PlayerBoundPicked ==
    ASSUME PlayerBound, NEW j \in Player!Job, Player!Picked(j) PROVE PlayerBound'
  BY DEF PlayerBound, Player!Picked

LEMMA PlayerType == Player!Spec => []Player!TypeOK
<1>1. Player!Init => PlayerBound
  <2>1. 0 \in 0 .. Frames /\ 0 \in 0 .. MaxMsgs
    BY ThreadsAssumption
  <2> QED BY <2>1 DEF Player!Init, PlayerBound, Player!AnySong
<1>2. PlayerBound /\ [Player!Next]_(Player!vars) => PlayerBound'
  <2> SUFFICES ASSUME PlayerBound, [Player!Next]_(Player!vars) PROVE PlayerBound'
    OBVIOUS
  <2>1. CASE UNCHANGED Player!vars
    BY <2>1 DEF Player!vars, Player!playerVars, PlayerBound
  <2> QED BY <2>1, PlayerBoundRmStep, PlayerBoundPicked, PlayerBoundJobStep DEF Player!Next
<1>3. PlayerInv /\ PlayerBound => Player!TypeOK
  BY DEF PlayerInv, PlayerTypeOK, PlayerMsg, PlayerBound, Player!TypeOK
<1> QED BY <1>1, <1>2, <1>3, PlayerSafe, PTL DEF Player!Spec

-----------------------------------------------------------------------------
(* The jukebox.                                                             *)

\* The jukebox is in a directory or has found a song: what lists an entry is a directory.
LEMMA SearchType == Search!Spec => []Search!TypeOK
<1> USE ThreadsAssumption DEF Search!TypeOK
<1>1. Search!Init => Search!TypeOK
  BY DEF Search!Init
<1>2. ASSUME Search!TypeOK, NEW e \in Search!Entry, Search!Descend(e) PROVE Search!TypeOK'
  <2>1. e \in Dir \cup Song /\ parent[e] = path
    BY <1>2 DEF Search!Descend, Search!Listed, Search!Entry
  <2>2. path \in Dir
    BY <1>2, <2>1 DEF Search!Trees
  <2> QED BY <1>2, <2>1, <2>2 DEF Search!Descend
<1>3. ASSUME Search!TypeOK, Search!GoBack PROVE Search!TypeOK'
  BY <1>3 DEF Search!GoBack
<1>4. Search!TypeOK /\ [Search!Next]_(Search!vars) => Search!TypeOK'
  <2> SUFFICES ASSUME Search!TypeOK, [Search!Next]_(Search!vars) PROVE Search!TypeOK'
    OBVIOUS
  <2>1. CASE UNCHANGED Search!vars
    BY <2>1 DEF Search!vars
  <2> QED BY <1>2, <1>3, <2>1
          DEF Search!Next, Search!NothingListed, Search!Choose, Search!ChooseOther
<1> QED BY <1>1, <1>4, PTL DEF Search!Spec

-----------------------------------------------------------------------------
(* The run: a behaviour of the specification of MCThreads is one of each    *)
(* part, since the parts that do not run stay in their initial state.       *)

LEMMA ThreadsBehave ==
    ThreadsSpec => Spec /\ TableSpec /\ Player!Spec /\ Search!Spec
<1> DEFINE allVars == <<part, vars, tableVars, playerVars, searchVars>>
<1>1. ThreadsInit => Init /\ TableInit /\ Player!Init /\ Search!Init
  BY DEF ThreadsInit
<1>2. [ThreadsNext]_allVars => [Next]_vars
  BY DEF ThreadsNext
<1>3. [ThreadsNext]_allVars => [TableNext]_tableVars
  BY DEF ThreadsNext
<1>4. [ThreadsNext]_allVars => [Player!Next]_(Player!vars)
  BY DEF ThreadsNext, playerVars, Player!vars, Player!playerVars
<1>5. [ThreadsNext]_allVars => [Search!Next]_(Search!vars)
  BY DEF ThreadsNext, searchVars, Search!vars
<1>6. ThreadsSpec => ThreadsInit /\ [][ThreadsNext]_allVars
  BY PTL DEF ThreadsSpec
<1> QED BY <1>1, <1>2, <1>3, <1>4, <1>5, <1>6, PTL
        DEF Spec, TableSpec, Player!Spec, Search!Spec

\* Every variable keeps its type in each of the parts, whatever its threads interrupt.
THEOREM ThreadsTypeCorrect == ThreadsSpec => []ThreadsTypeOK
<1>1. TypeOK /\ TableTypeOK /\ Player!TypeOK /\ Search!TypeOK => ThreadsTypeOK
  BY DEF ThreadsTypeOK
<1> QED BY <1>1, ThreadsBehave, InboxTypeCorrect, TableTypeCorrect, PlayerType, SearchType, PTL

\* What is proved of each part holds of them all together, in every behaviour that the run
\* threads explores a bounded part of.
THEOREM ThreadsAreSafe ==
    ThreadsSpec =>
        /\ [](OneSessionPerAddress /\ OpenFileIsRead)
        /\ ServesInOrder
<1> QED
  BY ThreadsBehave, AddressesAreUnique, NoFileStaysOpen, MessagesServedInOrder, PTL
==============================================================================
