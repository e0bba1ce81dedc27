----------------------------- MODULE MCTransfers -----------------------------
(***************************************************************************)
(* Model-checking instance of the parts that hold and hand on data: the    *)
(* lists, the updates sent to all clients, the connections of clients, the *)
(* files that are downloaded and the slots that songs go through while     *)
(* clients are dropped.  They are checked side by side: a behaviour is one *)
(* of one part, chosen in the initial state, while the others stay in      *)
(* theirs.                                                                 *)
(***************************************************************************)
EXTENDS Download

CONSTANTS
    Node, Data, NULL, MaxTotal,
    MaxClient, Token, MaxUpdates, MaxDrops,
    Client, Fd, Msg, Worker, MaxRequests,
    MaxSongClient, MaxSongRequests, MaxFailures

VARIABLES
    part,
    used, next, data, first, last, totalNode,
    registered, update, drops,
    peer, unread, asked, answers, allocated, clntMsg, payLoads, workQueue, job, jobPc,
    rmQueue, rmMsg, rmPc,
    clientState, waiting, schData, scheduleIndex, rmState, served, found, download, updates,
    at, client, slotAt, seen, back, stale, messages, failures

List == INSTANCE LinkedList
Telling == INSTANCE Updates
Talk == INSTANCE Connection
Slots == INSTANCE Dropping WITH MaxClient <- MaxSongClient, MaxRequests <- MaxSongRequests

listVars == <<used, next, data, first, last, totalNode>>
updateVars == <<registered, update, drops>>
talkVars ==
    <<peer, unread, asked, answers, allocated, clntMsg, payLoads, workQueue, job, jobPc,
      rmQueue, rmMsg, rmPc>>
slotsVars ==
    <<clientState, waiting, schData, scheduleIndex, rmState, served, found, download, updates,
      at, client, slotAt, seen, back, stale, messages, failures>>

ASSUME TransfersAssumption ==
    /\ NULL \notin Node \cup Data \cup Client \cup Fd \cup Msg
    /\ IsFiniteSet(Node) /\ IsFiniteSet(Client)
    /\ MaxTotal \in Nat /\ MaxUpdates \in Nat /\ MaxDrops \in Nat /\ MaxRequests \in Nat
    /\ MaxClient \in Nat \ {0} /\ MaxSongClient \in Nat \ {0}
    /\ "rm" \notin Worker
    /\ MaxSongRequests \in Nat /\ MaxFailures \in Nat
    /\ Token \subseteq [1 .. 4 -> 0 .. 255]

\* A token whose bytes are not the same in reverse.
Tokens == {<<1, 2, 3, 4>>}

\* Two songs whose client and token are the same, one after the other: both are stored
\* in one file, and one ends inside a block.
Songs == {1, 2}
Lengths == <<5, 3>>
FileNames == <<"c0t1", "c0t1">>

TransfersInit ==
    /\ part \in {"list", "updates", "connections", "downloads", "slots"}
    /\ List!Init
    /\ Telling!Init
    /\ Talk!Init
    /\ Slots!DroppingInit
    /\ Init

TransfersNext ==
    /\ UNCHANGED part
    /\ \/ part = "list" /\ List!Next /\ UNCHANGED <<updateVars, talkVars, slotsVars, vars>>
       \/ part = "updates" /\ Telling!Next /\ UNCHANGED <<listVars, talkVars, slotsVars, vars>>
       \/ part = "connections" /\ Talk!Next /\ UNCHANGED <<listVars, updateVars, slotsVars, vars>>
       \/ part = "downloads" /\ Next /\ UNCHANGED <<listVars, updateVars, talkVars, slotsVars>>
       \/ part = "slots" /\ Slots!DroppingNext /\ UNCHANGED <<listVars, updateVars, talkVars, vars>>

TransfersSpec ==
    TransfersInit /\ [][TransfersNext]_<<part, listVars, updateVars, talkVars, slotsVars, vars>>

----------------------------------------------------------------------------
(* The properties of the other parts, under the names they have there;     *)
(* those of the downloads are in scope.                                    *)

\* Every variable of every part has its type.
TransfersTypeOK == List!TypeOK /\ Telling!TypeOK /\ Talk!TypeOK /\ Slots!DroppingTypeOK /\ TypeOK

\* What is allocated is what the list leads to (list.c:127, 247-254).
NoNodeIsLost == List!NoNodeIsLost

\* The operations of list.c are those of a sequence and a count.
ImplementsSeqList == List!ImplementsSeqList

\* Every client that stays is told of every event once (clientdb.c:642-683).
EveryoneElseIsTold == Telling!EveryoneElseIsTold

\* What each client receives is what was queued, but for the bytes that encodePacket
\* swapped in place (clientdb.c:569-594, packet.c:78-114).
PacketsArrive == Telling!PacketsArrive

\* A connection, its memory and its descriptor are given back once
\* (serverRoutine.c:21-193).
ConnectionsAreOwned == Talk!ConnectionsAreOwned

\* Answers come in the order of the requests, one for each at most.
AnswersFollowRequests == Talk!AnswersFollowRequests

\* A download is awaited exactly while there is one, whoever drops clients
\* (serverRoutine.c:234-239, resourceManager.c:353-376).
OneAnswerIsAwaited == Slots!OneAnswerIsAwaited

\* Unless a worker clears a slot by a PL_READY it read too long ago, the slots agree with
\* the state machine and the download, whoever drops clients (clientdb.c:152-161, 683-718).
OnlyStaleClearsHurt == Slots!OnlyStaleClearsHurt
=============================================================================
