------------------------------ MODULE PlayList ------------------------------
(***************************************************************************)
(* The playlist of playlist.c: one linked list of requested songs per      *)
(* client, and the round-robin scheduler over them.  Every operation but   *)
(* the full test of addToPlayList is one critical section of playListLock, *)
(* so each is one step here.                                               *)
(*                                                                         *)
(* A list is the sequence of its nodes (list.c); totalNode is kept beside  *)
(* it because deleteOneFromListHaving does not keep the two together.      *)
(* The payload and size of an entry are not modelled.                      *)
(***************************************************************************)
EXTENDS Integers, Sequences, SequencesExt

CONSTANTS
    MaxClient,     \* MAX_CLIENT, the number of client slots
    MaxPlayList,   \* MAX_PLAYLIST, the size at which the playlist is full
    Token,         \* the tokens clients give to their requests
    CharIsSigned,  \* whether the compiler's plain char is signed
    U32            \* 2^32, the modulus of the unsigned counters

ASSUME PlayListAssumption ==
    /\ MaxClient \in 2..255
    /\ MaxPlayList \in Nat \ {0}
    /\ CharIsSigned \in BOOLEAN
    /\ U32 \in Nat /\ U32 > MaxPlayList

ClientId == 0 .. MaxClient - 1

\* What a char that was assigned -1 reads as: on x86, and with the
\* arm-linux-gnueabihf compiler of the Makefile.
MinusOne == IF CharIsSigned THEN -1 ELSE 255

SongStatus == {"PL_WAITING", "PL_DOWNLOADING", "PL_READY", "PL_PLAYING"}

Song == [token : Token, plStatus : SongStatus]

VARIABLES
    pList,                     \* pList[id]: the songs of client id, first node first
    totalNode,                 \* totalNode[id]: the node count of that list
    playListSize,
    currentPlayingClient,
    currentDownloadingClient

plVars == <<pList, totalNode, playListSize, currentPlayingClient,
            currentDownloadingClient>>

listVars == <<pList, totalNode>>

PlayListTypeOK ==
    /\ pList \in [ClientId -> Seq(Song)]
    /\ totalNode \in [ClientId -> 0 .. U32 - 1]
    /\ playListSize \in 0 .. U32 - 1
    /\ currentPlayingClient \in ClientId \cup {MinusOne}
    /\ currentDownloadingClient \in ClientId \cup {MinusOne}

initPlayList ==
    /\ pList = [id \in ClientId |-> <<>>]
    /\ totalNode = [id \in ClientId |-> 0]
    /\ playListSize = 0
    /\ currentPlayingClient = MinusOne
    /\ currentDownloadingClient = MinusOne

----------------------------------------------------------------------------
(* deleteOneFromListHaving of list.c, with the three tests it is given.     *)

\* Node k is the first of the list whose field has the value.
FirstHaving(id, k, field, value) ==
    /\ k \in DOMAIN pList[id]
    /\ pList[id][k][field] = value
    /\ \A m \in 1 .. k - 1 : pList[id][m][field] # value

NoneHaving(id, field, value) ==
    \A k \in DOMAIN pList[id] : pList[id][k][field] # value

\* Only the deletion of the first node, by deleteFirst, counts the list down.
DeleteNode(id, k) ==
    /\ pList' = [pList EXCEPT ![id] = RemoveAt(@, k)]
    /\ totalNode' = [totalNode EXCEPT ![id] = IF k = 1 THEN (@ - 1) % U32 ELSE @]

deleteOneFromListHaving(id, field, value) ==
    \/ \E k \in DOMAIN pList[id] : FirstHaving(id, k, field, value) /\ DeleteNode(id, k)
    \/ NoneHaving(id, field, value) /\ UNCHANGED listVars

----------------------------------------------------------------------------
(* The operations of PLAYLIST.                                              *)

PlayListFull == playListSize >= MaxPlayList

\* Only addition to a list that has nodes is counted.
addToPlayListUncounted(id, tok) ==
    /\ ~PlayListFull
    /\ pList' = [pList EXCEPT ![id] = Append(@, [token |-> tok, plStatus |-> "PL_WAITING"])]
    /\ totalNode' = [totalNode EXCEPT ![id] = IF pList[id] = <<>> THEN @ ELSE (@ + 1) % U32]
    /\ playListSize' = (playListSize + 1) % U32
    /\ UNCHANGED <<currentPlayingClient, currentDownloadingClient>>

addToPlayList(id, tok) ==
    /\ ~PlayListFull
    /\ pList' = [pList EXCEPT ![id] = Append(@, [token |-> tok, plStatus |-> "PL_WAITING"])]
    /\ totalNode' = [totalNode EXCEPT ![id] = (@ + 1) % U32]
    /\ playListSize' = (playListSize + 1) % U32
    /\ UNCHANGED <<currentPlayingClient, currentDownloadingClient>>

\* "playListSize = ok ? playListSize-- : playListSize" stores the old value back.
deleteDownloading ==
    /\ currentDownloadingClient \in ClientId
    /\ deleteOneFromListHaving(currentDownloadingClient, "plStatus", "PL_DOWNLOADING")
    /\ UNCHANGED <<playListSize, currentPlayingClient, currentDownloadingClient>>

\* The index deletePlaying uses was never set: it works outside the array.
WildPlaying == currentPlayingClient \notin ClientId

deletePlaying ==
    /\ ~WildPlaying
    /\ deleteOneFromListHaving(currentPlayingClient, "plStatus", "PL_PLAYING")
    /\ playListSize' =
          IF NoneHaving(currentPlayingClient, "plStatus", "PL_PLAYING")
          THEN playListSize
          ELSE (playListSize - 1) % U32
    /\ UNCHANGED <<currentPlayingClient, currentDownloadingClient>>

\* What lies there may read as an empty list.
deletePlayingWild ==
    /\ WildPlaying
    /\ UNCHANGED plVars

\* deleteAllFromList counts down once per node it frees.
deleteFromPlayList(id) ==
    /\ playListSize' = (playListSize - totalNode[id]) % U32
    /\ pList' = [pList EXCEPT ![id] = <<>>]
    /\ totalNode' = [totalNode EXCEPT ![id] = (@ - Len(pList[id])) % U32]
    /\ UNCHANGED <<currentPlayingClient, currentDownloadingClient>>

deleteFromClientHavingToken(id, tok) ==
    /\ deleteOneFromListHaving(id, "token", tok)
    /\ UNCHANGED <<playListSize, currentPlayingClient, currentDownloadingClient>>

\* Moves the first song of the client that has the status before; the client
\* becomes the playing one whichever status is set.
setPlayListStatus(id, status) ==
    LET before == IF status = "PL_PLAYING" THEN "PL_READY" ELSE "PL_DOWNLOADING"
    IN  /\ \/ \E k \in DOMAIN pList[id] :
                 /\ FirstHaving(id, k, "plStatus", before)
                 /\ pList' = [pList EXCEPT ![id][k].plStatus = status]
                 /\ currentPlayingClient' = id
           \/ /\ NoneHaving(id, "plStatus", before)
              /\ UNCHANGED <<pList, currentPlayingClient>>
        /\ UNCHANGED <<totalNode, playListSize, currentDownloadingClient>>

----------------------------------------------------------------------------
(* playListSchedular, asked for a song to download.                         *)

HeadWaiting(id) == pList[id] # <<>> /\ pList[id][1].plStatus = "PL_WAITING"

\* Without the increment before the first test.
ProbeFromCurrent(n) == (currentDownloadingClient + n - 1) % (MaxClient - 1)

\* The client tried in round n of the loop.
Probe(n) == (currentDownloadingClient + n) % (MaxClient - 1)

NoHeadWaiting == \A n \in 1 .. MaxClient : ~HeadWaiting(Probe(n))

\* No first song waits and currentDownloadingClient, still (char)-1, passes the
\* test for a negative value: pList is read outside the array.
WildScheduling ==
    /\ NoHeadWaiting
    /\ currentDownloadingClient \notin ClientId
    /\ currentDownloadingClient >= 0

\* Node k of client id is what the scheduler picks: the first song of the first
\* client in turn, or else the second song of the client whose turn it was.
Scheduled(id, k) ==
    \/ /\ k = 1
       /\ \E n \in 1 .. MaxClient :
             /\ id = Probe(n)
             /\ HeadWaiting(id)
             /\ \A m \in 1 .. n - 1 : ~HeadWaiting(Probe(m))
    \/ /\ NoHeadWaiting
       /\ id = currentDownloadingClient
       /\ k = 2
       /\ Len(pList[id]) >= 2
       /\ pList[id][2].plStatus = "PL_WAITING"

NothingScheduled == \A id \in ClientId : ~Scheduled(id, 1) /\ ~Scheduled(id, 2)

\* The client scheduled is not remembered.
getOneForDownloadingForgets(id, k) ==
    /\ Scheduled(id, k)
    /\ pList' = [pList EXCEPT ![id][k].plStatus = "PL_DOWNLOADING"]
    /\ UNCHANGED <<totalNode, playListSize, currentPlayingClient,
                   currentDownloadingClient>>

getOneForDownloading(id, k) ==
    /\ Scheduled(id, k)
    /\ currentDownloadingClient' = id
    /\ pList' = [pList EXCEPT ![id][k].plStatus = "PL_DOWNLOADING"]
    /\ UNCHANGED <<totalNode, playListSize, currentPlayingClient>>
=============================================================================
