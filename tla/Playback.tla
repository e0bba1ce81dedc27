------------------------------- MODULE Playback -------------------------------
(***************************************************************************)
(* What the jobs of the player share: mp->fileName, a pointer into the     *)
(* buffer of the jukebox or of a scheduling slot; the one mpg123 handle;   *)
(* and mp->stop (musicPlayer.c, jukebox.c).  A job is a call of playSong.  *)
(*                                                                         *)
(* As resourceManager.c:166 is written the jukebox stays active, so every  *)
(* message of the player is served as the jukebox's and the resource       *)
(* manager hands over one song of a client (see PlayedSongIsRemoved in     *)
(* ResourceManager): that is what happens here.                            *)
(***************************************************************************)
EXTENDS Naturals, Sequences

CONSTANTS
    RandomSong,  \* the songs below JUKEBOX_ROOT_DIR
    ClientSong,  \* the file downloaded from a client
    NoSong,
    Frames,      \* bound: the reads a song takes
    MaxJobs,     \* bound: calls of playSong
    MaxMsgs      \* bound: client messages

Job == 1 .. MaxJobs
AnySong == RandomSong \cup {ClientSong, NoSong}

VARIABLES
    fileName,  \* the buffer mp->fileName points to: "jukebox" or "slot"
    jbFile,    \* jb->fileName; NoSong while a song is being chosen
    handle,    \* the file that mp->mh has open, or NoSong
    left,      \* the reads it will still give
    stop,
    playPc,        \* where each job is in playSong
    posted,    \* the messages of the player, in the order they were posted
    jbPc,      \* whether the resource manager is choosing a random song
    clientMsgs,
    handed     \* bound: whether the client's song has been handed over

playerVars == <<handle, left, playPc>>
vars == <<fileName, jbFile, playerVars, stop, posted, jbPc, clientMsgs, handed>>

(***************************************************************************)
(* "none": not made yet.  "queued": in the queue of the thread pool.       *)
(* "open": called, before mpg123_open.  "read": at mpg123_read.  "test":   *)
(* at the test of stop.  "stop": about to clear it.  "close": after the    *)
(* loop.  "ended": has posted its message.                                 *)
(***************************************************************************)
JobPc == {"none", "queued", "open", "read", "test", "stop", "close", "ended"}

TypeOK ==
    /\ fileName \in {"jukebox", "slot"}
    /\ jbFile \in RandomSong \cup {NoSong}
    /\ handle \in AnySong
    /\ left \in 0 .. Frames
    /\ stop \in BOOLEAN
    /\ playPc \in [Job -> JobPc]
    /\ posted \in Seq({"rm_mplayerDone_m", "rm_mplayerStop_m", "rm_mplayerErr_m"})
    /\ jbPc \in {"start", "wait", "choose"}
    /\ clientMsgs \in 0 .. MaxMsgs
    /\ handed \in BOOLEAN

Init ==
    /\ fileName = "jukebox"
    /\ jbFile = NoSong
    /\ handle = NoSong
    /\ left = 0
    /\ stop = FALSE
    /\ playPc = [j \in Job |-> "none"]
    /\ posted = <<>>
    /\ jbPc = "start"
    /\ clientMsgs = 0
    /\ handed = FALSE

----------------------------------------------------------------------------
(* The resource manager.                                                    *)

\* addJobToQueue(mp->playSong, mp)
Queue ==
    \E j \in Job :
        /\ playPc[j] = "none"
        /\ \A k \in 1 .. j - 1 : playPc[k] # "none"
        /\ playPc' = [playPc EXCEPT ![j] = "queued"]

\* scheduleNextRandomSong: the path in jb->fileName begins at the root directory ...
ChooseSong ==
    /\ jbPc' = "choose"
    /\ jbFile' = NoSong
    /\ UNCHANGED <<fileName, playerVars, stop, clientMsgs, handed>>

StartJukeBox == jbPc = "start" /\ ChooseSong /\ UNCHANGED posted

\* ... which is also what follows every end of a song that was not stopped.
ServDone ==
    /\ jbPc = "wait"
    /\ posted # <<>>
    /\ Head(posted) # "rm_mplayerStop_m"
    /\ posted' = Tail(posted)
    /\ ChooseSong

ServStop ==
    /\ jbPc = "wait"
    /\ posted # <<>>
    /\ Head(posted) = "rm_mplayerStop_m"
    /\ posted' = Tail(posted)
    /\ UNCHANGED <<fileName, jbFile, playerVars, stop, jbPc, clientMsgs, handed>>

\* ... until it is that of a song.
PlayRandomSong(song) ==
    /\ jbPc = "choose"
    /\ jbFile' = song
    /\ fileName' = "jukebox"
    /\ Queue
    /\ jbPc' = "wait"
    /\ UNCHANGED <<handle, left, stop, posted, clientMsgs, handed>>

\* servRequest of a client message that is no registration; the jukebox is active.
StopJukeBox ==
    /\ jbPc = "wait"
    /\ clientMsgs < MaxMsgs
    /\ clientMsgs' = clientMsgs + 1
    /\ stop' = TRUE
    /\ UNCHANGED <<fileName, jbFile, playerVars, posted, jbPc, handed>>

\* moveToPlaying, when the download that a client asked for is complete.
moveToPlaying ==
    /\ jbPc = "wait"
    /\ clientMsgs > 0
    /\ ~handed
    /\ fileName' = "slot"
    /\ Queue
    /\ handed' = TRUE
    /\ UNCHANGED <<jbFile, handle, left, stop, posted, jbPc, clientMsgs>>

----------------------------------------------------------------------------
(* playSong.                                                                *)

Goes(j, to) == playPc' = [playPc EXCEPT ![j] = to]

FileName == IF fileName = "jukebox" THEN jbFile ELSE ClientSong

\* A worker takes the job from the queue, at last (see ThreadPool).
Picked(j) ==
    /\ playPc[j] = "queued"
    /\ Goes(j, "open")
    /\ UNCHANGED <<fileName, jbFile, handle, left, stop, posted, jbPc, clientMsgs, handed>>

\* mpg123_open closes what the handle has open.
Open(j) ==
    /\ playPc[j] = "open"
    /\ FileName # NoSong
    /\ handle' = FileName
    /\ left' = Frames
    /\ Goes(j, "read")
    /\ UNCHANGED <<fileName, jbFile, stop, posted, jbPc, clientMsgs, handed>>

\* The file cannot be opened; what the handle had open is closed all the same.
OpenFails(j) ==
    /\ playPc[j] = "open"
    /\ handle' = NoSong
    /\ left' = 0
    /\ Goes(j, "ended")
    /\ posted' = Append(posted, "rm_mplayerErr_m")
    /\ UNCHANGED <<fileName, jbFile, stop, jbPc, clientMsgs, handed>>

\* Variant: the loop does not look at the result.
ReadEndless(j) ==
    /\ playPc[j] = "read"
    /\ left' = IF left > 0 THEN left - 1 ELSE 0
    /\ Goes(j, "test")
    /\ UNCHANGED <<fileName, jbFile, handle, stop, posted, jbPc, clientMsgs, handed>>

\* mpg123_read gives MPG123_OK, or not: at the end of the file that is open now, or
\* because none is.
Read(j) ==
    /\ playPc[j] = "read"
    /\ left' = IF left > 0 THEN left - 1 ELSE 0
    /\ Goes(j, IF left > 0 THEN "test" ELSE "close")
    /\ UNCHANGED <<fileName, jbFile, handle, stop, posted, jbPc, clientMsgs, handed>>

TestStop(j) ==
    /\ playPc[j] = "test"
    /\ Goes(j, IF stop THEN "stop" ELSE "read")
    /\ UNCHANGED <<fileName, jbFile, handle, left, stop, posted, jbPc, clientMsgs, handed>>

Close(j, msgId) ==
    /\ handle' = NoSong
    /\ left' = 0
    /\ Goes(j, "ended")
    /\ posted' = Append(posted, msgId)
    /\ UNCHANGED <<fileName, jbFile, jbPc, clientMsgs, handed>>

\* Variant: the clean-up is left out.
StoppedStaysOpen(j) ==
    /\ playPc[j] = "stop"
    /\ stop' = FALSE
    /\ Goes(j, "ended")
    /\ posted' = Append(posted, "rm_mplayerStop_m")
    /\ UNCHANGED <<fileName, jbFile, handle, left, jbPc, clientMsgs, handed>>

\* stop is cleared, the handle closed, whoever opened it, and the message posted.
Stopped(j) ==
    /\ playPc[j] = "stop"
    /\ stop' = FALSE
    /\ Close(j, "rm_mplayerStop_m")

Done(j) ==
    /\ playPc[j] = "close"
    /\ Close(j, "rm_mplayerDone_m")
    /\ UNCHANGED stop

playSong(j) == Open(j) \/ OpenFails(j) \/ Read(j) \/ TestStop(j) \/ Stopped(j) \/ Done(j)

RmStep == StartJukeBox \/ ServDone \/ ServStop \/ \E song \in RandomSong : PlayRandomSong(song)

Next ==
    \/ RmStep \/ StopJukeBox \/ moveToPlaying
    \/ \E j \in Job : Picked(j) \/ playSong(j)

Spec == Init /\ [][Next]_vars

\* A job that runs goes on; the pool need not take it from its queue, no client has to
\* send a message and the resource manager need not be woken.
FairSpec == Spec /\ \A j \in Job : WF_vars(playSong(j))

----------------------------------------------------------------------------
(* What has to hold.                                                        *)

\* However many jobs open and close the one handle: when none is in its loop, no file
\* is left open (musicPlayer.c:52, 64-73).
OpenFileIsRead ==
    handle # NoSong => \E j \in Job : playPc[j] \in {"read", "test", "stop", "close"}

\* Whatever happens to its file, no song that a worker has begun keeps it for ever,
\* although jobs read each other's file, and close it under each other
\* (musicPlayer.c:63-80).
EveryJobEnds == \A j \in Job : playPc[j] = "open" ~> playPc[j] = "ended"
=============================================================================
