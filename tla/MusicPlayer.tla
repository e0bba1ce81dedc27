---------------------------- MODULE MusicPlayer -----------------------------
(***************************************************************************)
(* The player of musicPlayer.c and the jukebox of jukebox.c.               *)
(*                                                                         *)
(* One MPlayer object with one stop flag serves every playSong job the     *)
(* thread pool runs; nothing stops two of those jobs from running at once. *)
(* A job ends by posting one message to the resource manager.  Which file  *)
(* is played is not modelled here.                                         *)
(***************************************************************************)
EXTENDS Naturals

VARIABLES
    stop,      \* MPlayer.stop
    playJobs,  \* playSong jobs in the thread pool that have not opened their file
    players,   \* playSong jobs that are in the read loop
    isActive   \* JBoxPlayer.isActive

mpVars == <<stop, playJobs, players, isActive>>

PlayerTypeOK ==
    /\ stop \in BOOLEAN
    /\ playJobs \in Nat
    /\ players \in Nat
    /\ isActive \in BOOLEAN

PlayerMsgId == {"rm_mplayerDone_m", "rm_mplayerErr_m", "rm_mplayerStop_m"}

\* getMPlayerInstance and getJBoxPlayerInstance
initMplayer ==
    /\ stop = FALSE
    /\ playJobs = 0
    /\ players = 0
    /\ isActive = FALSE

\* A random file is chosen and queued for playing.
scheduleNextRandomSong ==
    /\ isActive' = TRUE
    /\ playJobs' = playJobs + 1
    /\ UNCHANGED <<stop, players>>

\* moveToPlaying hands the file of a client to the same player.
queueSong ==
    /\ playJobs' = playJobs + 1
    /\ UNCHANGED <<stop, players, isActive>>

\* mpg123_open succeeded.
SongOpens ==
    /\ playJobs > 0
    /\ playJobs' = playJobs - 1
    /\ players' = players + 1
    /\ UNCHANGED <<stop, isActive>>

\* The job posts msgId: it could not open the file, it read the flag and
\* cleared it, or it came to the end of the file and left the flag alone.
SongEnds(msgId) ==
    \/ /\ msgId = "rm_mplayerErr_m"
       /\ playJobs > 0
       /\ playJobs' = playJobs - 1
       /\ UNCHANGED <<stop, players, isActive>>
    \/ /\ msgId = "rm_mplayerStop_m"
       /\ players > 0
       /\ stop
       /\ stop' = FALSE
       /\ players' = players - 1
       /\ UNCHANGED <<playJobs, isActive>>
    \/ /\ msgId = "rm_mplayerDone_m"
       /\ players > 0
       /\ players' = players - 1
       /\ UNCHANGED <<stop, playJobs, isActive>>
=============================================================================
