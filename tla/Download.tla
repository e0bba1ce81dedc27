------------------------------ MODULE Download ------------------------------
(***************************************************************************)
(* The download of a song: getMP3FileFromClient over the calls of          *)
(* gsocket.c, and what becomes of the file (clientdb.c).  Files stay where *)
(* they are when the server crashes.                                       *)
(*                                                                         *)
(* Data comes in units; receiveData gets at most a block of them.  There   *)
(* is one download at a time (OneAnswerPerDownload in ResourceManager).    *)
(***************************************************************************)
EXTENDS Naturals, Sequences, SequencesExt

CONSTANTS
    Song,          \* what clients offer for download
    Length,        \* how many units each is long
    FileName,      \* the file each is stored in: of its client id and its token
    NoSong,
    Block,         \* the buffer of getMP3FileFromClient
    MaxDownloads,  \* bound: requests for downloading
    MaxCrashes     \* bound

\* A size of 0 is refused; every client has a file name for every token.
ASSUME DownloadAssumption ==
    /\ Length \in [Song -> Nat \ {0}]
    /\ FileName \in [Song -> Range(FileName)]
    /\ NoSong \notin Song
    /\ Block \in Nat \ {0}
    /\ MaxDownloads \in Nat /\ MaxCrashes \in Nat

VARIABLES
    disk,       \* the content of each file, <<>> when there is none
    song,       \* the song that is requested
    dwPc,       \* where the job is
    received,   \* totalRecv in receiveData, of the block that is being read
    totalRead,
    offset,     \* of the open file
    sockets,    \* descriptors of sockets that are open
    fds,        \* descriptors of files that are open
    slot,       \* the state of the scheduling slot
    downloads,
    crashes,
    kept,       \* history: the files that a crash or a song that was played has left
    short,      \* history: some write stored less than it was given
    unreached   \* history: connections that failed since the server was started

fileVars == <<disk, offset, fds, kept, short>>
dwVars == <<song, received, totalRead, sockets, unreached>>
rmVars == <<slot, downloads, crashes>>
vars == <<fileVars, dwVars, rmVars, dwPc>>

(***************************************************************************)
(* "idle": no job.  "connect", "request", "size", "open": at that call.    *)
(* "receive": in receiveData for a block.  "error", "complete": answer     *)
(* posted and not served.                                                  *)
(***************************************************************************)
DwPc == {"idle", "connect", "request", "size", "open", "receive", "error", "complete"}

Unit == UNION {{<<s, k>> : k \in 1 .. Length[s]} : s \in Song}

TypeOK ==
    /\ disk \in [Range(FileName) -> Seq(Unit)]
    /\ song \in Song \cup {NoSong}
    /\ dwPc \in DwPc
    /\ received \in 0 .. Block
    /\ totalRead \in Nat
    /\ offset \in Nat
    /\ sockets \in Nat
    /\ fds \in Nat
    /\ slot \in {"PL_NONE", "PL_DOWNLOADING", "PL_READY"}
    /\ downloads \in 0 .. MaxDownloads
    /\ crashes \in 0 .. MaxCrashes
    /\ kept \subseteq Range(FileName)
    /\ short \in BOOLEAN
    /\ unreached \in Nat

Init ==
    /\ disk = [f \in Range(FileName) |-> <<>>]
    /\ song = NoSong
    /\ dwPc = "idle"
    /\ received = 0
    /\ totalRead = 0
    /\ offset = 0
    /\ sockets = 0
    /\ fds = 0
    /\ slot = "PL_NONE"
    /\ downloads = 0
    /\ crashes = 0
    /\ kept = {}
    /\ short = FALSE
    /\ unreached = 0

----------------------------------------------------------------------------
(* The resource manager.                                                    *)

getRequestForDownloading(s) ==
    /\ dwPc = "idle"
    /\ slot = "PL_NONE"
    /\ downloads < MaxDownloads
    /\ downloads' = downloads + 1
    /\ song' = s
    /\ slot' = "PL_DOWNLOADING"
    /\ dwPc' = "connect"
    /\ UNCHANGED <<fileVars, received, totalRead, sockets, unreached, crashes>>

unlink ==
    /\ disk' = [disk EXCEPT ![FileName[song]] = <<>>]
    /\ kept' = kept \ {FileName[song]}

downloadReady ==
    /\ dwPc = "complete"
    /\ slot' = "PL_READY"
    /\ dwPc' = "idle"
    /\ UNCHANGED <<fileVars, dwVars, downloads, crashes>>

\* Variant: the file stays.
downloadFailedKeepsFile ==
    /\ dwPc = "error"
    /\ slot' = "PL_NONE"
    /\ dwPc' = "idle"
    /\ UNCHANGED <<fileVars, dwVars, downloads, crashes>>

downloadFailed ==
    /\ dwPc = "error"
    /\ unlink
    /\ slot' = "PL_NONE"
    /\ dwPc' = "idle"
    /\ UNCHANGED <<offset, fds, short, dwVars, downloads, crashes>>

\* deleteFromQueue or checkAndDeleteCurrentList
deleteReady ==
    /\ slot = "PL_READY"
    /\ unlink
    /\ slot' = "PL_NONE"
    /\ UNCHANGED <<offset, fds, short, dwVars, downloads, crashes, dwPc>>

\* The song is played.  That ends without unlink (see PlayedSongIsRemoved in
\* ResourceManager); the next song comes to the other slot.
getRequestForPlaying ==
    /\ slot = "PL_READY"
    /\ slot' = "PL_NONE"
    /\ kept' = kept \cup {FileName[song]}
    /\ UNCHANGED <<disk, offset, fds, short, dwVars, downloads, crashes, dwPc>>

\* The server is started again.
Crash ==
    /\ crashes < MaxCrashes
    /\ crashes' = crashes + 1
    /\ song' = NoSong
    /\ dwPc' = "idle"
    /\ slot' = "PL_NONE"
    /\ sockets' = 0
    /\ fds' = 0
    /\ unreached' = 0
    /\ kept' = {f \in DOMAIN disk : disk[f] # <<>>}
    /\ UNCHANGED <<disk, offset, short, received, totalRead, downloads>>

----------------------------------------------------------------------------
(* getMP3FileFromClient.                                                    *)

\* There is no descriptor left for a socket.
NoSocket == dwPc = "connect" /\ dwPc' = "error" /\ UNCHANGED <<fileVars, dwVars, rmVars>>

\* createClientSocket returns -1 and does not close its socket.
ConnectFails ==
    /\ dwPc = "connect"
    /\ sockets' = sockets + 1
    /\ unreached' = unreached + 1
    /\ dwPc' = "error"
    /\ UNCHANGED <<fileVars, song, received, totalRead, rmVars>>

Connect ==
    /\ dwPc = "connect"
    /\ sockets' = sockets + 1
    /\ dwPc' = "request"
    /\ UNCHANGED <<fileVars, song, received, totalRead, unreached, rmVars>>

Sends == dwPc = "request" /\ dwPc' = "size" /\ UNCHANGED <<fileVars, dwVars, rmVars>>

\* Variant: the socket stays open.
FailsBeforeFileStaysOpen ==
    /\ dwPc \in {"request", "size", "open"}
    /\ dwPc' = "error"
    /\ UNCHANGED <<fileVars, dwVars, rmVars>>

\* The request cannot be sent, no size comes or an impossible one, the file cannot be
\* opened.  The answer is posted just before the socket, which is the job's own, is closed.
FailsBeforeFile ==
    /\ dwPc \in {"request", "size", "open"}
    /\ sockets' = sockets - 1
    /\ dwPc' = "error"
    /\ UNCHANGED <<fileVars, song, received, totalRead, unreached, rmVars>>

ReceiveSize == dwPc = "size" /\ dwPc' = "open" /\ UNCHANGED <<fileVars, dwVars, rmVars>>

\* O_CREAT | O_WRONLY: what is in the file stays in it.
Open ==
    /\ dwPc = "open"
    /\ fds' = fds + 1
    /\ offset' = 0
    /\ short' = FALSE
    /\ received' = 0
    /\ totalRead' = 0
    /\ dwPc' = "receive"
    /\ UNCHANGED <<disk, kept, song, sockets, unreached, rmVars>>

Smaller(a, b) == IF a < b THEN a ELSE b

currentRead == Smaller(Block, Length[song] - totalRead)

\* recv gives some of what is missing of the block.
Receive ==
    /\ dwPc = "receive"
    /\ \E n \in 1 .. currentRead - received : received' = received + n
    /\ UNCHANGED <<fileVars, song, totalRead, sockets, unreached, rmVars, dwPc>>

\* Nothing for three seconds, or the client is gone: receiveData returns 0, or less than
\* it was asked for.
ReceiveFails ==
    /\ dwPc = "receive"
    /\ received < currentRead
    /\ fds' = fds - 1
    /\ sockets' = sockets - 1
    /\ dwPc' = "error"
    /\ UNCHANGED <<disk, offset, kept, short, song, received, totalRead, unreached, rmVars>>

\* The first n units of the block at the place the file is at.
Stored(n) ==
    LET old == disk[FileName[song]]
    IN  [k \in 1 .. (IF offset + n > Len(old) THEN offset + n ELSE Len(old)) |->
            IF k \in offset + 1 .. offset + n THEN <<song, totalRead + k - offset>> ELSE old[k]]

\* The block is complete.  What write returns is not looked at: it may have stored less.
Write ==
    /\ dwPc = "receive"
    /\ currentRead > 0
    /\ received = currentRead
    /\ \E n \in 0 .. received :
          /\ disk' = [disk EXCEPT ![FileName[song]] = Stored(n)]
          /\ offset' = offset + n
          /\ short' = (short \/ n < received)
    /\ totalRead' = totalRead + received
    /\ received' = 0
    /\ UNCHANGED <<fds, kept, song, sockets, unreached, rmVars, dwPc>>

Completes ==
    /\ dwPc = "receive"
    /\ totalRead = Length[song]
    /\ fds' = fds - 1
    /\ sockets' = sockets - 1
    /\ dwPc' = "complete"
    /\ UNCHANGED <<disk, offset, kept, short, song, received, totalRead, unreached, rmVars>>

getMP3FileFromClient ==
    \/ NoSocket \/ ConnectFails \/ Connect \/ Sends \/ FailsBeforeFile \/ ReceiveSize \/ Open
    \/ Receive \/ ReceiveFails \/ Write \/ Completes

Next ==
    \/ \E s \in Song : getRequestForDownloading(s)
    \/ downloadReady \/ downloadFailed \/ deleteReady \/ getRequestForPlaying
    \/ Crash
    \/ getMP3FileFromClient

Spec == Init /\ [][Next]_vars

----------------------------------------------------------------------------
(* What has to hold.                                                        *)

\* However the song comes in, a file that is ready begins with it, and goes on only when a
\* longer file of that name was left by a crash, or by a song that was played, since it is
\* opened without O_TRUNC ("File %s downloaded successfully", clientdb.c:303); unless a
\* write stored less than it was given, which nobody notices (serverRoutine.c:303).
ReadyFileIsSong ==
    slot = "PL_READY" /\ ~short =>
        LET file == disk[FileName[song]]
        IN  /\ IsPrefix([k \in 1 .. Length[song] |-> <<song, k>>], file)
            /\ Len(file) > Length[song] => FileName[song] \in kept

\* A job leaves no descriptor open, whichever way it ends, but the one of a connection
\* that failed (gsocket.c:124-127): every client that is not reached costs one.
DescriptorsAreClosed ==
    dwPc \in {"idle", "error", "complete"} => fds = 0 /\ sockets = unreached
=============================================================================
