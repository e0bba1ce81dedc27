------------------------------ MODULE MCThreads ------------------------------
(***************************************************************************)
(* Model-checking instance of the parts in which threads wait for each     *)
(* other: the inbox of the resource manager, the client table, the player  *)
(* and the jukebox.  They are checked side by side: a behaviour is one of  *)
(* one part, chosen in the initial state, while the others stay in theirs. *)
(***************************************************************************)
EXTENDS Inbox, ClientTable

CONSTANTS
    RandomSong, ClientSong, NoSong, Frames, MaxJobs, MaxMsgs,
    Dir, Root, Song, Other

VARIABLES
    part,
    fileName, jbFile, handle, left, stop, playPc, posted, jbPc, clientMsgs, handed,
    parent, path, oldDir

playerVars ==
    <<fileName, jbFile, handle, left, stop, playPc, posted, jbPc, clientMsgs, handed>>
searchVars == <<parent, path, oldDir>>

Player == INSTANCE Playback
Search == INSTANCE JukeBox

ASSUME ThreadsAssumption ==
    /\ RandomSong \cap {ClientSong, NoSong} = {} /\ ClientSong # NoSong
    /\ Frames \in Nat /\ MaxMsgs \in Nat
    /\ Dir \subseteq Nat /\ Root \in Dir /\ \A d \in Dir : Root <= d
    /\ Dir \cap (Song \cup Other) = {} /\ Song \cap Other = {}

ThreadsInit ==
    /\ part \in {"inbox", "table", "player", "search"}
    /\ Init
    /\ TableInit
    /\ Player!Init
    /\ Search!Init
    /\ part # "search" => parent = CHOOSE tree \in Search!Trees : TRUE

ThreadsNext ==
    /\ UNCHANGED part
    /\ \/ part = "inbox" /\ Next /\ UNCHANGED <<tableVars, playerVars, searchVars>>
       \/ part = "table" /\ TableNext /\ UNCHANGED <<vars, playerVars, searchVars>>
       \/ part = "player" /\ Player!Next /\ UNCHANGED <<vars, tableVars, searchVars>>
       \/ part = "search" /\ Search!Next /\ UNCHANGED <<vars, tableVars, playerVars>>

\* The part that runs is as fair as the FairSpec of its module.
ThreadsSpec ==
    /\ ThreadsInit
    /\ [][ThreadsNext]_<<part, vars, tableVars, playerVars, searchVars>>
    /\ WF_vars(part = "inbox" /\ RmStep)
    /\ \A m \in RmMsg : WF_vars(part = "inbox" /\ Signal(m))
    /\ \A t \in Thread : SF_tableVars(part = "table" /\ Continue(t))
    /\ \A j \in Player!Job : WF_playerVars(part = "player" /\ Player!playSong(j))
    /\ WF_searchVars(part = "search" /\ Search!NothingListed)
    /\ \A e \in Search!Entry : SF_searchVars(part = "search" /\ Search!Choose(e))

----------------------------------------------------------------------------
(* The properties of the player and the jukebox, under the names they have  *)
(* there; those of the inbox and the client table are in scope.             *)

\* Every variable of every part has its type.
ThreadsTypeOK == TypeOK /\ TableTypeOK /\ Player!TypeOK /\ Search!TypeOK

\* No file stays open when no job is in its loop (musicPlayer.c:52-73).
OpenFileIsRead == Player!OpenFileIsRead

\* Every call of playSong that a worker begins returns (musicPlayer.c:63-80).
EveryJobEnds == Player!EveryJobEnds

\* The jukebox finds a song in a shallow enough tree (jukebox.c:66-74).
SearchEnds == part = "search" => Search!SearchEnds
=============================================================================
