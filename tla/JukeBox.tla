-------------------------------- MODULE JukeBox --------------------------------
(***************************************************************************)
(* How the jukebox finds a random song (jukebox.c:57-125): it goes down    *)
(* from the root directory, choosing an entry of the directory it is in,   *)
(* until that is a song.  When there is nothing to choose, or the choice   *)
(* is neither a directory nor a song, it goes back to oldDir, the          *)
(* directory it last went down from, and oldDir stays what it is.          *)
(***************************************************************************)
EXTENDS Naturals

CONSTANTS
    Dir,    \* directories, numbers so that each is below a smaller one
    Root,   \* JUKEBOX_ROOT_DIR
    Song,   \* files whose name ends in .mp3
    Other   \* what is neither

Entry == (Dir \ {Root}) \cup Song \cup Other

VARIABLES
    parent,    \* the tree below Root: the directory each entry is in
    path,      \* jb->fileName
    oldDir

vars == <<parent, path, oldDir>>

Trees == {p \in [Entry -> Dir] : \A d \in Dir \ {Root} : p[d] < d}

TypeOK ==
    /\ parent \in Trees
    /\ path \in Dir \cup Song
    /\ oldDir \in Dir

Init ==
    /\ parent \in Trees
    /\ path = Root
    /\ oldDir = Root

\* scandir of the directory that jb->fileName is.
Listed == {e \in Entry : parent[e] = path}

\* The chosen entry is a directory or a song: getRandomDir appends it to jb->fileName.
Descend(e) ==
    /\ e \in Listed \ Other
    /\ path' = e
    /\ oldDir' = path
    /\ UNCHANGED parent

\* Variant: the path is not set back.
StayThere ==
    /\ path \in Dir
    /\ Listed = {}
    /\ UNCHANGED vars

\* getRandomDir gives JB_NONE.
GoBack ==
    /\ path' = oldDir
    /\ UNCHANGED <<parent, oldDir>>

ChooseOther(e) == e \in Listed \cap Other /\ GoBack

NothingListed == path \in Dir /\ Listed = {} /\ GoBack

Choose(e) == Descend(e) \/ ChooseOther(e)

Next == NothingListed \/ \E e \in Entry : Choose(e)

Spec == Init /\ [][Next]_vars

\* Every entry of a directory that is listed again and again is chosen (rand is seeded
\* with the time for each choice).
FairSpec == Spec /\ WF_vars(NothingListed) /\ \A e \in Entry : SF_vars(Choose(e))

----------------------------------------------------------------------------

\* There is a song in d or below it.
SongBelow[d \in Dir] ==
    \/ \E s \in Song : parent[s] = d
    \/ \E e \in Dir \ {Root} : parent[e] = d /\ SongBelow[e]

\* A directory without a song in it or below has no subdirectory, and is not the root.
DeadEndsAreShallow ==
    /\ SongBelow[Root]
    /\ \A d \in Dir \ {Root} : SongBelow[parent[d]]

\* The search ends when one step back leads out of every dead end; a directory without
\* songs that has subdirectories is never left again, since oldDir goes back no further,
\* and the resource manager waits in it for ever (jukebox.c:66-74).
SearchEnds == DeadEndsAreShallow => <>(path \in Song)
=============================================================================
