------------------------------ MODULE JobPool ------------------------------
(***************************************************************************)
(* What the thread pool promises its callers, independent of locks and     *)
(* condition variables: jobs wait in the order in which they were          *)
(* submitted, each is started at most once, from the front, and finishes   *)
(* at most once.  It does not promise that a submitted job is started.     *)
(***************************************************************************)
EXTENDS Sequences

CONSTANT Job

VARIABLES
    queued,    \* the jobs that wait, in the order of their submission
    running,   \* the jobs a worker has started and not finished
    finished   \* the jobs that have been run to their end

poolVars == <<queued, running, finished>>

Known == {queued[i] : i \in DOMAIN queued} \cup running \cup finished

Init ==
    /\ queued = <<>>
    /\ running = {}
    /\ finished = {}

Submit(j) ==
    /\ j \notin Known
    /\ queued' = Append(queued, j)
    /\ UNCHANGED <<running, finished>>

Start ==
    /\ queued # <<>>
    /\ running' = running \cup {Head(queued)}
    /\ queued' = Tail(queued)
    /\ UNCHANGED finished

Finish(j) ==
    /\ j \in running
    /\ running' = running \ {j}
    /\ finished' = finished \cup {j}
    /\ UNCHANGED queued

Next == Start \/ \E j \in Job : Submit(j) \/ Finish(j)

Spec == Init /\ [][Next]_poolVars
=============================================================================
