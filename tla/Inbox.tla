-------------------------------- MODULE Inbox --------------------------------
(***************************************************************************)
(* How messages reach the resource manager: postMsgToRmQueue, called by    *)
(* the jobs of the thread pool, and the loop of runResourceManager.        *)
(*                                                                         *)
(* A message is enqueued under the lock of rmQueue and rmCond is signalled *)
(* afterwards, with no lock.  The resource manager takes rmLock, waits on  *)
(* rmCond WITHOUT looking at rmQueue, gives rmLock back and then serves    *)
(* messages until it finds none.  ResourceManager describes what serving a *)
(* message does; here it is one step.                                      *)
(***************************************************************************)
EXTENDS Naturals, Sequences

CONSTANTS
    RmMsg,  \* the calls of postMsgToRm, each by a job of its own
    NoMsg   \* rmsg == NULL

ASSUME InboxAssumption == NoMsg \notin RmMsg

VARIABLES
    rmQueue,  \* the list inside rmQueue, first node first
    post,     \* how far the call of postMsgToRm for each message has come
    rmPc,     \* where the resource manager is in runResourceManager
    rmsg,     \* its local variable
    served    \* the messages servRequest has returned from

vars == <<rmQueue, post, rmPc, rmsg, served>>

(***************************************************************************)
(* "start": before the jukebox is started.  "top": before rmLock is taken. *)
(* "locked": holds rmLock.  "waiting": in the wait set of rmCond.          *)
(* "woken": must take rmLock again and release it.  "drain": at dequeue.   *)
(* "serve": in servRequest.  Nobody else takes rmLock, so it is not a      *)
(* variable.                                                               *)
(***************************************************************************)
RmPc == {"start", "top", "locked", "waiting", "woken", "drain", "serve"}

Init ==
    /\ rmQueue = <<>>
    /\ post = [m \in RmMsg |-> "new"]
    /\ rmPc = "start"
    /\ rmsg = NoMsg
    /\ served = {}

----------------------------------------------------------------------------
(* postMsgToRmQueue                                                         *)

Enqueue(m) ==
    /\ post[m] = "new"
    /\ post' = [post EXCEPT ![m] = "enqueued"]
    /\ rmQueue' = Append(rmQueue, m)
    /\ UNCHANGED <<rmPc, rmsg, served>>

Signal(m) ==
    /\ post[m] = "enqueued"
    /\ post' = [post EXCEPT ![m] = "signalled"]
    /\ rmPc' = IF rmPc = "waiting" THEN "woken" ELSE rmPc
    /\ UNCHANGED <<rmQueue, rmsg, served>>

----------------------------------------------------------------------------
(* runResourceManager                                                       *)

RmGoes(from, to) ==
    /\ rmPc = from
    /\ rmPc' = to
    /\ UNCHANGED <<rmQueue, post, rmsg, served>>

StartJukeBox == RmGoes("start", "top")
Lock == RmGoes("top", "locked")
Wait == RmGoes("locked", "waiting")
RelockAndUnlock == RmGoes("woken", "drain")

\* POSIX lets pthread_cond_wait return without a signal.
SpuriousWakeup == RmGoes("waiting", "woken")

\* Variant: the newest message is taken first.
DequeueNewest ==
    /\ rmPc = "drain"
    /\ rmQueue # <<>>
    /\ rmsg' = rmQueue[Len(rmQueue)]
    /\ rmQueue' = SubSeq(rmQueue, 1, Len(rmQueue) - 1)
    /\ rmPc' = "serve"
    /\ UNCHANGED <<post, served>>

Dequeue ==
    /\ rmPc = "drain"
    /\ rmQueue # <<>>
    /\ rmsg' = Head(rmQueue)
    /\ rmQueue' = Tail(rmQueue)
    /\ rmPc' = "serve"
    /\ UNCHANGED <<post, served>>

\* Variant: nobody looks whether there was a message.
QueueEmptyUnchecked == rmQueue = <<>> /\ RmGoes("drain", "serve")

\* rmsg is NULL, and is freed; back to the wait.
QueueEmpty == rmQueue = <<>> /\ RmGoes("drain", "top")

\* Variant: one message per wakeup.
ServOne ==
    /\ rmPc = "serve"
    /\ served' = served \cup {rmsg}
    /\ rmsg' = NoMsg
    /\ rmPc' = "top"
    /\ UNCHANGED <<rmQueue, post>>

ServRequest ==
    /\ rmPc = "serve"
    /\ served' = served \cup {rmsg}
    /\ rmsg' = NoMsg
    /\ rmPc' = "drain"
    /\ UNCHANGED <<rmQueue, post>>

RmStep == StartJukeBox \/ Lock \/ Wait \/ RelockAndUnlock \/ Dequeue \/ QueueEmpty \/ ServRequest

Next ==
    \/ \E m \in RmMsg : Enqueue(m) \/ Signal(m)
    \/ RmStep
    \/ SpuriousWakeup

Spec == Init /\ [][Next]_vars

\* A thread that can step does so in the end, and servRequest returns; nobody has
\* to post a message, and no wakeup has to be spurious.
FairSpec == Spec /\ WF_vars(RmStep) /\ \A m \in RmMsg : WF_vars(Signal(m))

----------------------------------------------------------------------------
(* Type invariant: every variable has its type.                             *)
TypeOK ==
    /\ rmQueue \in Seq(RmMsg)
    /\ post \in [RmMsg -> {"new", "enqueued", "signalled"}]
    /\ rmPc \in RmPc
    /\ rmsg \in RmMsg \cup {NoMsg}
    /\ served \subseteq RmMsg

Queued(m) == \E k \in DOMAIN rmQueue : rmQueue[k] = m

\* Messages are served in the order they were enqueued, each once, one at a time: the
\* promise of JobPool, with the resource manager as its only worker.
Abstract ==
    INSTANCE JobPool WITH
        Job <- RmMsg, queued <- rmQueue, running <- {rmsg} \ {NoMsg}, finished <- served
ServesInOrder == Abstract!Spec

Awake == rmPc \in {"woken", "drain", "serve"}
SignalComes == rmPc = "waiting" /\ \E n \in RmMsg : post[n] = "enqueued"

\* After a wakeup the resource manager does not go back to the wait past a message: a
\* signal that finds it waiting gets everything served that is in the queue by then,
\* messages whose own signal was lost included, and one posted while another is served
\* needs no wakeup of its own (resourceManager.c:128-132).
WakeupServesAll ==
    \A m \in RmMsg : (Queued(m) /\ (Awake \/ SignalComes)) ~> (m \in served)
=============================================================================
