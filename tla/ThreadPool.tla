----------------------------- MODULE ThreadPool -----------------------------
(***************************************************************************)
(* The thread pool of gthreads.c over the locked queue of queue.c.         *)
(*                                                                         *)
(* addJobToQueue enqueues the job under the queue's own lock and then,     *)
(* holding no lock, broadcasts workerCond.  A worker takes workerLock and  *)
(* waits on workerCond WITHOUT looking at the queue first; only after the  *)
(* wait does it dequeue, and once it has run a job it keeps dequeuing,     *)
(* outside workerLock, until the queue is empty.                           *)
(*                                                                         *)
(* Every call of addJobToQueue is one member of Job (its JOB_STRUCT), and  *)
(* is made by a thread of its own: the accept loop, the resource manager   *)
(* or a worker that is running another job.                                *)
(***************************************************************************)
EXTENDS Naturals, Sequences

CONSTANTS
    Worker,   \* the MAX_WORKER_THREAD threads createThreadPool starts
    Job,      \* the calls of addJobToQueue
    NoJob,    \* job == NULL
    NoWorker  \* nobody holds workerLock

ASSUME PoolAssumption == NoJob \notin Job /\ NoWorker \notin Worker

VARIABLES
    workQueue,   \* the list inside workQueue, first node first
    submit,      \* how far the call of addJobToQueue for each job has come
    workerLock,  \* the worker that holds workerLock, or NoWorker
    pc,          \* where each worker is in workerRoutine
    job,         \* each worker's local variable job
    done         \* the jobs whose function has returned

vars == <<workQueue, submit, workerLock, pc, job, done>>

(***************************************************************************)
(* "top": before pthread_mutex_lock.  "locked": holds workerLock, about to *)
(* wait.  "waiting": in the wait set of workerCond.  "woken": removed from *)
(* it, must take workerLock again.  "relocked": about to dequeue.  "run":  *)
(* inside job->func.  "drain": at the dequeue at the end of the do loop.   *)
(***************************************************************************)
PC == {"top", "locked", "waiting", "woken", "relocked", "run", "drain"}

Init ==
    /\ workQueue = <<>>
    /\ submit = [j \in Job |-> "new"]
    /\ workerLock = NoWorker
    /\ pc = [w \in Worker |-> "top"]
    /\ job = [w \in Worker |-> NoJob]
    /\ done = {}

----------------------------------------------------------------------------
(* addJobToQueue: two steps, since no lock spans them.                      *)

Enqueue(j) ==
    /\ submit[j] = "new"
    /\ submit' = [submit EXCEPT ![j] = "enqueued"]
    /\ workQueue' = Append(workQueue, j)
    /\ UNCHANGED <<workerLock, pc, job, done>>

\* The broadcast is forgotten.
BroadcastNobody(j) ==
    /\ submit[j] = "enqueued"
    /\ submit' = [submit EXCEPT ![j] = "announced"]
    /\ UNCHANGED <<workQueue, workerLock, pc, job, done>>

Broadcast(j) ==
    /\ submit[j] = "enqueued"
    /\ submit' = [submit EXCEPT ![j] = "announced"]
    /\ pc' = [w \in Worker |-> IF pc[w] = "waiting" THEN "woken" ELSE pc[w]]
    /\ UNCHANGED <<workQueue, workerLock, job, done>>

----------------------------------------------------------------------------
(* workerRoutine                                                           *)

Lock(w) ==
    /\ pc[w] = "top"
    /\ workerLock = NoWorker
    /\ workerLock' = w
    /\ pc' = [pc EXCEPT ![w] = "locked"]
    /\ UNCHANGED <<workQueue, submit, job, done>>

\* A wait that keeps the lock.
WaitKeepsLock(w) ==
    /\ pc[w] = "locked"
    /\ pc' = [pc EXCEPT ![w] = "waiting"]
    /\ UNCHANGED <<workQueue, submit, workerLock, job, done>>

Wait(w) ==
    /\ pc[w] = "locked"
    /\ workerLock' = NoWorker
    /\ pc' = [pc EXCEPT ![w] = "waiting"]
    /\ UNCHANGED <<workQueue, submit, job, done>>

\* POSIX lets pthread_cond_wait return without a signal.
SpuriousWakeup(w) ==
    /\ pc[w] = "waiting"
    /\ pc' = [pc EXCEPT ![w] = "woken"]
    /\ UNCHANGED <<workQueue, submit, workerLock, job, done>>

Relock(w) ==
    /\ pc[w] = "woken"
    /\ workerLock = NoWorker
    /\ workerLock' = w
    /\ pc' = [pc EXCEPT ![w] = "relocked"]
    /\ UNCHANGED <<workQueue, submit, job, done>>

\* Variants of dequeue with a fault: nobody looks whether there was a job; the node
\* is read and left in the list; the last node is taken.
DequeueUnchecked(w) ==
    \/ /\ workQueue # <<>>
       /\ workQueue' = Tail(workQueue)
       /\ job' = [job EXCEPT ![w] = Head(workQueue)]
       /\ pc' = [pc EXCEPT ![w] = "run"]
    \/ /\ workQueue = <<>>
       /\ pc' = [pc EXCEPT ![w] = "run"]
       /\ UNCHANGED <<workQueue, job>>

DequeueLeavesNode(w) ==
    \/ /\ workQueue # <<>>
       /\ job' = [job EXCEPT ![w] = Head(workQueue)]
       /\ pc' = [pc EXCEPT ![w] = "run"]
       /\ UNCHANGED workQueue
    \/ /\ workQueue = <<>>
       /\ pc' = [pc EXCEPT ![w] = "top"]
       /\ UNCHANGED <<workQueue, job>>

DequeueLast(w) ==
    \/ /\ workQueue # <<>>
       /\ workQueue' = SubSeq(workQueue, 1, Len(workQueue) - 1)
       /\ job' = [job EXCEPT ![w] = workQueue[Len(workQueue)]]
       /\ pc' = [pc EXCEPT ![w] = "run"]
    \/ /\ workQueue = <<>>
       /\ pc' = [pc EXCEPT ![w] = "top"]
       /\ UNCHANGED <<workQueue, job>>

\* dequeue, one critical section of the queue's own lock: the worker leaves
\* with the first job, or with NULL when there is none and goes back to the top.
Dequeue(w) ==
    \/ /\ workQueue # <<>>
       /\ workQueue' = Tail(workQueue)
       /\ job' = [job EXCEPT ![w] = Head(workQueue)]
       /\ pc' = [pc EXCEPT ![w] = "run"]
    \/ /\ workQueue = <<>>
       /\ pc' = [pc EXCEPT ![w] = "top"]
       /\ UNCHANGED <<workQueue, job>>

\* The dequeue after the wait, with the unlock that follows it.
FirstDequeue(w) ==
    /\ pc[w] = "relocked"
    /\ Dequeue(w)
    /\ workerLock' = NoWorker
    /\ UNCHANGED <<submit, done>>

RunJob(w) ==
    /\ pc[w] = "run"
    /\ done' = done \cup {job[w]}
    /\ job' = [job EXCEPT ![w] = NoJob]
    /\ pc' = [pc EXCEPT ![w] = "drain"]
    /\ UNCHANGED <<workQueue, submit, workerLock>>

\* One job per wakeup, no loop.
NoNextDequeue(w) ==
    /\ pc[w] = "drain"
    /\ pc' = [pc EXCEPT ![w] = "top"]
    /\ UNCHANGED <<workQueue, submit, workerLock, job, done>>

NextDequeue(w) ==
    /\ pc[w] = "drain"
    /\ Dequeue(w)
    /\ UNCHANGED <<submit, workerLock, done>>

WorkerStep(w) ==
    Lock(w) \/ Wait(w) \/ Relock(w) \/ FirstDequeue(w) \/ RunJob(w) \/ NextDequeue(w)

Next ==
    \/ \E j \in Job : Enqueue(j) \/ Broadcast(j)
    \/ \E w \in Worker : WorkerStep(w) \/ SpuriousWakeup(w)

Spec == Init /\ [][Next]_vars

\* A thread that can step does so in the end and every job's function returns;
\* nobody has to submit a job, and no wakeup has to be spurious.
FairSpec ==
    /\ Spec
    /\ \A j \in Job : WF_vars(Broadcast(j))
    /\ \A w \in Worker : WF_vars(WorkerStep(w))

----------------------------------------------------------------------------
(* Type invariant: every variable has its type.                             *)
TypeOK ==
    /\ workQueue \in Seq(Job)
    /\ submit \in [Job -> {"new", "enqueued", "announced"}]
    /\ workerLock \in Worker \cup {NoWorker}
    /\ pc \in [Worker -> PC]
    /\ job \in [Worker -> Job \cup {NoJob}]
    /\ done \subseteq Job

Queued(j) == \E i \in DOMAIN workQueue : workQueue[i] = j
RunBy(w, j) == job[w] = j
Running == {j \in Job : \E w \in Worker : RunBy(w, j)}

\* workerLock is held exactly by a worker between a lock and the unlock or
\* wait that gives it back, so by one worker at most (gthreads.c:105-108).
LockHeldInside ==
    \A w \in Worker : workerLock = w <=> pc[w] \in {"locked", "relocked"}

\* A job is nowhere before it is submitted and then in exactly one place: once
\* in the queue, with one worker, or done.  The dequeue of the drain loop is
\* outside workerLock, so only the queue's lock keeps two workers from it.
OnePlacePerJob ==
    /\ \A i, k \in DOMAIN workQueue : workQueue[i] = workQueue[k] => i = k
    /\ \A v, w \in Worker : job[v] = job[w] /\ job[v] # NoJob => v = w
    /\ \A j \in Job :
          /\ ~(Queued(j) /\ j \in Running)
          /\ ~(Queued(j) /\ j \in done)
          /\ ~(j \in Running /\ j \in done)
          /\ submit[j] = "new" <=> ~(Queued(j) \/ j \in Running \/ j \in done)

\* A worker inside a job has one, and only such a worker has one.
JobHeldWhileRunning ==
    \A w \in Worker : job[w] # NoJob <=> pc[w] = "run"

\* The pool implements the abstract pool: jobs start in submission order, once.
Abstract ==
    INSTANCE JobPool WITH queued <- workQueue, running <- Running, finished <- done
ImplementsJobPool == Abstract!Spec

\* A worker that will reach a dequeue before it waits again.
Awake(w) == pc[w] \in {"woken", "relocked", "run", "drain"}

\* While one worker is awake no queued job is left behind: the drain loop runs
\* until the queue is empty (gthreads.c:112-126).
AwakeWorkerServesQueue ==
    \A j \in Job : (Queued(j) /\ \E w \in Worker : Awake(w)) ~> ~Queued(j)

\* A job announced while a worker was waiting is run (gthreads.c:80-82, 106).
AnnouncedToSleeperRuns ==
    \A j \in Job :
        (submit[j] = "enqueued" /\ Queued(j) /\ \E w \in Worker : pc[w] = "waiting")
            ~> (j \in done)

\* The comment of addJobToQueue (gthreads.c:67-68): "Add job to job queue. will be
\* picked by worker threads for processing".
AddedJobIsPicked == \A j \in Job : submit[j] = "announced" ~> j \in done
=============================================================================
