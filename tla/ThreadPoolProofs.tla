--------------------------- MODULE ThreadPoolProofs --------------------------
(***************************************************************************)
(* Proofs about the thread pool, for every set of workers and of jobs:     *)
(* the inductive invariant PoolInv, and that the pool implements JobPool.  *)
(***************************************************************************)
EXTENDS ThreadPool, SequenceTheorems, TLAPS

PoolInv == TypeOK /\ LockHeldInside /\ JobHeldWhileRunning /\ OnePlacePerJob

-----------------------------------------------------------------------------
(* The queue.                                                               *)

LEMMA AppendedJob ==
    ASSUME NEW j \in Job, workQueue \in Seq(Job), workQueue' = Append(workQueue, j)
    PROVE  /\ workQueue' \in Seq(Job)
           /\ DOMAIN workQueue' = 1 .. Len(workQueue) + 1
           /\ DOMAIN workQueue = 1 .. Len(workQueue)
           /\ \A i \in DOMAIN workQueue : workQueue'[i] = workQueue[i]
           /\ workQueue'[Len(workQueue) + 1] = j
           /\ Len(workQueue) \in Nat
  BY AppendProperties, LenProperties

LEMMA RemovedJob ==
    ASSUME workQueue \in Seq(Job), workQueue # <<>>, workQueue' = Tail(workQueue)
    PROVE  /\ workQueue' \in Seq(Job)
           /\ DOMAIN workQueue' = 1 .. Len(workQueue) - 1
           /\ DOMAIN workQueue = 1 .. Len(workQueue)
           /\ \A i \in DOMAIN workQueue' : workQueue'[i] = workQueue[i + 1]
           /\ Head(workQueue) = workQueue[1]
           /\ Head(workQueue) \in Job
           /\ Len(workQueue) \in Nat \ {0}
  BY HeadTailProperties, LenProperties, EmptySeq

-----------------------------------------------------------------------------
(* The invariant is inductive.                                              *)

LEMMA PoolInit == Init => PoolInv
<1> SUFFICES ASSUME Init PROVE PoolInv
  OBVIOUS
<1> USE DEF Init
<1>1. TypeOK
  BY DEF TypeOK, PC
<1>2. LockHeldInside
  BY PoolAssumption DEF LockHeldInside
<1>3. JobHeldWhileRunning
  BY DEF JobHeldWhileRunning
<1>4. OnePlacePerJob
  BY PoolAssumption DEF OnePlacePerJob, Queued, Running, RunBy
<1> QED BY <1>1, <1>2, <1>3, <1>4 DEF PoolInv

\* A step that changes neither where jobs are nor what has been submitted.
LEMMA SamePlaces ==
    ASSUME OnePlacePerJob, UNCHANGED <<workQueue, submit, job, done>>
    PROVE  OnePlacePerJob'
  BY DEF OnePlacePerJob, Queued, Running, RunBy

\* Taking the first job, or finding none.
LEMMA DequeueKeepsPlaces ==
    ASSUME PoolInv, NEW w \in Worker, pc[w] \in {"relocked", "drain"}, Dequeue(w),
           UNCHANGED <<submit, done>>
    PROVE  /\ workQueue' \in Seq(Job)
           /\ job' \in [Worker -> Job \cup {NoJob}]
           /\ pc' \in [Worker -> PC]
           /\ JobHeldWhileRunning'
           /\ OnePlacePerJob'
<1> USE DEF PoolInv
<1>0. job[w] = NoJob
  BY DEF JobHeldWhileRunning
<1>1. CASE /\ workQueue # <<>>
           /\ workQueue' = Tail(workQueue)
           /\ job' = [job EXCEPT ![w] = Head(workQueue)]
           /\ pc' = [pc EXCEPT ![w] = "run"]
  <2>1. workQueue \in Seq(Job)
    BY DEF TypeOK
  <2>2. /\ workQueue' \in Seq(Job)
        /\ DOMAIN workQueue' = 1 .. Len(workQueue) - 1
        /\ DOMAIN workQueue = 1 .. Len(workQueue)
        /\ \A i \in DOMAIN workQueue' : workQueue'[i] = workQueue[i + 1]
        /\ Head(workQueue) = workQueue[1]
        /\ Head(workQueue) \in Job
        /\ Len(workQueue) \in Nat \ {0}
    BY <1>1, <2>1, RemovedJob
  <2>3. job' \in [Worker -> Job \cup {NoJob}] /\ pc' \in [Worker -> PC]
    BY <1>1, <2>2 DEF TypeOK, PC
  <2>4. JobHeldWhileRunning'
    BY <1>1, <2>2, PoolAssumption DEF JobHeldWhileRunning, TypeOK
  <2>5. Queued(Head(workQueue))
    BY <2>2 DEF Queued
  <2>6. \A j \in Job : Queued(j)' <=> Queued(j) /\ j # Head(workQueue)
    <3>1. ASSUME NEW j \in Job, NEW i \in DOMAIN workQueue', workQueue'[i] = j
          PROVE  Queued(j) /\ j # Head(workQueue)
      <4>1. i + 1 \in DOMAIN workQueue /\ workQueue[i + 1] = j
        BY <2>2, <3>1
      <4>2. i + 1 # 1 /\ 1 \in DOMAIN workQueue
        BY <2>2, <3>1
      <4> QED BY <2>2, <4>1, <4>2 DEF Queued, OnePlacePerJob
    <3>2. ASSUME NEW j \in Job, NEW i \in DOMAIN workQueue, workQueue[i] = j,
                 j # Head(workQueue)
          PROVE  Queued(j)'
      <4>1. i - 1 \in DOMAIN workQueue' /\ i = (i - 1) + 1
        BY <2>2, <3>2
      <4>2. workQueue'[i - 1] = j
        BY <2>2, <3>2, <4>1
      <4> QED BY <4>1, <4>2 DEF Queued
    <3> QED BY <3>1, <3>2 DEF Queued
  <2>7. Running' = Running \cup {Head(workQueue)}
    BY <1>0, <1>1, <2>2, PoolAssumption DEF Running, RunBy, TypeOK
  <2>8. \A i, k \in DOMAIN workQueue' : workQueue'[i] = workQueue'[k] => i = k
    BY <2>2 DEF OnePlacePerJob
  <2>9. \A v, u \in Worker : job'[v] = job'[u] /\ job'[v] # NoJob => v = u
    <3>1. \A v \in Worker : job[v] # Head(workQueue)
      BY <2>2, <2>5 DEF OnePlacePerJob, Running, RunBy
    <3> QED BY <1>1, <3>1 DEF OnePlacePerJob, TypeOK
  <2>10. \A j \in Job :
            /\ ~(Queued(j)' /\ j \in Running')
            /\ ~(Queued(j)' /\ j \in done')
            /\ ~(j \in Running' /\ j \in done')
            /\ submit'[j] = "new" <=> ~(Queued(j)' \/ j \in Running' \/ j \in done')
    BY <2>2, <2>5, <2>6, <2>7 DEF OnePlacePerJob
  <2> QED BY <2>2, <2>3, <2>4, <2>8, <2>9, <2>10 DEF OnePlacePerJob
<1>2. CASE /\ workQueue = <<>>
           /\ pc' = [pc EXCEPT ![w] = "top"]
           /\ UNCHANGED <<workQueue, job>>
  <2>1. JobHeldWhileRunning'
    BY <1>0, <1>2 DEF JobHeldWhileRunning, TypeOK
  <2>2. OnePlacePerJob'
    BY <1>2, SamePlaces
  <2> QED BY <1>2, <2>1, <2>2 DEF TypeOK, PC
<1> QED BY <1>1, <1>2 DEF Dequeue

LEMMA EnqueueKeeps == ASSUME PoolInv, NEW j \in Job, Enqueue(j) PROVE PoolInv'
<1> USE DEF PoolInv, Enqueue
<1>1. workQueue \in Seq(Job)
  BY DEF TypeOK
<1>2. /\ workQueue' \in Seq(Job)
      /\ DOMAIN workQueue' = 1 .. Len(workQueue) + 1
      /\ DOMAIN workQueue = 1 .. Len(workQueue)
      /\ \A i \in DOMAIN workQueue : workQueue'[i] = workQueue[i]
      /\ workQueue'[Len(workQueue) + 1] = j
      /\ Len(workQueue) \in Nat
  BY <1>1, AppendedJob
<1>3. TypeOK'
  BY <1>2 DEF TypeOK
<1>4. LockHeldInside' /\ JobHeldWhileRunning'
  BY DEF LockHeldInside, JobHeldWhileRunning
<1>5. \A i \in Job : Queued(i)' <=> Queued(i) \/ i = j
  BY <1>2 DEF Queued
<1>6. ~Queued(j)
  BY DEF OnePlacePerJob
<1>7. Running' = Running
  BY DEF Running, RunBy
<1>8. \A i, k \in DOMAIN workQueue' : workQueue'[i] = workQueue'[k] => i = k
  BY <1>2, <1>6 DEF OnePlacePerJob, Queued
<1>9. \A i \in Job : submit'[i] = "new" <=> submit[i] = "new" /\ i # j
  BY DEF TypeOK
<1>10. OnePlacePerJob'
  BY <1>5, <1>6, <1>7, <1>8, <1>9 DEF OnePlacePerJob
<1> QED BY <1>3, <1>4, <1>10

LEMMA BroadcastKeeps == ASSUME PoolInv, NEW j \in Job, Broadcast(j) PROVE PoolInv'
<1> USE DEF PoolInv, Broadcast
<1>1. TypeOK'
  BY DEF TypeOK, PC
<1>2. LockHeldInside' /\ JobHeldWhileRunning'
  BY DEF LockHeldInside, JobHeldWhileRunning, TypeOK
<1>3. \A i \in Job : submit'[i] = "new" <=> submit[i] = "new"
  BY DEF TypeOK
<1>4. OnePlacePerJob'
  BY <1>3 DEF OnePlacePerJob, Queued, Running, RunBy
<1> QED BY <1>1, <1>2, <1>4

\* The steps that only move a worker around the lock.
LEMMA LockStepKeeps ==
    ASSUME PoolInv, NEW w \in Worker,
           Lock(w) \/ Wait(w) \/ SpuriousWakeup(w) \/ Relock(w)
    PROVE  PoolInv'
<1> USE DEF PoolInv
<1>1. TypeOK'
  BY DEF TypeOK, PC, Lock, Wait, SpuriousWakeup, Relock
<1>2. LockHeldInside'
  BY PoolAssumption DEF LockHeldInside, TypeOK, Lock, Wait, SpuriousWakeup, Relock
<1>3. JobHeldWhileRunning'
  BY DEF JobHeldWhileRunning, TypeOK, Lock, Wait, SpuriousWakeup, Relock
<1>4. OnePlacePerJob'
  BY SamePlaces DEF Lock, Wait, SpuriousWakeup, Relock
<1> QED BY <1>1, <1>2, <1>3, <1>4

LEMMA FirstDequeueKeeps == ASSUME PoolInv, NEW w \in Worker, FirstDequeue(w) PROVE PoolInv'
<1> USE DEF PoolInv, FirstDequeue
<1>1. /\ workQueue' \in Seq(Job)
      /\ job' \in [Worker -> Job \cup {NoJob}]
      /\ pc' \in [Worker -> PC]
      /\ JobHeldWhileRunning'
      /\ OnePlacePerJob'
  BY DequeueKeepsPlaces
<1>2. TypeOK'
  BY <1>1 DEF TypeOK
<1>3. LockHeldInside'
  BY PoolAssumption DEF LockHeldInside, TypeOK, Dequeue
<1> QED BY <1>1, <1>2, <1>3

LEMMA NextDequeueKeeps == ASSUME PoolInv, NEW w \in Worker, NextDequeue(w) PROVE PoolInv'
<1> USE DEF PoolInv, NextDequeue
<1>1. /\ workQueue' \in Seq(Job)
      /\ job' \in [Worker -> Job \cup {NoJob}]
      /\ pc' \in [Worker -> PC]
      /\ JobHeldWhileRunning'
      /\ OnePlacePerJob'
  BY DequeueKeepsPlaces
<1>2. TypeOK'
  BY <1>1 DEF TypeOK
<1>3. LockHeldInside'
  BY DEF LockHeldInside, TypeOK, Dequeue
<1> QED BY <1>1, <1>2, <1>3

LEMMA RunJobKeeps == ASSUME PoolInv, NEW w \in Worker, RunJob(w) PROVE PoolInv'
<1> USE DEF PoolInv, RunJob
<1>1. job[w] \in Job
  BY DEF JobHeldWhileRunning, TypeOK
<1>2. TypeOK'
  BY <1>1 DEF TypeOK, PC
<1>3. LockHeldInside'
  BY DEF LockHeldInside, TypeOK
<1>4. JobHeldWhileRunning'
  BY DEF JobHeldWhileRunning, TypeOK
<1>5. Running' = Running \ {job[w]} /\ job[w] \in Running
  BY <1>1, PoolAssumption DEF Running, RunBy, TypeOK, OnePlacePerJob
<1>6. \A v, u \in Worker : job'[v] = job'[u] /\ job'[v] # NoJob => v = u
  BY DEF OnePlacePerJob, TypeOK
<1>7. OnePlacePerJob'
  BY <1>1, <1>5, <1>6 DEF OnePlacePerJob, Queued
<1> QED BY <1>2, <1>3, <1>4, <1>7

LEMMA PoolStep == PoolInv /\ [Next]_vars => PoolInv'
<1> SUFFICES ASSUME PoolInv, [Next]_vars PROVE PoolInv'
  OBVIOUS
<1>1. ASSUME NEW j \in Job, Enqueue(j) \/ Broadcast(j) PROVE PoolInv'
  BY <1>1, EnqueueKeeps, BroadcastKeeps
<1>2. ASSUME NEW w \in Worker, WorkerStep(w) \/ SpuriousWakeup(w) PROVE PoolInv'
  BY <1>2, LockStepKeeps, FirstDequeueKeeps, RunJobKeeps, NextDequeueKeeps DEF WorkerStep
<1>3. CASE UNCHANGED vars
  BY <1>3, SamePlaces DEF vars, PoolInv, TypeOK, LockHeldInside, JobHeldWhileRunning
<1> QED BY <1>1, <1>2, <1>3 DEF Next

-----------------------------------------------------------------------------
(* What follows.                                                            *)

LEMMA PoolInvariant == Spec => []PoolInv
  BY PoolInit, PoolStep, PTL DEF Spec

\* Every variable of the pool keeps its type.
THEOREM PoolTypeCorrect == Spec => []TypeOK
  BY PoolInvariant, PTL DEF PoolInv

\* workerLock has one holder at most, who is inside its critical section.
THEOREM WorkerLockExcludes == Spec => []LockHeldInside
  BY PoolInvariant, PTL DEF PoolInv

\* A submitted job is in exactly one place, so it is never lost from the queue and
\* never run twice, although the drain loop dequeues outside workerLock.
THEOREM JobsAreConserved == Spec => []OnePlacePerJob
  BY PoolInvariant, PTL DEF PoolInv

-----------------------------------------------------------------------------
(* The pool implements the abstract pool.                                   *)

LEMMA AbstractInit == Init => Abstract!Init
  BY PoolAssumption DEF Init, Abstract!Init, Running, RunBy

LEMMA AbstractStep == PoolInv /\ [Next]_vars => [Abstract!Next]_(Abstract!poolVars)
<1> SUFFICES ASSUME PoolInv, [Next]_vars
             PROVE  Abstract!Next \/ UNCHANGED <<workQueue, Running, done>>
  BY DEF Abstract!poolVars
<1> USE DEF PoolInv
<1>1. ASSUME NEW j \in Job, Enqueue(j) PROVE Abstract!Next
  <2>1. Running' = Running
    BY <1>1 DEF Enqueue, Running, RunBy
  <2>2. j \notin Abstract!Known
    BY <1>1 DEF Enqueue, OnePlacePerJob, Abstract!Known, Queued
  <2>3. Abstract!Submit(j)
    BY <1>1, <2>1, <2>2 DEF Enqueue, Abstract!Submit
  <2> QED BY <2>3 DEF Abstract!Next
<1>2. ASSUME NEW j \in Job, Broadcast(j) PROVE UNCHANGED <<workQueue, Running, done>>
  BY <1>2 DEF Broadcast, Running, RunBy
<1>3. ASSUME NEW w \in Worker, Lock(w) \/ Wait(w) \/ SpuriousWakeup(w) \/ Relock(w)
      PROVE  UNCHANGED <<workQueue, Running, done>>
  BY <1>3 DEF Lock, Wait, SpuriousWakeup, Relock, Running, RunBy
<1>4. ASSUME NEW w \in Worker, FirstDequeue(w) \/ NextDequeue(w)
      PROVE  Abstract!Next \/ UNCHANGED <<workQueue, Running, done>>
  <2>1. Dequeue(w) /\ UNCHANGED done /\ job[w] = NoJob
    BY <1>4 DEF FirstDequeue, NextDequeue, JobHeldWhileRunning
  <2>2. CASE workQueue = <<>>
    BY <2>1, <2>2 DEF Dequeue, Running, RunBy
  <2>3. CASE workQueue # <<>>
    <3>1. workQueue \in Seq(Job)
      BY DEF TypeOK
    <3>2. Head(workQueue) \in Job
      BY <2>1, <2>3, <3>1, RemovedJob DEF Dequeue
    <3>3. Running' = Running \cup {Head(workQueue)}
      BY <2>1, <2>3, <3>2, PoolAssumption DEF Dequeue, Running, RunBy, TypeOK
    <3>4. Abstract!Start
      BY <2>1, <2>3, <3>3 DEF Dequeue, Abstract!Start
    <3> QED BY <3>4 DEF Abstract!Next
  <2> QED BY <2>2, <2>3
<1>5. ASSUME NEW w \in Worker, RunJob(w) PROVE Abstract!Next
  <2>1. job[w] \in Job
    BY <1>5 DEF RunJob, JobHeldWhileRunning, TypeOK
  <2>2. job[w] \in Running /\ Running' = Running \ {job[w]}
    BY <1>5, <2>1, PoolAssumption DEF RunJob, Running, RunBy, TypeOK, OnePlacePerJob
  <2>3. Abstract!Finish(job[w])
    BY <1>5, <2>2 DEF RunJob, Abstract!Finish
  <2> QED BY <2>1, <2>3 DEF Abstract!Next
<1>6. CASE UNCHANGED vars
  BY <1>6 DEF vars, Running, RunBy
<1> QED BY <1>1, <1>2, <1>3, <1>4, <1>5, <1>6 DEF Next, WorkerStep

\* Jobs start in the order of their submission and each at most once, whatever the
\* workers, wakeups and spurious wakeups do.
THEOREM PoolImplementsJobPool == Spec => ImplementsJobPool
  BY PoolInvariant, AbstractInit, AbstractStep, PTL
  DEF Spec, ImplementsJobPool, Abstract!Spec
=============================================================================
