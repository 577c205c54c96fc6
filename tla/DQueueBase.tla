----------------------------- MODULE DQueueBase -----------------------------
(***************************************************************************)
(* DQueueBase: a queue of tasks and the thread that runs them.             *)
(*                                                                         *)
(* Two mutexes serve as binary semaphores: SleepingLock is unlocked to     *)
(* awaken the worker, and the deleter of MLocker unlocks DataLock a second *)
(* time after MLocker::unlock().  Unlocking a mutex that is not locked, or *)
(* that another thread has locked, is undefined; the mutexes of this build *)
(* (glibc) are free after it, and that is the outcome modelled.  So the    *)
(* worker may free DataLock while the caller is inside, and the model lets *)
(* both be inside at once.  The two ends of a std::queue are then moved by *)
(* one thread each.                                                        *)
(*                                                                         *)
(* One thread owns the queue: it pushes tasks and stops the worker.        *)
(***************************************************************************)
EXTENDS Naturals, Sequences

CONSTANT MaxTasks  \* bound: the tasks that are pushed

ASSUME DQueueAssumption == MaxTasks \in Nat

VARIABLES
    MainQueue,
    SleepingLock,  \* TRUE while it is locked
    DataLock,      \* TRUE while it is locked
    UserStoped,
    worker,        \* where the worker thread is
    caller,        \* where its owner is
    job,           \* the task the worker has moved out of the queue, or 0
    accepted,      \* how many tasks were pushed
    done           \* the tasks of which _do_job() has returned

vars == <<MainQueue, SleepingLock, DataLock, UserStoped, worker, caller, job,
          accepted, done>>

-----------------------------------------------------------------------------
Init ==
    /\ MainQueue = <<>>
    /\ SleepingLock = FALSE
    /\ DataLock = FALSE
    /\ UserStoped = FALSE
    /\ worker = "sleeps"
    /\ caller = "outside"
    /\ job = 0
    /\ accepted = 0
    /\ done = <<>>

\* MLocker::MLocker, and std::mutex::lock of SleepingLock
Lock(mutex) == ~mutex /\ mutex' = TRUE

\* UnlockMutex, which is the deleter of MLocker, and MLocker::unlock
Unlock(mutex) == mutex' = FALSE

\* push_task(), of the next task: one step for what is done between two steps
\* of the worker that could tell the difference.
PushTask ==
    \/ /\ caller = "outside"
       /\ ~UserStoped
       /\ accepted < MaxTasks
       /\ caller' = "locks data"
       /\ UNCHANGED <<MainQueue, SleepingLock, DataLock, accepted>>
    \/ /\ caller = "locks data"
       /\ Lock(DataLock)
       /\ caller' = "pushes"
       /\ UNCHANGED <<MainQueue, SleepingLock, accepted>>
    \/ /\ caller = "pushes"
       /\ MainQueue' = Append(MainQueue, accepted + 1)
       /\ accepted' = accepted + 1
       /\ caller' = "awakens"
       /\ UNCHANGED <<SleepingLock, DataLock>>
    \/ /\ caller = "awakens"
       /\ Unlock(SleepingLock)
       /\ caller' = "unlocks data"
       /\ UNCHANGED <<MainQueue, DataLock, accepted>>
    \/ /\ caller = "unlocks data"
       /\ Unlock(DataLock)
       /\ caller' = "outside"
       /\ UNCHANGED <<MainQueue, SleepingLock, accepted>>

\* Mutant of Stop: the worker is not awakened.
StopMutantAsleep ==
    /\ caller \in {"outside", "stops"}
    /\ caller = "outside" => ~UserStoped
    /\ UserStoped' = TRUE
    /\ caller' = IF caller = "outside" THEN "stops" ELSE "stopped"
    /\ UNCHANGED SleepingLock

\* stop()
Stop ==
    \/ /\ caller = "outside"
       /\ ~UserStoped
       /\ UserStoped' = TRUE
       /\ caller' = "stops"
       /\ UNCHANGED SleepingLock
    \/ /\ caller = "stops"
       /\ Unlock(SleepingLock)
       /\ caller' = "stopped"
       /\ UNCHANGED UserStoped

\* Mutant of Front: the newest task is taken.
FrontMutantLast ==
    /\ job' = MainQueue[Len(MainQueue)]
    /\ MainQueue' = SubSeq(MainQueue, 1, Len(MainQueue) - 1)

\* The worker moves the first task out of the queue.
Front ==
    /\ job' = Head(MainQueue)
    /\ MainQueue' = Tail(MainQueue)

\* Mutant of Rearmed: the worker sleeps whatever is in the queue.
RearmedMutantSleeps == SleepingLock

\* After a job: SleepingLock, which the worker unlocks for itself when it sees
\* more tasks.
Rearmed == IF MainQueue = <<>> THEN SleepingLock ELSE FALSE

\* _do_job() of the example returns, after it has called the callback.
DoJob ==
    /\ done' = Append(done, job)
    /\ job' = 0

\* _main_worker()
MainWorker ==
    \/ /\ worker = "sleeps"
       /\ Lock(SleepingLock)
       /\ worker' = "locks data"
       /\ UNCHANGED <<MainQueue, DataLock, job, done>>
    \/ /\ worker = "locks data"
       /\ Lock(DataLock)
       /\ worker' = "looks"
       /\ UNCHANGED <<MainQueue, SleepingLock, job, done>>
    \/ /\ worker = "looks"
       /\ IF MainQueue = <<>>
          THEN worker' = "finds nothing" /\ UNCHANGED <<MainQueue, job>>
          ELSE worker' = "unlocks data" /\ Front
       /\ UNCHANGED <<SleepingLock, DataLock, done>>
    \/ /\ worker = "finds nothing"
       /\ worker' = IF UserStoped THEN "returns" ELSE "unlocks data"
       /\ UNCHANGED <<MainQueue, SleepingLock, DataLock, job, done>>
    \/ /\ worker = "unlocks data"
       /\ Unlock(DataLock)
       /\ worker' = IF job = 0 THEN "leaves" ELSE "works"
       /\ UNCHANGED <<MainQueue, SleepingLock, job, done>>
    \/ /\ worker = "works"
       /\ DoJob
       /\ worker' = "looks again"
       /\ UNCHANGED <<MainQueue, SleepingLock, DataLock>>
    \/ /\ worker = "looks again"
       /\ SleepingLock' = Rearmed
       /\ worker' = "leaves"
       /\ UNCHANGED <<MainQueue, DataLock, job, done>>
    \/ /\ worker \in {"leaves", "returns"}
       /\ Unlock(DataLock)
       /\ worker' = IF worker = "leaves" THEN "sleeps" ELSE "ended"
       /\ UNCHANGED <<MainQueue, SleepingLock, job, done>>

Call == (PushTask /\ UNCHANGED UserStoped)
        \/ (Stop /\ UNCHANGED <<MainQueue, DataLock, accepted>>)

Next ==
    \/ Call /\ UNCHANGED <<worker, job, done>>
    \/ MainWorker /\ UNCHANGED <<UserStoped, caller, accepted>>

Spec == Init /\ [][Next]_vars

\* A call that was begun goes on, and so does the worker; a task returns.
FairSpec ==
    /\ Spec
    /\ WF_vars(caller # "outside" /\ Call /\ UNCHANGED <<worker, job, done>>)
    /\ WF_vars(MainWorker /\ UNCHANGED <<UserStoped, caller, accepted>>)

-----------------------------------------------------------------------------
Promise ==
    INSTANCE TaskQueue WITH taken <- accepted, ran <- done, closed <- UserStoped

\* Whatever the two threads do with the mutexes, tasks are run at most once, in
\* the order in which they were pushed, and none is accepted after stop(): the
\* queue implements TaskQueue (push_task, _main_worker, stop).
RunsInOrder == Promise!QueueSpec

\* The worker does not sleep on a task: whenever it waits for SleepingLock while
\* tasks are queued, push_task is about to unlock it, although the worker may
\* have looked at the queue before the push and the one unlock may stand for the
\* wake-ups of several tasks (_main_worker, push_task).
NoLostWakeUp ==
    worker = "sleeps" /\ SleepingLock /\ MainQueue # <<>> => caller = "awakens"

\* No wake-up is lost: a task that was pushed is run although nobody pushes
\* another, also when the worker was just about to sleep ("If no job - sleep").
\* Behind a stop it need not be: push_task may be inside when the worker has
\* found the queue empty, and the worker then returns (_main_worker).
AcceptedIsRun ==
    \A t \in 1..MaxTasks : accepted >= t ~> Len(done) >= t \/ UserStoped

\* A worker that has nothing to do when it is stopped ends, so join() returns.
IdleWorkerEnds ==
    worker = "sleeps" /\ SleepingLock /\ MainQueue = <<>> /\ caller = "stops"
        ~> worker = "ended"

\* stop() "Causes the finalization of working loop. [...] When last task will
\* be done - stop work and thread" (the comment on stop()).
StopEndsThread == UserStoped ~> worker = "ended"

=============================================================================
