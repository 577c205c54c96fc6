-------------------------- MODULE DQueueBaseProofs --------------------------
(***************************************************************************)
(* The detached task queue implements TaskQueue, for any number of tasks,  *)
(* and no wake-up of its worker is lost.                                   *)
(***************************************************************************)
EXTENDS DQueueBase, TLAPS

Place ==
    {"sleeps", "locks data", "looks", "finds nothing", "unlocks data", "works",
     "looks again", "leaves", "returns", "ended"}

TypeOK ==
    /\ MainQueue \in Seq(Nat)
    /\ UserStoped \in BOOLEAN
    /\ worker \in Place
    /\ job \in Nat
    /\ accepted \in Nat
    /\ done \in Seq(Nat)

\* How many tasks have left the queue.
Moved == Len(done) + (IF job = 0 THEN 0 ELSE 1)

\* The tasks that were accepted are those done, the one at work and those in the
\* queue, in this order.
Ordered ==
    /\ accepted = Moved + Len(MainQueue)
    /\ \A i \in 1..Len(MainQueue) : MainQueue[i] = Moved + i
    /\ job # 0 => job = Len(done) + 1 /\ worker \in {"unlocks data", "works"}
    /\ worker = "works" => job # 0

\* Who has stopped the queue is not inside push_task.
NotInside == UserStoped => caller \in {"stops", "stopped"}

Inv == TypeOK /\ Ordered /\ NotInside

LEMMA InitInv == Init => Inv
  <1> SUFFICES ASSUME Init PROVE Inv
    OBVIOUS
  <1>0. <<>> \in Seq(Nat)
    OBVIOUS
  <1>1. TypeOK
    BY <1>0 DEF Init, TypeOK, Place
  <1>2. Len(MainQueue) = 0 /\ Len(done) = 0
    BY DEF Init
  <1>3. Moved = 0
    BY <1>2 DEF Init, Moved
  <1>4. Ordered
    BY <1>2, <1>3 DEF Init, Ordered
  <1> QED  BY <1>1, <1>4 DEF Init, Inv, NotInside

\* The first task of the queue is the one behind those that have left it.
LEMMA FrontOrdered ==
  ASSUME Inv, job = 0, MainQueue # <<>>, Front
  PROVE  /\ job' = Len(done) + 1
         /\ MainQueue' \in Seq(Nat)
         /\ Len(MainQueue') = Len(MainQueue) - 1
         /\ \A i \in 1..Len(MainQueue') : MainQueue'[i] = Len(done) + 1 + i
  <1>1. Len(MainQueue) \in Nat \ {0}
    BY DEF Inv, TypeOK
  <1>2. Len(done) \in Nat
    BY DEF Inv, TypeOK
  <1>3. Len(MainQueue') = Len(MainQueue) - 1
    BY <1>1 DEF Inv, TypeOK, Front
  <1>4. \A i \in 1..Len(MainQueue') : MainQueue'[i] = MainQueue[i + 1]
    BY <1>1, <1>3 DEF Inv, TypeOK, Front
  <1>5. \A i \in 1..Len(MainQueue) : MainQueue[i] = Len(done) + i
    BY <1>2 DEF Inv, Ordered, Moved
  <1>6. \A i \in 1..Len(MainQueue') : MainQueue'[i] = Len(done) + 1 + i
    BY <1>1, <1>2, <1>3, <1>4, <1>5
  <1>7. job' = Len(done) + 1
    BY <1>1, <1>2, <1>5 DEF Front
  <1> QED  BY <1>1, <1>3, <1>6, <1>7 DEF Inv, TypeOK, Front

LEMMA PushTaskInv ==
  ASSUME Inv, PushTask, UNCHANGED <<UserStoped, worker, job, done>>
  PROVE  Inv' /\ (Promise!Accept \/ UNCHANGED Promise!queueVars)
  <1>1. ~UserStoped
    BY DEF PushTask, Inv, NotInside
  <1>2. NotInside'
    BY <1>1 DEF NotInside
  <1>3. CASE UNCHANGED <<MainQueue, accepted>>
    BY <1>2, <1>3 DEF Inv, TypeOK, Ordered, Moved, Promise!queueVars
  <1>4. CASE caller = "pushes" /\ MainQueue' = Append(MainQueue, accepted + 1)
                               /\ accepted' = accepted + 1
    <2>1. Len(MainQueue') = Len(MainQueue) + 1 /\ MainQueue' \in Seq(Nat)
      BY <1>4 DEF Inv, TypeOK
    <2>2. Moved \in Nat /\ Moved' = Moved
      BY DEF Inv, TypeOK, Moved
    <2>3. accepted = Moved + Len(MainQueue)
      BY DEF Inv, Ordered
    <2>4. ASSUME NEW i \in 1..Len(MainQueue')
          PROVE  MainQueue'[i] = Moved + i
      <3>1. CASE i \in 1..Len(MainQueue)
        <4>1. MainQueue'[i] = MainQueue[i]
          BY <1>4, <3>1 DEF Inv, TypeOK
        <4> QED  BY <3>1, <4>1 DEF Inv, Ordered
      <3>2. CASE i = Len(MainQueue) + 1
        <4>1. MainQueue'[i] = accepted + 1
          BY <1>4, <3>2 DEF Inv, TypeOK
        <4> QED  BY <2>2, <2>3, <3>2, <4>1 DEF Inv, TypeOK
      <3> QED  BY <2>1, <3>1, <3>2 DEF Inv, TypeOK
    <2>5. accepted' = Moved + Len(MainQueue')
      BY <1>4, <2>1, <2>2, <2>3 DEF Inv, TypeOK
    <2>7. UNCHANGED <<job, done, worker>>
      OBVIOUS
    <2>6. Ordered'
      <3>1. accepted' = Moved' + Len(MainQueue')
        BY <2>2, <2>5
      <3>2. \A i \in 1..Len(MainQueue') : MainQueue'[i] = Moved' + i
        BY <2>2, <2>4
      <3> QED  BY <2>7, <3>1, <3>2 DEF Inv, Ordered
    <2> QED  BY <1>1, <1>2, <1>4, <2>1, <2>6 DEF Inv, TypeOK, Promise!Accept
  <1> QED  BY <1>3, <1>4 DEF PushTask

LEMMA StopInv ==
  ASSUME Inv, Stop, UNCHANGED <<MainQueue, accepted, worker, job, done>>
  PROVE  Inv' /\ (Promise!Close \/ UNCHANGED Promise!queueVars)
  BY DEF Stop, Inv, TypeOK, Ordered, Moved, NotInside, Promise!Close, Promise!queueVars

\* The steps of the worker that touch neither the queue nor a task.
LEMMA IdleStepInv ==
  ASSUME Inv, UNCHANGED <<MainQueue, UserStoped, caller, job, accepted, done>>,
         worker' \in Place,
         job # 0 => worker' \in {"unlocks data", "works"},
         worker' = "works" => job # 0
  PROVE  Inv' /\ UNCHANGED Promise!queueVars
  BY DEF Inv, TypeOK, Ordered, Moved, NotInside, Promise!queueVars

LEMMA MainWorkerInv ==
  ASSUME Inv, MainWorker, UNCHANGED <<UserStoped, caller, accepted>>
  PROVE  Inv' /\ (Promise!Perform \/ UNCHANGED Promise!queueVars)
  <1>0. /\ MainQueue \in Seq(Nat) /\ done \in Seq(Nat) /\ job \in Nat
        /\ Len(done) \in Nat /\ Len(MainQueue) \in Nat
    BY DEF Inv, TypeOK
  <1>4. accepted = Moved + Len(MainQueue)
    BY DEF Inv, Ordered
  <1>1. CASE worker = "looks" /\ MainQueue # <<>>
    <2>1. job = 0
      BY <1>1 DEF Inv, Ordered
    <2>2. Front
      BY <1>1 DEF MainWorker
    <2>3. worker' = "unlocks data"
      BY <1>1 DEF MainWorker
    <2>4. done' = done
      BY <1>1 DEF MainWorker
    <2>5. /\ job' = Len(done) + 1
          /\ MainQueue' \in Seq(Nat)
          /\ Len(MainQueue') = Len(MainQueue) - 1
          /\ \A i \in 1..Len(MainQueue') : MainQueue'[i] = Len(done) + 1 + i
      BY <1>1, <2>1, <2>2, FrontOrdered
    <2>6. Moved = Len(done)
      BY <1>0, <2>1 DEF Moved
    <2>7. Moved' = Len(done) + 1
      BY <1>0, <2>4, <2>5 DEF Moved
    <2>8. accepted' = Moved' + Len(MainQueue')
      BY <1>0, <1>4, <2>5, <2>6, <2>7
    <2>9. Ordered'
      BY <1>0, <2>3, <2>4, <2>5, <2>7, <2>8 DEF Ordered
    <2>10. TypeOK'
      <3>1. worker' \in Place
        BY <2>3 DEF Place
      <3>2. job' \in Nat
        BY <1>0, <2>5
      <3>3. MainQueue' \in Seq(Nat)
        BY <2>5
      <3> QED  BY <2>4, <3>1, <3>2, <3>3 DEF Inv, TypeOK
    <2> QED  BY <2>4, <2>9, <2>10 DEF Inv, NotInside, Promise!queueVars
  <1>2. CASE worker = "works"
    <2>1. job # 0 /\ job = Len(done) + 1
      BY <1>2 DEF Inv, Ordered
    <2>2. done' = Append(done, job)
      BY <1>2 DEF MainWorker, DoJob
    <2>3. job' = 0
      BY <1>2 DEF MainWorker, DoJob
    <2>4. worker' = "looks again"
      BY <1>2 DEF MainWorker, DoJob
    <2>5. MainQueue' = MainQueue
      BY <1>2 DEF MainWorker, DoJob
    <2>6. done' \in Seq(Nat) /\ Len(done') = Len(done) + 1
      BY <1>0, <2>2
    <2>7. Moved = Len(done) + 1
      BY <2>1 DEF Moved
    <2>8. Moved' = Moved
      BY <1>0, <2>3, <2>6, <2>7 DEF Moved
    <2>9. Ordered'
      BY <2>3, <2>4, <2>5, <2>8 DEF Inv, Ordered
    <2>10. TypeOK'
      BY <2>3, <2>4, <2>5, <2>6 DEF Inv, TypeOK, Place
    <2>11. Len(done) < accepted
      BY <1>0, <1>4, <2>7
    <2> QED  BY <2>1, <2>2, <2>9, <2>10, <2>11 DEF Inv, NotInside, Promise!Perform
  <1>3. CASE ~(worker = "looks" /\ MainQueue # <<>>) /\ worker # "works"
    <2>1. UNCHANGED <<MainQueue, job, done>>
      BY <1>3 DEF MainWorker
    <2>2. worker' \in Place
      BY <1>3 DEF MainWorker, Place
    <2>3. /\ job # 0 => worker' \in {"unlocks data", "works"}
          /\ worker' = "works" => job # 0
      BY <1>3 DEF MainWorker, Inv, Ordered
    <2> QED  BY <2>1, <2>2, <2>3, IdleStepInv
  <1> QED  BY <1>1, <1>2, <1>3

LEMMA NextInv ==
  ASSUME Inv, [Next]_vars
  PROVE  Inv' /\ [Promise!QueueNext]_(Promise!queueVars)
  <1>1. CASE UNCHANGED vars
    BY <1>1 DEF vars, Inv, TypeOK, Ordered, Moved, NotInside, Promise!queueVars
  <1>2. CASE PushTask /\ UNCHANGED <<UserStoped, worker, job, done>>
    BY <1>2, PushTaskInv DEF Promise!QueueNext
  <1>3. CASE Stop /\ UNCHANGED <<MainQueue, DataLock, accepted, worker, job, done>>
    BY <1>3, StopInv DEF Promise!QueueNext
  <1>4. CASE MainWorker /\ UNCHANGED <<UserStoped, caller, accepted>>
    BY <1>4, MainWorkerInv DEF Promise!QueueNext
  <1> QED  BY <1>1, <1>2, <1>3, <1>4 DEF Next, Call

\* The inductive invariant: what was accepted is done, at work or queued, in this
\* order, and the owner that has stopped the queue is not inside push_task.
THEOREM Invariance == Spec => []Inv
  <1>1. Inv /\ [Next]_vars => Inv'
    BY NextInv
  <1> QED  BY InitInv, <1>1, PTL DEF Spec

\* RunsInOrder (push_task, _main_worker, stop): tasks are run at most once, in
\* the order in which they were pushed, although the worker unlocks DataLock
\* while the owner may hold it.
THEOREM OrderedRuns == Spec => RunsInOrder
  <1>1. Init => Promise!QueueInit
    BY DEF Init, Promise!QueueInit
  <1>2. Inv /\ [Next]_vars => [Promise!QueueNext]_(Promise!queueVars)
    BY NextInv
  <1> QED  BY Invariance, <1>1, <1>2, PTL DEF Spec, RunsInOrder, Promise!QueueSpec

-----------------------------------------------------------------------------
\* While tasks are queued and SleepingLock is locked, push_task is about to
\* unlock it, or the worker is on its way to look at the queue once more.
Awake ==
    MainQueue # <<>> /\ SleepingLock =>
        \/ caller = "awakens"
        \/ worker \in {"locks data", "looks", "works", "looks again"}
        \/ worker = "unlocks data" /\ job # 0

\* A call of the owner unlocks SleepingLock behind each push.
LEMMA CallAwake ==
  ASSUME Awake, Call, UNCHANGED <<worker, job, done>>
  PROVE  Awake'
  <1>1. CASE Stop /\ UNCHANGED <<MainQueue, DataLock, accepted>>
    <2>1. SleepingLock' => caller # "awakens" /\ SleepingLock
      BY <1>1 DEF Stop, Unlock
    <2> QED  BY <1>1, <2>1 DEF Awake
  <1>2. CASE PushTask /\ UNCHANGED UserStoped
    <2>1. CASE UNCHANGED <<MainQueue, SleepingLock>> /\ caller # "awakens"
      BY <2>1 DEF Awake
    <2>2. CASE caller' = "awakens"
      BY <2>2 DEF Awake
    <2>3. CASE SleepingLock' = FALSE
      BY <2>3 DEF Awake
    <2> QED  BY <1>2, <2>1, <2>2, <2>3 DEF PushTask, Unlock
  <1> QED  BY <1>1, <1>2 DEF Call

\* The worker locks SleepingLock only to look at the queue, and leaves it locked
\* only when it has found the queue empty.
LEMMA WorkerAwake ==
  ASSUME Inv, Awake, MainWorker, UNCHANGED <<UserStoped, caller, accepted>>
  PROVE  Awake'
  <1>1. CASE worker = "looks" /\ MainQueue # <<>>
    <2>1. job = 0 /\ Front /\ worker' = "unlocks data"
      BY <1>1 DEF MainWorker, Inv, Ordered
    <2>2. job' # 0
      <3>1. Len(done) \in Nat
        BY DEF Inv, TypeOK
      <3>2. job' = Len(done) + 1
        BY <1>1, <2>1, FrontOrdered
      <3> QED  BY ONLY <3>1, <3>2
    <2> QED  BY <2>1, <2>2 DEF Awake
  <1>2. CASE worker \in {"sleeps", "locks data", "works"}
    BY <1>2 DEF MainWorker, Awake
  <1>3. CASE worker = "looks again"
    <2>1. MainQueue' = MainQueue /\ (MainQueue # <<>> => SleepingLock' = FALSE)
      BY <1>3 DEF MainWorker, Rearmed
    <2> QED  BY <2>1 DEF Awake
  <1>4. CASE \/ worker = "looks" /\ MainQueue = <<>>
             \/ worker \in {"finds nothing", "leaves", "returns"}
    <2>1. UNCHANGED <<MainQueue, SleepingLock>>
      BY <1>4 DEF MainWorker
    <2> QED  BY <1>4, <2>1 DEF Awake
  <1>5. CASE worker = "unlocks data"
    <2>1. /\ UNCHANGED <<MainQueue, SleepingLock>>
          /\ job # 0 => worker' = "works"
      BY <1>5 DEF MainWorker
    <2> QED  BY <1>5, <2>1 DEF Awake
  <1> QED  BY <1>1, <1>2, <1>3, <1>4, <1>5 DEF MainWorker

\* NoLostWakeUp (push_task, _main_worker): the worker never waits for
\* SleepingLock with tasks in the queue, unless push_task is about to unlock it.
THEOREM WorkerIsAwakened == Spec => []NoLostWakeUp
  <1>1. Init => Awake
    BY DEF Init, Awake
  <1>2. Inv /\ Awake /\ [Next]_vars => Awake'
    <2> SUFFICES ASSUME Inv, Awake, [Next]_vars PROVE Awake'
      OBVIOUS
    <2>1. CASE UNCHANGED vars
      BY <2>1 DEF vars, Awake
    <2>2. CASE Call /\ UNCHANGED <<worker, job, done>>
      BY <2>2, CallAwake
    <2>3. CASE MainWorker /\ UNCHANGED <<UserStoped, caller, accepted>>
      BY <2>3, WorkerAwake
    <2> QED  BY <2>1, <2>2, <2>3 DEF Next
  <1>3. Awake => NoLostWakeUp
    BY DEF Awake, NoLostWakeUp
  <1> QED  BY Invariance, <1>1, <1>2, <1>3, PTL DEF Spec

=============================================================================
