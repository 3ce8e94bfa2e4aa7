------------------------------- MODULE WorkerPool -------------------------------
(***************************************************************************)
(* The look-ahead worker pool of Runtime: the queue of waiting jobs        *)
(* (SynchronisedQueue), the availability mutex and condition variable, the *)
(* worker loop, the receiver thread that enqueues jobs from outside, and   *)
(* the destructor that stops and joins the workers.                        *)
(*                                                                         *)
(* Each SynchronisedQueue operation holds the queue's own mutex from its   *)
(* first to its last statement, so one operation is one step here.  What   *)
(* the code does between two operations (the predicate of the wait, a push *)
(* and its callback) is split at those boundaries.                         *)
(*                                                                         *)
(* A job is identified by the rank of its enqueueing: the k-th job pushed  *)
(* to the waiting queue is job k.                                          *)
(***************************************************************************)
EXTENDS Naturals, Sequences, FiniteSets

CONSTANTS
    Workers,    \* the threads "la-<i>" created by the constructor
    NoOne,      \* the availability mutex is free
    MaxNext,    \* bound: next jobs that one processed job may have
    MaxJobs     \* bound: jobs enqueued in a behaviour

ASSUME NoOneAssumption == NoOne \notin Workers
\* RuntimeConfiguration bounds the concurrency by the hardware's threads.
ASSUME WorkersAssumption == IsFiniteSet(Workers)
ASSUME BoundsAssumption == MaxNext \in Nat /\ MaxJobs \in Nat

VARIABLES
    queue,          \* _waiting_jobs._queue, as the ranks of its jobs
    numReserved,    \* _waiting_jobs._num_reserved
    created,        \* number of jobs enqueued so far
    mutex,          \* holder of _availability_mutex
    pc,             \* next statement of each worker
    holds,          \* workers whose last predicate made a reservation not yet consumed
    job,            \* the job a worker is processing, 0 if none
    left,           \* next jobs a worker has still to handle
    numProcessing,  \* _num_processing
    receiver,       \* next statement of the receiver thread
    stop,           \* _stop
    main            \* next statement of the thread that destroys the Runtime

queueVars  == <<queue, numReserved, created>>
workerVars == <<mutex, pc, holds, job, left, numProcessing>>
stopVars   == <<stop, main>>
vars == <<queueVars, workerVars, receiver, stopVars>>

NoJob == 0

(* lock      about to acquire the availability mutex, first or after a wakeup *)
(* test      inside the predicate, before can_reserve                       *)
(* count     can_reserve was true, before ++_num_processing                 *)
(* reserve   before reserve()                                               *)
(* decide    can_reserve was false, before _stop is read                    *)
(* block     the predicate returned false, before the wait set is joined     *)
(* blocked   in the wait set of the condition variable                      *)
(* woken     the wait returned and the mutex is released                    *)
(* dequeue, spawn, notify, finish   the processing of one job               *)
WorkerPC == {"lock", "test", "count", "reserve", "decide", "block", "blocked",
             "woken", "dequeue", "process", "spawn", "notify", "finish", "done"}

Blocked == {w \in Workers : pc[w] = "blocked"}

CanReserve == Len(queue) > numReserved

Init ==
    /\ queue = <<>>
    /\ numReserved = 0
    /\ created = 0
    /\ mutex = NoOne
    /\ pc = [w \in Workers |-> "lock"]
    /\ holds = [w \in Workers |-> FALSE]
    /\ job = [w \in Workers |-> NoJob]
    /\ left = [w \in Workers |-> 0]
    /\ numProcessing = 0
    /\ receiver = "idle"
    /\ stop = FALSE
    /\ main = "running"

Go(w, label) == pc' = [pc EXCEPT ![w] = label]

-----------------------------------------------------------------------------
(* The wait with a predicate.                                               *)

\* Mutant: the predicate is evaluated without the availability mutex.
LockShared(w) ==
    /\ pc[w] = "lock"
    /\ mutex' = w
    /\ Go(w, "test")
    /\ UNCHANGED <<queueVars, holds, job, left, numProcessing, receiver, stopVars>>

Lock(w) ==
    /\ pc[w] = "lock"
    /\ mutex = NoOne
    /\ mutex' = w
    /\ Go(w, "test")
    /\ UNCHANGED <<queueVars, holds, job, left, numProcessing, receiver, stopVars>>

Test(w) ==
    /\ pc[w] = "test"
    /\ Go(w, IF CanReserve THEN "count" ELSE "decide")
    /\ UNCHANGED <<queueVars, mutex, holds, job, left, numProcessing, receiver, stopVars>>

\* Mutant: the job reserved is not counted as being processed.
CountForgotten(w) ==
    /\ pc[w] = "count"
    /\ Go(w, "reserve")
    /\ UNCHANGED <<queueVars, mutex, holds, job, left, numProcessing, receiver, stopVars>>

Count(w) ==
    /\ pc[w] = "count"
    /\ numProcessing' = numProcessing + 1
    /\ Go(w, "reserve")
    /\ UNCHANGED <<queueVars, mutex, holds, job, left, receiver, stopVars>>

\* The predicate is now true whatever _stop is: the wait returns and the
\* scope of the lock ends.
Reserve(w) ==
    /\ pc[w] = "reserve"
    /\ numReserved' = numReserved + 1
    /\ holds' = [holds EXCEPT ![w] = TRUE]
    /\ mutex' = NoOne
    /\ Go(w, "woken")
    /\ UNCHANGED <<queue, created, job, left, numProcessing, receiver, stopVars>>

\* can_reserve was false: _stop alone ends the wait.
Decide(w) ==
    /\ pc[w] = "decide"
    /\ \/ stop /\ mutex' = NoOne /\ Go(w, "woken")
       \/ ~stop /\ Go(w, "block") /\ UNCHANGED mutex
    /\ UNCHANGED <<queueVars, holds, job, left, numProcessing, receiver, stopVars>>

\* The mutex is released and the wait set joined in one step, but neither
\* _stop nor the notifications are protected by that mutex.
Block(w) ==
    /\ pc[w] = "block"
    /\ mutex' = NoOne
    /\ Go(w, "blocked")
    /\ UNCHANGED <<queueVars, holds, job, left, numProcessing, receiver, stopVars>>

SpuriousWakeup(w) ==
    /\ pc[w] = "blocked"
    /\ Go(w, "lock")
    /\ UNCHANGED <<queueVars, mutex, holds, job, left, numProcessing, receiver, stopVars>>

-----------------------------------------------------------------------------
(* One job.                                                                 *)

\* A worker that made a reservation and sees _stop leaves it behind.
CheckStop(w) ==
    /\ pc[w] = "woken"
    /\ Go(w, IF stop THEN "done" ELSE "dequeue")
    /\ UNCHANGED <<queueVars, mutex, holds, job, left, numProcessing, receiver, stopVars>>

DequeuePrecondition == Len(queue) > 0 /\ numReserved > 0

Dequeue(w) ==
    /\ pc[w] = "dequeue"
    /\ DequeuePrecondition
    /\ job' = [job EXCEPT ![w] = Head(queue)]
    /\ queue' = Tail(queue)
    /\ numReserved' = numReserved - 1
    /\ holds' = [holds EXCEPT ![w] = FALSE]
    /\ Go(w, "process")
    /\ UNCHANGED <<created, mutex, left, numProcessing, receiver, stopVars>>

\* The job is aborted, dropped, put to sleep (no next job) or has next jobs.
Process(w) ==
    /\ pc[w] = "process"
    /\ \E n \in 0..MaxNext : left' = [left EXCEPT ![w] = n]
    /\ Go(w, "spawn")
    /\ UNCHANGED <<queueVars, mutex, holds, job, numProcessing, receiver, stopVars>>

\* Mutant: a job overtakes those that wait.
PushFront ==
    /\ created < MaxJobs
    /\ created' = created + 1
    /\ queue' = <<created + 1>> \o queue
    /\ UNCHANGED numReserved

Push ==
    /\ created < MaxJobs
    /\ created' = created + 1
    /\ queue' = Append(queue, created + 1)
    /\ UNCHANGED numReserved

\* A next job is enqueued, or dropped because its path is already registered.
Spawn(w) ==
    /\ pc[w] = "spawn"
    /\ left[w] > 0
    /\ left' = [left EXCEPT ![w] = @ - 1]
    /\ \/ Push /\ Go(w, "notify")
       \/ UNCHANGED <<queueVars, pc>>
    /\ UNCHANGED <<mutex, holds, job, numProcessing, receiver, stopVars>>

SpawnEnd(w) ==
    /\ pc[w] = "spawn"
    /\ left[w] = 0
    /\ Go(w, "finish")
    /\ UNCHANGED <<queueVars, mutex, holds, job, left, numProcessing, receiver, stopVars>>

\* notify_one by worker w, without the availability mutex.
Notify(w) ==
    /\ pc[w] = "notify"
    /\ \/ /\ Blocked = {}
          /\ Go(w, "spawn")
       \/ \E b \in Blocked : pc' = [pc EXCEPT ![w] = "spawn", ![b] = "lock"]
    /\ UNCHANGED <<queueVars, mutex, holds, job, left, numProcessing, receiver, stopVars>>

\* Mutant: the job processed stays counted.
FinishCounted(w) ==
    /\ pc[w] = "finish"
    /\ job' = [job EXCEPT ![w] = NoJob]
    /\ Go(w, "lock")
    /\ UNCHANGED <<queueVars, mutex, holds, left, numProcessing, receiver, stopVars>>

\* Mutant: a worker waits to be notified before it looks at the queue.
FinishWaiting(w) ==
    /\ pc[w] = "finish"
    /\ job' = [job EXCEPT ![w] = NoJob]
    /\ numProcessing' = numProcessing - 1
    /\ Go(w, "blocked")
    /\ UNCHANGED <<queueVars, mutex, holds, left, receiver, stopVars>>

Finish(w) ==
    /\ pc[w] = "finish"
    /\ job' = [job EXCEPT ![w] = NoJob]
    /\ numProcessing' = numProcessing - 1
    /\ Go(w, "lock")
    /\ UNCHANGED <<queueVars, mutex, holds, left, receiver, stopVars>>

-----------------------------------------------------------------------------
(* The receiver thread: a promoted pair or an awakened job is enqueued.     *)

ReceiverPush ==
    /\ receiver = "idle"
    /\ Push
    /\ receiver' = "notify"
    /\ UNCHANGED <<workerVars, stopVars>>

ReceiverNotify ==
    /\ receiver = "notify"
    /\ \/ Blocked = {} /\ UNCHANGED pc
       \/ \E b \in Blocked : Go(b, "lock")
    /\ receiver' = "idle"
    /\ UNCHANGED <<queueVars, mutex, holds, job, left, numProcessing, stopVars>>

-----------------------------------------------------------------------------
(* The destructor: _stop = true, notify_all, then the threads are joined.   *)

Stop ==
    /\ main = "running"
    /\ stop' = TRUE
    /\ main' = "notify"
    /\ UNCHANGED <<queueVars, workerVars, receiver>>

NotifyAll ==
    /\ main = "notify"
    /\ pc' = [w \in Workers |-> IF pc[w] = "blocked" THEN "lock" ELSE pc[w]]
    /\ main' = "join"
    /\ UNCHANGED <<queueVars, mutex, holds, job, left, numProcessing, receiver, stop>>

Join ==
    /\ main = "join"
    /\ \A w \in Workers : pc[w] = "done"
    /\ main' = "joined"
    /\ UNCHANGED <<queueVars, workerVars, receiver, stop>>

-----------------------------------------------------------------------------
WorkerStep(w) ==
    \/ Lock(w) \/ Test(w) \/ Count(w) \/ Reserve(w) \/ Decide(w) \/ Block(w)
    \/ CheckStop(w) \/ Dequeue(w) \/ Process(w) \/ Spawn(w) \/ SpawnEnd(w) \/ Notify(w) \/ Finish(w)

Next ==
    \/ \E w \in Workers : WorkerStep(w) \/ SpuriousWakeup(w)
    \/ ReceiverPush \/ ReceiverNotify
    \/ Stop \/ NotifyAll \/ Join

Spec == Init /\ [][Next]_vars

(* The operating system runs every thread that can run; a started callback *)
(* and a started destructor go on.  New messages, the destruction of the   *)
(* Runtime and spurious wakeups are not due to anybody.                    *)
Fairness ==
    /\ \A w \in Workers : WF_vars(WorkerStep(w))
    /\ WF_vars(ReceiverNotify) /\ WF_vars(NotifyAll) /\ WF_vars(Join)

FairSpec == Spec /\ Fairness

-----------------------------------------------------------------------------
(* Every variable stays in its domain; counters never go below zero.       *)
TypeOK ==
    /\ queue \in Seq(Nat \ {0})
    /\ numReserved \in Nat
    /\ created \in Nat
    /\ mutex \in Workers \cup {NoOne}
    /\ pc \in [Workers -> WorkerPC]
    /\ holds \in [Workers -> BOOLEAN]
    /\ job \in [Workers -> Nat]
    /\ left \in [Workers -> Nat]
    /\ numProcessing \in Nat
    /\ receiver \in {"idle", "notify"}
    /\ stop \in BOOLEAN
    /\ main \in {"running", "notify", "join", "joined"}

Holders == {w \in Workers : holds[w]}

(* The reservations are exactly those of the workers that made one and      *)
(* have not consumed it, and each is backed by a job in the queue: although *)
(* can_reserve and reserve are two acquisitions of the queue mutex, no two   *)
(* workers reserve the same job (runtime.cpp:115-116).                      *)
ReservationsBacked ==
    /\ numReserved = Cardinality(Holders)
    /\ numReserved <= Len(queue)

(* The preconditions asserted by dequeue never fail in a worker             *)
(* (synchronised_queue.hpp:51-52).                                          *)
DequeueSafe == \A w \in Workers : pc[w] = "dequeue" => DequeuePrecondition

(* Every job enqueued is taken at most once and none is skipped: the jobs   *)
(* still queued are the most recent ones, in the order of enqueueing, and no *)
(* two workers process the same job.                                        *)
TakenOnce ==
    /\ \A i \in 1..Len(queue) : queue[i] = created - Len(queue) + i
    /\ \A w \in Workers : job[w] # NoJob => job[w] <= created - Len(queue)
    /\ \A v, w \in Workers : job[v] = job[w] /\ job[v] # NoJob => v = w

Counted == {w \in Workers :
              \/ pc[w] \in {"reserve", "dequeue", "process", "spawn", "notify", "finish"}
              \/ pc[w] \in {"woken", "done"} /\ holds[w]}

(* _num_processing counts the workers that have a job or a reservation for  *)
(* one, so it never wraps below zero (runtime.cpp:116 and 122); a worker     *)
(* that stops with a reservation stays counted.                             *)
ProcessingExact == numProcessing = Cardinality(Counted)

(* Once the threads are joined no job is being processed and the            *)
(* availability mutex is free, so the members can be destroyed.             *)
JoinedQuiet == main = "joined" => mutex = NoOne /\ \A w \in Workers : job[w] = NoJob

(* A worker that enqueues a next job comes back to the queue before it      *)
(* waits, so next jobs are taken even when every notification is lost: as   *)
(* long as the runtime is not being destroyed, a job that a worker has      *)
(* enqueued leaves the queue.                                               *)
NextJobsTaken ==
    \A k \in 1..MaxJobs :
        (\E w \in Workers : pc[w] = "notify" /\ created = k)
            ~> (created - Len(queue) >= k \/ stop)

Pool == INSTANCE JobPool WITH
            Slots <- Workers, submitted <- created, waiting <- queue, running <- job

(* The pool with its locks, reservations and lost notifications implements  *)
(* the job states of LookAheadJobInterface: jobs start in order of arrival,  *)
(* on a worker that is free, and no worker drops or repeats one.             *)
ImplementsJobPool == Pool!JPSpec

(* What runtime.hpp:97 says of the destructor: "Stop the threads".          *)
DestructorStops == stop ~> main = "joined"
=============================================================================
