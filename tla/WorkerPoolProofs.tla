---------------------------- MODULE WorkerPoolProofs ----------------------------
(***************************************************************************)
(* Proofs about the worker pool, for any finite set of workers and any     *)
(* bounds.                                                                  *)
(*                                                                         *)
(* TypeOK alone is not inductive (Finish needs a positive _num_processing, *)
(* which is ProcessingExact), nor is ReservationsBacked (Reserve needs     *)
(* that the job seen by can_reserve is still free, which holds because the *)
(* predicate of the wait runs under the availability mutex).  IInv is       *)
(* their conjunction with what the program counters say of the mutex, of    *)
(* the reservations and of the jobs.                                        *)
(***************************************************************************)
EXTENDS WorkerPool, FiniteSetTheorems, SequenceTheorems, TLAPS

(* The predicate of the wait is evaluated by one worker at a time.          *)
Critical ==
    \A w \in Workers :
        pc[w] \in {"test", "count", "reserve", "decide", "block"} => mutex = w

(* Between can_reserve and reserve a job stays free for the worker.         *)
StillFree == \A w \in Workers : pc[w] \in {"count", "reserve"} => numReserved < Len(queue)

(* A reservation is made in the predicate and consumed by dequeue; without  *)
(* one, a worker leaves the wait only because of _stop.                     *)
HoldsWhere ==
    \A w \in Workers :
        /\ pc[w] = "dequeue" => holds[w]
        /\ holds[w] => pc[w] \in {"woken", "dequeue", "done"}
        /\ pc[w] = "woken" /\ ~holds[w] => stop

JobWhere ==
    \A w \in Workers : job[w] # NoJob <=> pc[w] \in {"process", "spawn", "notify", "finish"}

JoinedMeansDone == main = "joined" => \A w \in Workers : pc[w] = "done"

MutexHeld ==
    mutex # NoOne => pc[mutex] \in {"test", "count", "reserve", "decide", "block"}

Control ==
    Critical /\ MutexHeld /\ StillFree /\ HoldsWhere /\ JobWhere /\ JoinedMeansDone

Taken == TakenOnce /\ Len(queue) <= created

IInv == TypeOK /\ Control /\ ReservationsBacked /\ ProcessingExact /\ Taken

-----------------------------------------------------------------------------
(* The two sets that are counted.                                           *)

(* Subsets of the workers have a cardinality that is a natural number.      *)
LEMMA Finite ==
    ASSUME NEW S \in SUBSET Workers
    PROVE  IsFiniteSet(S) /\ Cardinality(S) \in Nat
BY WorkersAssumption, FS_Subset, FS_CardinalityType

(* A worker that enters a set of workers adds one to its cardinality; a     *)
(* worker that leaves takes one away.                                       *)
LEMMA Enters ==
    ASSUME NEW S \in SUBSET Workers, NEW w \in Workers, w \notin S
    PROVE  Cardinality(S \cup {w}) = Cardinality(S) + 1
BY Finite, FS_AddElement

LEMMA Leaves ==
    ASSUME NEW S \in SUBSET Workers, NEW w \in S
    PROVE  /\ Cardinality(S) > 0
           /\ Cardinality(S \ {w}) = Cardinality(S) - 1
<1>1. IsFiniteSet(S) /\ Cardinality(S) \in Nat
  BY Finite
<1>2. Cardinality(S) # 0
  BY <1>1, FS_EmptySet
<1>3. Cardinality(S) > 0
  BY <1>1, <1>2
<1>4. Cardinality(S \ {w}) = Cardinality(S) - 1
  BY <1>1, FS_RemoveElement
<1> QED
  BY <1>3, <1>4

-----------------------------------------------------------------------------
(* The initial states.                                                      *)
LEMMA InitIInv == Init => IInv
<1> SUFFICES ASSUME Init PROVE IInv
  OBVIOUS
<1>1. Holders = {} /\ Counted = {}
  BY DEF Init, Holders, Counted
<1>2. TypeOK
  <2>1. queue \in Seq(Nat \ {0})
    BY EmptySeq DEF Init
  <2> QED
    BY <2>1 DEF Init, TypeOK, NoJob, WorkerPC
<1>3. Control
  BY NoOneAssumption DEF Init, Control, Critical, MutexHeld, StillFree, HoldsWhere, JobWhere,
                         JoinedMeansDone, NoJob
<1>4. ReservationsBacked /\ ProcessingExact
  BY <1>1, FS_EmptySet DEF Init, ReservationsBacked, ProcessingExact
<1>5. Taken
  BY DEF Init, Taken, TakenOnce, NoJob
<1> QED
  BY <1>2, <1>3, <1>4, <1>5 DEF IInv

-----------------------------------------------------------------------------
(* What each group of actions does to the queue and to the two counters.    *)

(* The actions of a worker that leave reservations and queue alone.         *)
Quiet(w) ==
    \/ Lock(w) \/ Test(w) \/ Count(w) \/ Decide(w) \/ Block(w) \/ SpuriousWakeup(w)
    \/ CheckStop(w) \/ Process(w) \/ SpawnEnd(w) \/ Notify(w) \/ Finish(w)

(* The actions that may enqueue a job.                                      *)
Pushes == Push \/ UNCHANGED queueVars

(* Every step is one of a few kinds.                                        *)
LEMMA StepKinds ==
    ASSUME [Next]_vars
    PROVE  \/ \E w \in Workers : Quiet(w) \/ Reserve(w) \/ Dequeue(w) \/ Spawn(w)
           \/ ReceiverPush \/ ReceiverNotify \/ Stop \/ NotifyAll \/ Join
           \/ UNCHANGED vars
BY DEF Next, WorkerStep, Quiet

(* The type invariant, given that a counted worker makes _num_processing    *)
(* positive.                                                                *)
LEMMA TypeStep == IInv /\ [Next]_vars => TypeOK'
<1> SUFFICES ASSUME IInv, [Next]_vars PROVE TypeOK'
  OBVIOUS
<1> USE DEF TypeOK, WorkerPC, NoJob
<1>0. TypeOK /\ Control
  BY DEF IInv
<1>1. ASSUME NEW w \in Workers, Lock(w) \/ Test(w) \/ Count(w) \/ Reserve(w) PROVE TypeOK'
  <2>1. mutex' \in Workers \cup {NoOne} /\ holds' \in [Workers -> BOOLEAN]
    BY <1>0, <1>1 DEF Lock, Test, Count, Reserve
  <2>2. pc' \in [Workers -> WorkerPC]
    BY <1>0, <1>1 DEF Lock, Test, Count, Reserve, Go
  <2>3. numReserved' \in Nat /\ numProcessing' \in Nat
    BY <1>0, <1>1 DEF Lock, Test, Count, Reserve, queueVars
  <2> QED
    BY <1>0, <1>1, <2>1, <2>2, <2>3 DEF Lock, Test, Count, Reserve, queueVars, stopVars
<1>2. ASSUME NEW w \in Workers, Decide(w) \/ Block(w) \/ SpuriousWakeup(w) \/ CheckStop(w)
      PROVE  TypeOK'
  <2>1. mutex' \in Workers \cup {NoOne} /\ pc' \in [Workers -> WorkerPC]
    BY <1>0, <1>2 DEF Decide, Block, SpuriousWakeup, CheckStop, Go
  <2> QED
    BY <1>0, <1>2, <2>1 DEF Decide, Block, SpuriousWakeup, CheckStop, queueVars, stopVars
<1>3. ASSUME NEW w \in Workers, Dequeue(w) PROVE TypeOK'
  <2>1. queue # <<>>
    BY <1>0, <1>3 DEF Dequeue, DequeuePrecondition
  <2>2. Head(queue) \in Nat /\ Tail(queue) \in Seq(Nat \ {0})
    BY <1>0, <2>1, HeadTailProperties
  <2> QED
    BY <1>0, <1>3, <2>2 DEF Dequeue, DequeuePrecondition, Go, stopVars
<1>4. ASSUME NEW w \in Workers, Process(w) \/ SpawnEnd(w) \/ Notify(w) PROVE TypeOK'
  <2>1. left' \in [Workers -> Nat]
    <3>1. CASE Process(w)
      <4>1. PICK n \in 0..MaxNext : left' = [left EXCEPT ![w] = n]
        BY <3>1 DEF Process
      <4> QED
        BY <1>0, <4>1, BoundsAssumption
    <3>2. CASE SpawnEnd(w) \/ Notify(w)
      BY <1>0, <3>2 DEF SpawnEnd, Notify
    <3> QED
      BY <1>4, <3>1, <3>2
  <2>2. pc' \in [Workers -> WorkerPC]
    BY <1>0, <1>4 DEF Process, SpawnEnd, Notify, Blocked, Go
  <2> QED
    BY <1>0, <1>4, <2>1, <2>2 DEF Process, SpawnEnd, Notify, queueVars, stopVars
<1>5. ASSUME Push PROVE queue' \in Seq(Nat \ {0}) /\ created' \in Nat /\ numReserved' \in Nat
  BY <1>0, <1>5, AppendProperties DEF Push
<1>6. ASSUME NEW w \in Workers, Spawn(w) PROVE TypeOK'
  <2>1. left' \in [Workers -> Nat]
    BY <1>0, <1>6 DEF Spawn
  <2>2. pc' \in [Workers -> WorkerPC]
    BY <1>0, <1>6 DEF Spawn, Go
  <2>3. queue' \in Seq(Nat \ {0}) /\ created' \in Nat /\ numReserved' \in Nat
    BY <1>0, <1>5, <1>6 DEF Spawn, queueVars
  <2> QED
    BY <1>0, <1>6, <2>1, <2>2, <2>3 DEF Spawn, stopVars
<1>7. ASSUME NEW w \in Workers, Finish(w) PROVE TypeOK'
  <2>1. w \in Counted
    BY <1>7 DEF Finish, Counted
  <2>2. numProcessing > 0
    BY <2>1, Leaves DEF IInv, ProcessingExact, Counted
  <2> QED
    BY <1>0, <1>7, <2>2 DEF Finish, Go, queueVars, stopVars
<1>8. ReceiverPush => TypeOK'
  BY <1>0, <1>5 DEF ReceiverPush, workerVars, stopVars
<1>9. ReceiverNotify \/ Stop \/ NotifyAll \/ Join \/ UNCHANGED vars => TypeOK'
  BY <1>0 DEF ReceiverNotify, Stop, NotifyAll, Join, Go, Blocked, vars, queueVars, workerVars, stopVars
<1> QED
  BY <1>1, <1>2, <1>3, <1>4, <1>6, <1>7, <1>8, <1>9, StepKinds DEF Quiet

-----------------------------------------------------------------------------
(* The program counters.                                                    *)
LEMMA ControlStep == IInv /\ [Next]_vars => Control'
<1> SUFFICES ASSUME IInv, [Next]_vars PROVE Control'
  OBVIOUS
<1> USE DEF Control, Critical, MutexHeld, HoldsWhere, JobWhere, JoinedMeansDone
<1>0. TypeOK /\ Control
  BY DEF IInv
<1>1. pc \in [Workers -> WorkerPC] /\ holds \in [Workers -> BOOLEAN] /\ job \in [Workers -> Nat]
      /\ mutex \in Workers \cup {NoOne} /\ numReserved \in Nat /\ queue \in Seq(Nat \ {0})
  BY <1>0 DEF TypeOK
<1>2. ASSUME NEW w \in Workers, Lock(w) \/ Test(w) \/ Count(w) \/ Decide(w) \/ Block(w)
      PROVE  Control'
  <2>1. (Critical /\ MutexHeld)'
    BY <1>0, <1>1, <1>2, NoOneAssumption DEF Lock, Test, Count, Decide, Block, Go
  <2>2. StillFree'
    BY <1>0, <1>1, <1>2 DEF StillFree, CanReserve, Lock, Test, Count, Decide, Block, Go, queueVars
  <2>3. (HoldsWhere /\ JobWhere /\ JoinedMeansDone)'
    BY <1>0, <1>1, <1>2 DEF Lock, Test, Count, Decide, Block, Go, stopVars
  <2> QED
    BY <2>1, <2>2, <2>3
<1>3. ASSUME NEW w \in Workers, SpuriousWakeup(w) \/ CheckStop(w) \/ Process(w) \/ SpawnEnd(w)
                                \/ Notify(w) \/ Finish(w)
      PROVE  Control'
  <2>1. (Critical /\ MutexHeld)'
    BY <1>0, <1>1, <1>3, NoOneAssumption
       DEF SpuriousWakeup, CheckStop, Process, SpawnEnd, Notify, Finish, Blocked, Go
  <2>2. StillFree'
    BY <1>0, <1>1, <1>3
       DEF StillFree, SpuriousWakeup, CheckStop, Process, SpawnEnd, Notify, Finish, Blocked, Go,
           queueVars
  <2>3. HoldsWhere'
    BY <1>0, <1>1, <1>3
       DEF SpuriousWakeup, CheckStop, Process, SpawnEnd, Notify, Finish, Blocked, Go, stopVars
  <2>4. JobWhere'
    BY <1>0, <1>1, <1>3
       DEF SpuriousWakeup, CheckStop, Process, SpawnEnd, Notify, Finish, Blocked, Go, NoJob
  <2>5. JoinedMeansDone'
    BY <1>0, <1>1, <1>3
       DEF SpuriousWakeup, CheckStop, Process, SpawnEnd, Notify, Finish, Blocked, Go, stopVars
  <2> QED
    BY <2>1, <2>2, <2>3, <2>4, <2>5
<1>4. ASSUME NEW w \in Workers, Reserve(w) PROVE Control'
  <2>1. \A v \in Workers : v # w => pc[v] \notin {"count", "reserve"}
    BY <1>0, <1>4 DEF Reserve
  <2>2. (Critical /\ MutexHeld)'
    BY <1>0, <1>1, <1>4, NoOneAssumption DEF Reserve, Go
  <2>3. StillFree'
    BY <1>1, <1>4, <2>1 DEF StillFree, Reserve, Go
  <2>4. (HoldsWhere /\ JobWhere /\ JoinedMeansDone)'
    BY <1>0, <1>1, <1>4 DEF Reserve, Go, stopVars
  <2> QED
    BY <2>2, <2>3, <2>4
<1>5. ASSUME NEW w \in Workers, Dequeue(w) PROVE Control'
  <2>1. queue # <<>> /\ Head(queue) \in Nat \ {0} /\ Len(queue') = Len(queue) - 1
    BY <1>1, <1>5, HeadTailProperties DEF Dequeue, DequeuePrecondition
  <2>2. (Critical /\ MutexHeld)'
    BY <1>0, <1>1, <1>5, NoOneAssumption DEF Dequeue, Go
  <2>3. StillFree'
    BY <1>0, <1>1, <1>5, <2>1 DEF StillFree, Dequeue, DequeuePrecondition, Go
  <2>4. (HoldsWhere /\ JobWhere /\ JoinedMeansDone)'
    BY <1>0, <1>1, <1>5, <2>1 DEF Dequeue, Go, stopVars, NoJob
  <2> QED
    BY <2>2, <2>3, <2>4
<1>6. ASSUME Pushes PROVE Len(queue') >= Len(queue) /\ numReserved' = numReserved
  <2>1. created + 1 \in Nat \ {0}
    BY <1>0 DEF TypeOK
  <2> QED
    BY <1>1, <1>6, <2>1, AppendProperties DEF Pushes, Push, queueVars, TypeOK
<1>7. ASSUME NEW w \in Workers, Spawn(w) PROVE Control'
  <2>1. Pushes
    BY <1>7 DEF Pushes, Spawn, queueVars
  <2>2. (Critical /\ MutexHeld)'
    BY <1>0, <1>1, <1>7, NoOneAssumption DEF Spawn, Go
  <2>3. StillFree'
    BY <1>0, <1>1, <1>6, <1>7, <2>1 DEF StillFree, Spawn, Go
  <2>4. (HoldsWhere /\ JobWhere /\ JoinedMeansDone)'
    BY <1>0, <1>1, <1>7 DEF Spawn, Go, stopVars
  <2> QED
    BY <2>2, <2>3, <2>4
<1>8. ASSUME ReceiverPush PROVE Control'
  <2>1. Pushes /\ UNCHANGED <<workerVars, stopVars>>
    BY <1>8 DEF ReceiverPush, Pushes
  <2> QED
    BY <1>0, <1>1, <1>6, <2>1 DEF StillFree, workerVars, stopVars
<1>9. ASSUME ReceiverNotify PROVE Control'
  BY <1>0, <1>1, <1>9, NoOneAssumption DEF ReceiverNotify, Blocked, Go, StillFree, queueVars, stopVars
<1>10. Stop \/ Join \/ UNCHANGED vars => Control'
  BY <1>0, <1>1, NoOneAssumption
     DEF Stop, Join, StillFree, vars, queueVars, workerVars, stopVars
<1>11. NotifyAll => Control'
  BY <1>0, <1>1, NoOneAssumption DEF NotifyAll, StillFree, queueVars
<1> QED
  BY <1>2, <1>3, <1>4, <1>5, <1>7, <1>8, <1>9, <1>10, <1>11, StepKinds DEF Quiet

-----------------------------------------------------------------------------
(* The reservations.  can_reserve and reserve are two operations of the     *)
(* queue; StillFree is what carries the answer of the first to the second.  *)
LEMMA ReservationStep == IInv /\ [Next]_vars => ReservationsBacked'
<1> SUFFICES ASSUME IInv, [Next]_vars PROVE ReservationsBacked'
  OBVIOUS
<1> USE DEF ReservationsBacked
<1>0. TypeOK /\ Control /\ ReservationsBacked /\ Holders \in SUBSET Workers
  BY DEF IInv, Holders
<1>1. ASSUME UNCHANGED <<numReserved, holds>>, Len(queue') >= Len(queue)
      PROVE  ReservationsBacked'
  <2>1. Holders' = Holders
    BY <1>1 DEF Holders
  <2> QED
    BY <1>0, <1>1, <2>1 DEF TypeOK
<1>2. ASSUME Pushes PROVE Len(queue') >= Len(queue) /\ numReserved' = numReserved
  <2>1. created + 1 \in Nat \ {0}
    BY <1>0 DEF TypeOK
  <2> QED
    BY <1>0, <1>2, <2>1, AppendProperties DEF Pushes, Push, queueVars, TypeOK
<1>3. ASSUME NEW w \in Workers, Quiet(w) PROVE ReservationsBacked'
  <2>1. UNCHANGED <<queue, numReserved, holds>>
    BY <1>3 DEF Quiet, Lock, Test, Count, Decide, Block, SpuriousWakeup, CheckStop, Process,
                SpawnEnd, Notify, Finish, queueVars
  <2> QED
    BY <1>0, <1>1, <2>1 DEF TypeOK
<1>4. ASSUME NEW w \in Workers, Reserve(w) PROVE ReservationsBacked'
  <2>1. w \notin Holders /\ Holders' = Holders \cup {w}
    BY <1>0, <1>4 DEF Reserve, Holders, Control, HoldsWhere, TypeOK
  <2>2. Cardinality(Holders') = Cardinality(Holders) + 1
    BY <1>0, <2>1, Enters
  <2>3. numReserved < Len(queue)
    BY <1>0, <1>4 DEF Reserve, Control, StillFree
  <2> QED
    BY <1>0, <1>4, <2>2, <2>3 DEF Reserve, TypeOK
<1>5. ASSUME NEW w \in Workers, Dequeue(w) PROVE ReservationsBacked'
  <2>1. w \in Holders /\ Holders' = Holders \ {w}
    BY <1>0, <1>5 DEF Dequeue, Holders, Control, HoldsWhere, TypeOK
  <2>2. Cardinality(Holders') = Cardinality(Holders) - 1
    BY <1>0, <2>1, Leaves
  <2>3. Len(queue') = Len(queue) - 1
    BY <1>0, <1>5, HeadTailProperties DEF Dequeue, DequeuePrecondition, TypeOK
  <2> QED
    BY <1>0, <1>5, <2>2, <2>3 DEF Dequeue, TypeOK
<1>6. ASSUME NEW w \in Workers, Spawn(w) PROVE ReservationsBacked'
  <2>1. Pushes /\ UNCHANGED holds
    BY <1>6 DEF Pushes, Spawn, queueVars
  <2> QED
    BY <1>1, <1>2, <2>1
<1>7. ASSUME ReceiverPush PROVE ReservationsBacked'
  <2>1. Pushes /\ UNCHANGED holds
    BY <1>7 DEF ReceiverPush, Pushes, workerVars
  <2> QED
    BY <1>1, <1>2, <2>1
<1>8. ASSUME ReceiverNotify \/ Stop \/ NotifyAll \/ Join \/ UNCHANGED vars
      PROVE  ReservationsBacked'
  <2>1. UNCHANGED <<queue, numReserved, holds>>
    BY <1>8 DEF ReceiverNotify, Stop, NotifyAll, Join, vars, queueVars, workerVars
  <2> QED
    BY <1>0, <1>1, <2>1 DEF TypeOK
<1> QED
  BY <1>3, <1>4, <1>5, <1>6, <1>7, <1>8, StepKinds

-----------------------------------------------------------------------------
(* _num_processing.                                                         *)
LEMMA CountedStep == IInv /\ [Next]_vars => ProcessingExact'
<1> SUFFICES ASSUME IInv, [Next]_vars PROVE ProcessingExact'
  OBVIOUS
<1>0. TypeOK /\ Control /\ ProcessingExact /\ Counted \in SUBSET Workers
  BY DEF IInv, Counted
<1>1. ASSUME numProcessing' = numProcessing, Counted' = Counted
      PROVE  ProcessingExact'
  BY <1>0, <1>1 DEF ProcessingExact
<1> USE DEF Counted, Control, HoldsWhere, TypeOK
<1>2. ASSUME NEW w \in Workers, Count(w) PROVE ProcessingExact'
  <2>1. w \notin Counted /\ Counted' = Counted \cup {w}
    BY <1>0, <1>2 DEF Count, Go
  <2>2. Cardinality(Counted') = Cardinality(Counted) + 1
    BY <1>0, <2>1, Enters
  <2> QED
    BY <1>0, <1>2, <2>2 DEF Count, ProcessingExact
<1>3. ASSUME NEW w \in Workers, Finish(w) PROVE ProcessingExact'
  <2>1. w \in Counted /\ Counted' = Counted \ {w}
    BY <1>0, <1>3 DEF Finish, Go
  <2>2. Cardinality(Counted') = Cardinality(Counted) - 1
    BY <1>0, <2>1, Leaves
  <2> QED
    BY <1>0, <1>3, <2>2 DEF Finish, ProcessingExact
<1>4. ASSUME NEW w \in Workers,
             Lock(w) \/ Test(w) \/ Reserve(w) \/ Decide(w) \/ Block(w) \/ SpuriousWakeup(w)
      PROVE  ProcessingExact'
  <2>1. numProcessing' = numProcessing
    BY <1>4 DEF Lock, Test, Reserve, Decide, Block, SpuriousWakeup
  <2>2. Counted' = Counted
    BY <1>0, <1>4 DEF Lock, Test, Reserve, Decide, Block, SpuriousWakeup, Go
  <2> QED
    BY <1>1, <2>1, <2>2
<1>5. ASSUME NEW w \in Workers,
             CheckStop(w) \/ Dequeue(w) \/ Process(w) \/ Spawn(w) \/ SpawnEnd(w) \/ Notify(w)
      PROVE  ProcessingExact'
  <2>1. numProcessing' = numProcessing
    BY <1>5 DEF CheckStop, Dequeue, Process, Spawn, SpawnEnd, Notify
  <2>2. CASE CheckStop(w)
    <3>1. holds[w] \/ stop
      BY <1>0, <2>2 DEF CheckStop
    <3> QED
      BY <1>0, <1>1, <2>1, <2>2, <3>1 DEF CheckStop, Go
  <2>3. CASE Dequeue(w) \/ Process(w) \/ Spawn(w) \/ SpawnEnd(w) \/ Notify(w)
    <3>1. Counted' = Counted
      BY <1>0, <2>3 DEF Dequeue, Process, Spawn, SpawnEnd, Notify, Blocked, Go
    <3> QED
      BY <1>1, <2>1, <3>1
  <2> QED
    BY <1>5, <2>2, <2>3
<1>6. ASSUME ReceiverPush \/ ReceiverNotify \/ Stop \/ NotifyAll \/ Join \/ UNCHANGED vars
      PROVE  ProcessingExact'
  <2>1. numProcessing' = numProcessing
    BY <1>6 DEF ReceiverPush, ReceiverNotify, Stop, NotifyAll, Join, vars, workerVars
  <2>2. Counted' = Counted
    BY <1>0, <1>6
       DEF ReceiverPush, ReceiverNotify, Stop, NotifyAll, Join, Blocked, Go, vars, workerVars
  <2> QED
    BY <1>1, <2>1, <2>2
<1> QED
  BY <1>2, <1>3, <1>4, <1>5, <1>6, StepKinds DEF Quiet

-----------------------------------------------------------------------------
(* The jobs: what is queued is what was enqueued last, in order.            *)
LEMMA TakenStep == IInv /\ [Next]_vars => Taken'
<1> SUFFICES ASSUME IInv, [Next]_vars PROVE Taken'
  OBVIOUS
<1> USE DEF Taken, TakenOnce, NoJob
<1>0. TypeOK /\ Control /\ Taken
  BY DEF IInv
<1>1. /\ queue \in Seq(Nat \ {0}) /\ created \in Nat /\ job \in [Workers -> Nat]
      /\ Len(queue) \in Nat
  BY <1>0 DEF TypeOK
<1>2. ASSUME Pushes, UNCHANGED job PROVE Taken'
  <2>1. CASE Push
    <3>1. /\ created' = created + 1
          /\ Len(queue') = Len(queue) + 1
          /\ \A i \in 1..Len(queue) : queue'[i] = queue[i]
          /\ queue'[Len(queue) + 1] = created + 1
      BY <1>1, <2>1, AppendProperties DEF Push
    <3>2. \A i \in 1..Len(queue') : queue'[i] = created' - Len(queue') + i
      BY <1>0, <1>1, <3>1
    <3> QED
      BY <1>0, <1>1, <1>2, <3>1, <3>2
  <2>2. CASE UNCHANGED queueVars
    BY <1>0, <1>2, <2>2 DEF queueVars
  <2> QED
    BY <1>2, <2>1, <2>2 DEF Pushes
<1>3. ASSUME UNCHANGED <<queue, created, job>> PROVE Taken'
  BY <1>0, <1>3
<1>4. ASSUME NEW w \in Workers, Finish(w) PROVE Taken'
  BY <1>0, <1>1, <1>4 DEF Finish, queueVars
<1>5. ASSUME NEW w \in Workers, Quiet(w) PROVE Taken'
  <2>1. CASE Finish(w)
    BY <1>4, <2>1
  <2>2. CASE ~Finish(w)
    BY <1>3, <1>5, <2>2
       DEF Quiet, Lock, Test, Count, Decide, Block, SpuriousWakeup, CheckStop, Process, SpawnEnd,
           Notify, queueVars
  <2> QED
    BY <2>1, <2>2
<1>6. ASSUME NEW w \in Workers, Reserve(w) PROVE Taken'
  BY <1>3, <1>6 DEF Reserve
<1>7. ASSUME NEW w \in Workers, Dequeue(w) PROVE Taken'
  <2>1. /\ created' = created
        /\ Len(queue') = Len(queue) - 1
        /\ \A i \in 1..Len(queue') : queue'[i] = queue[i + 1]
        /\ job' = [job EXCEPT ![w] = Head(queue)]
        /\ Len(queue) > 0
    BY <1>1, <1>7, HeadTailProperties DEF Dequeue, DequeuePrecondition
  <2>2. Head(queue) = created - Len(queue) + 1
    <3>1. Head(queue) = queue[1]
      BY <1>1, <2>1
    <3> QED
      BY <1>0, <1>1, <2>1, <3>1
  <2>3. Head(queue) = created' - Len(queue')
    BY <1>0, <1>1, <2>1, <2>2
  <2>4. \A i \in 1..Len(queue') : queue'[i] = created' - Len(queue') + i
    BY <1>0, <1>1, <2>1
  <2>5. \A v \in Workers : v # w => job'[v] = job[v]
    BY <1>1, <2>1
  <2>6. job'[w] = Head(queue)
    BY <1>1, <2>1
  <2>7. \A v \in Workers : job[v] # 0 => job[v] < Head(queue) /\ job[v] <= created' - Len(queue')
    BY <1>0, <1>1, <2>1, <2>2
  <2>8. \A v \in Workers : job'[v] # 0 => job'[v] <= created' - Len(queue')
    BY <1>1, <2>1, <2>3, <2>5, <2>6, <2>7
  <2>9. \A u, v \in Workers : job'[u] = job'[v] /\ job'[u] # 0 => u = v
    <3> SUFFICES ASSUME NEW u \in Workers, NEW v \in Workers,
                        job'[u] = job'[v], job'[u] # 0, u # v
                 PROVE  FALSE
      OBVIOUS
    <3>1. CASE u = w
      BY <1>1, <2>5, <2>6, <2>7, <3>1
    <3>2. CASE v = w
      BY <1>1, <2>5, <2>6, <2>7, <3>2
    <3>3. CASE u # w /\ v # w
      BY <1>0, <2>5, <3>3
    <3> QED
      BY <3>1, <3>2, <3>3
  <2> QED
    BY <1>0, <1>1, <2>1, <2>4, <2>8, <2>9
<1>8. ASSUME NEW w \in Workers, Spawn(w) PROVE Taken'
  BY <1>2, <1>8 DEF Spawn, Pushes
<1>9. ReceiverPush => Taken'
  BY <1>2 DEF ReceiverPush, Pushes, workerVars
<1>10. ReceiverNotify \/ Stop \/ NotifyAll \/ Join \/ UNCHANGED vars => Taken'
  BY <1>3 DEF ReceiverNotify, Stop, NotifyAll, Join, vars, queueVars, workerVars
<1> QED
  BY <1>5, <1>6, <1>7, <1>8, <1>9, <1>10, StepKinds

-----------------------------------------------------------------------------
(* The invariant and what it implies.                                       *)

(* Every reachable state of the pool satisfies the inductive invariant.     *)
THEOREM Invariance == Spec => []IInv
<1>1. IInv /\ [Next]_vars => IInv'
  BY TypeStep, ControlStep, ReservationStep, CountedStep, TakenStep DEF IInv
<1> QED
  BY InitIInv, <1>1, PTL DEF Spec

(* The counters of the pool never go below zero: _num_processing            *)
(* (runtime.cpp:122) and _num_reserved (synchronised_queue.hpp:53) are       *)
(* unsigned in the code.                                                    *)
THEOREM TypeCorrect == Spec => []TypeOK
<1>1. IInv => TypeOK
  BY DEF IInv
<1> QED
  BY Invariance, <1>1, PTL

(* Whatever the number of workers, reservations and jobs in the queue       *)
(* match: two lock acquisitions (runtime.cpp:115-116) do not let two workers *)
(* reserve one job.                                                         *)
THEOREM Reservations == Spec => []ReservationsBacked
<1>1. IInv => ReservationsBacked
  BY DEF IInv
<1> QED
  BY Invariance, <1>1, PTL

(* The preconditions of dequeue (synchronised_queue.hpp:51-52) hold whenever *)
(* a worker calls it.                                                       *)
THEOREM DequeueIsSafe == Spec => []DequeueSafe
<1>1. IInv => DequeueSafe
  <2> SUFFICES ASSUME IInv, NEW w \in Workers, pc[w] = "dequeue" PROVE DequeuePrecondition
    BY DEF DequeueSafe
  <2>1. w \in Holders /\ Holders \in SUBSET Workers
    BY DEF IInv, Control, HoldsWhere, Holders
  <2>2. numReserved > 0
    BY <2>1, Leaves DEF IInv, ReservationsBacked
  <2> QED
    BY <2>2 DEF IInv, ReservationsBacked, TypeOK, DequeuePrecondition
<1> QED
  BY Invariance, <1>1, PTL

(* No job is taken twice or skipped, for any number of workers and jobs.    *)
THEOREM JobsTakenOnce == Spec => []TakenOnce
<1>1. IInv => TakenOnce
  BY DEF IInv, Taken
<1> QED
  BY Invariance, <1>1, PTL

(* _num_processing counts exactly the workers with a job or a reservation.  *)
THEOREM ProcessingIsExact == Spec => []ProcessingExact
<1>1. IInv => ProcessingExact
  BY DEF IInv
<1> QED
  BY Invariance, <1>1, PTL

(* After the destructor has joined the threads, nothing uses the members.   *)
THEOREM JoinIsQuiet == Spec => []JoinedQuiet
<1>1. IInv => JoinedQuiet
  <2> SUFFICES ASSUME IInv, main = "joined"
               PROVE  mutex = NoOne /\ \A w \in Workers : job[w] = NoJob
    BY DEF JoinedQuiet
  <2>1. \A w \in Workers : pc[w] = "done"
    BY DEF IInv, Control, JoinedMeansDone
  <2>2. mutex = NoOne
    BY <2>1 DEF IInv, Control, MutexHeld, TypeOK
  <2> QED
    BY <2>1, <2>2 DEF IInv, Control, JobWhere
<1> QED
  BY Invariance, <1>1, PTL

-----------------------------------------------------------------------------
(* The pool implements JobPool: enqueueing is Submit, dequeueing is Start,  *)
(* the end of the processing is End, and every other step is a stutter.     *)
THEOREM PoolImplementsJobPool == Spec => ImplementsJobPool
<1>1. Init => Pool!JPInit
  BY DEF Init, Pool!JPInit, NoJob
<1>2. IInv /\ [Next]_vars => [Pool!JPNext]_(Pool!jpVars)
  <2> SUFFICES ASSUME IInv, [Next]_vars PROVE [Pool!JPNext]_(Pool!jpVars)
    OBVIOUS
  <2>0. TypeOK /\ Control
    BY DEF IInv
  <2> USE DEF Pool!JPNext, Pool!jpVars
  <2>1. Push /\ UNCHANGED job => Pool!Submit
    BY DEF Push, Pool!Submit
  <2>2. ASSUME NEW w \in Workers, Dequeue(w) PROVE Pool!Start(w)
    <3>1. job[w] = NoJob
      BY <2>0, <2>2 DEF Dequeue, Control, JobWhere
    <3> QED
      BY <2>2, <3>1 DEF Dequeue, DequeuePrecondition, Pool!Start, NoJob
  <2>3. ASSUME NEW w \in Workers, Finish(w) PROVE Pool!End(w)
    BY <2>0, <2>3 DEF Finish, Control, JobWhere, Pool!End, NoJob, queueVars
  <2>4. ASSUME NEW w \in Workers, Spawn(w) PROVE [Pool!JPNext]_(Pool!jpVars)
    BY <2>1, <2>4 DEF Spawn, queueVars
  <2>5. ASSUME NEW w \in Workers, Quiet(w) \/ Reserve(w), ~Finish(w) PROVE UNCHANGED Pool!jpVars
    BY <2>5 DEF Quiet, Lock, Test, Count, Reserve, Decide, Block, SpuriousWakeup, CheckStop,
                Process, SpawnEnd, Notify, queueVars
  <2>6. ReceiverPush => Pool!Submit
    BY <2>1 DEF ReceiverPush, workerVars
  <2>7. ReceiverNotify \/ Stop \/ NotifyAll \/ Join \/ UNCHANGED vars => UNCHANGED Pool!jpVars
    BY DEF ReceiverNotify, Stop, NotifyAll, Join, vars, queueVars, workerVars
  <2> QED
    BY <2>2, <2>3, <2>4, <2>5, <2>6, <2>7, StepKinds
<1> QED
  BY <1>1, <1>2, Invariance, PTL DEF Spec, ImplementsJobPool, Pool!JPSpec
=============================================================================
