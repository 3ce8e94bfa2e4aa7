--------------------------------- MODULE Sender ---------------------------------
(***************************************************************************)
(* RuntimeSender: workers put collision notifications in a queue, one       *)
(* thread publishes them, and the destructor stops that thread.             *)
(*                                                                         *)
(* The thread holds the availability mutex from the predicate of its wait    *)
(* to the end of the publication; neither put nor the destructor takes it,   *)
(* so the mutex orders nothing and is left out: all that matters is that     *)
(* the predicate and the wait are two steps.                                *)
(***************************************************************************)
EXTENDS Naturals, Sequences

CONSTANTS
    Workers,    \* the worker threads, which put notifications
    MaxPuts     \* bound: notifications put in a behaviour

ASSUME MaxPutsAssumption == MaxPuts \in Nat

VARIABLES
    queue,          \* _collision_notifications, by their rank
    numReserved,    \* its _num_reserved
    puts,           \* number of notifications put
    wpc,            \* next statement of each worker: "work" or "notify"
    spc,            \* next statement of the sender thread
    sending,        \* the notification taken from the queue, 0 if none
    sent,           \* the notifications published
    publisher,      \* _publisher: "alive" or "deleted"
    stop,           \* _stop
    dpc             \* next statement of the thread that destroys the sender

queueVars == <<queue, numReserved, puts>>
senderVars == <<spc, sending, sent>>
destructorVars == <<publisher, stop, dpc>>
vars == <<queueVars, wpc, senderVars, destructorVars>>

Init ==
    /\ queue = <<>> /\ numReserved = 0 /\ puts = 0
    /\ wpc = [w \in Workers |-> "work"]
    /\ spc = "test" /\ sending = 0 /\ sent = <<>>
    /\ publisher = "alive" /\ stop = FALSE /\ dpc = "running"

(* test     about to evaluate the predicate, first or after a wakeup        *)
(* block    the predicate was false, the wait set is not joined yet          *)
(* blocked  in the wait set                                                 *)
(* woken    the predicate was true, before _stop is read again               *)
(* reserve, dequeue, publish   one notification                             *)
SenderPC == {"test", "block", "blocked", "woken", "reserve", "dequeue", "publish", "done"}

-----------------------------------------------------------------------------
(* put: the notification is queued, then the thread is notified.  The        *)
(* destructor runs after the workers have been joined.                      *)

\* Mutant: the notification overtakes those in the queue.
PutFront(w) ==
    /\ wpc[w] = "work" /\ dpc = "running"
    /\ puts < MaxPuts
    /\ puts' = puts + 1
    /\ queue' = <<puts + 1>> \o queue
    /\ wpc' = [wpc EXCEPT ![w] = "notify"]
    /\ UNCHANGED <<numReserved, senderVars, destructorVars>>

Put(w) ==
    /\ wpc[w] = "work" /\ dpc = "running"
    /\ puts < MaxPuts
    /\ puts' = puts + 1
    /\ queue' = Append(queue, puts + 1)
    /\ wpc' = [wpc EXCEPT ![w] = "notify"]
    /\ UNCHANGED <<numReserved, senderVars, destructorVars>>

Wake == spc' = IF spc = "blocked" THEN "test" ELSE spc

\* Mutant: the thread is not notified.
PutSilently(w) ==
    /\ wpc[w] = "notify"
    /\ wpc' = [wpc EXCEPT ![w] = "work"]
    /\ UNCHANGED <<queueVars, senderVars, destructorVars>>

PutNotify(w) ==
    /\ wpc[w] = "notify"
    /\ Wake
    /\ wpc' = [wpc EXCEPT ![w] = "work"]
    /\ UNCHANGED <<queueVars, sending, sent, destructorVars>>

-----------------------------------------------------------------------------
(* The sender thread.                                                       *)

Test ==
    /\ spc = "test"
    /\ spc' = IF stop \/ Len(queue) > 0 THEN "woken" ELSE "block"
    /\ UNCHANGED <<queueVars, wpc, sending, sent, destructorVars>>

Block ==
    /\ spc = "block"
    /\ spc' = "blocked"
    /\ UNCHANGED <<queueVars, wpc, sending, sent, destructorVars>>

SpuriousWakeup ==
    /\ spc = "blocked"
    /\ spc' = "test"
    /\ UNCHANGED <<queueVars, wpc, sending, sent, destructorVars>>

CheckStop ==
    /\ spc = "woken"
    /\ spc' = IF stop THEN "done" ELSE "reserve"
    /\ UNCHANGED <<queueVars, wpc, sending, sent, destructorVars>>

Reserve ==
    /\ spc = "reserve"
    /\ numReserved' = numReserved + 1
    /\ spc' = "dequeue"
    /\ UNCHANGED <<queue, puts, wpc, sending, sent, destructorVars>>

DequeuePrecondition == Len(queue) > 0 /\ numReserved > 0

Dequeue ==
    /\ spc = "dequeue"
    /\ DequeuePrecondition
    /\ sending' = Head(queue)
    /\ queue' = Tail(queue)
    /\ numReserved' = numReserved - 1
    /\ spc' = "publish"
    /\ UNCHANGED <<puts, wpc, sent, destructorVars>>

\* Mutant: the notification is cleared before it is published.
PublishCleared ==
    /\ spc = "publish"
    /\ sending' = 0
    /\ sent' = Append(sent, sending')
    /\ spc' = "test"
    /\ UNCHANGED <<queueVars, wpc, destructorVars>>

Publish ==
    /\ spc = "publish"
    /\ sent' = Append(sent, sending)
    /\ sending' = 0
    /\ spc' = "test"
    /\ UNCHANGED <<queueVars, wpc, destructorVars>>

-----------------------------------------------------------------------------
(* The destructor; the thread, a member, is joined after its body.          *)

Stop ==
    /\ dpc = "running" /\ \A w \in Workers : wpc[w] = "work"
    /\ stop' = TRUE
    /\ dpc' = "notify"
    /\ UNCHANGED <<queueVars, wpc, senderVars, publisher>>

StopNotify ==
    /\ dpc = "notify"
    /\ Wake
    /\ dpc' = "delete"
    /\ UNCHANGED <<queueVars, wpc, sending, sent, publisher, stop>>

DeletePublisher ==
    /\ dpc = "delete"
    /\ publisher' = "deleted"
    /\ dpc' = "join"
    /\ UNCHANGED <<queueVars, wpc, senderVars, stop>>

Join ==
    /\ dpc = "join" /\ spc = "done"
    /\ dpc' = "joined"
    /\ UNCHANGED <<queueVars, wpc, senderVars, publisher, stop>>

-----------------------------------------------------------------------------
SenderStep == Test \/ Block \/ CheckStop \/ Reserve \/ Dequeue \/ Publish

Next ==
    \/ \E w \in Workers : Put(w) \/ PutNotify(w)
    \/ SenderStep \/ SpuriousWakeup
    \/ Stop \/ StopNotify \/ DeletePublisher \/ Join

Spec == Init /\ [][Next]_vars

(* Threads that can run do; neither puts, nor the destruction, nor spurious *)
(* wakeups are due to anybody.                                              *)
Fairness ==
    /\ \A w \in Workers : WF_vars(PutNotify(w))
    /\ WF_vars(SenderStep)
    /\ WF_vars(StopNotify) /\ WF_vars(DeletePublisher) /\ WF_vars(Join)

FairSpec == Spec /\ Fairness

-----------------------------------------------------------------------------
(* Every variable stays in its domain.                                      *)
TypeOK ==
    /\ queue \in Seq(Nat \ {0}) /\ sent \in Seq(Nat \ {0})
    /\ numReserved \in Nat /\ puts \in Nat /\ sending \in Nat
    /\ wpc \in [Workers -> {"work", "notify"}]
    /\ spc \in SenderPC
    /\ publisher \in {"alive", "deleted"} /\ stop \in BOOLEAN
    /\ dpc \in {"running", "notify", "delete", "join", "joined"}

(* The thread is the only consumer, so that what the predicate saw is still *)
(* there: the preconditions of dequeue hold (synchronised_queue.hpp:51-52).  *)
DequeueSafe == spc = "dequeue" => DequeuePrecondition

\* The notifications put, in their order.
Accepted == [k \in 1..puts |-> k]

Channel == INSTANCE NotificationChannel WITH accepted <- Accepted, published <- sent

(* The notifications published are the first ones put, each once, in order, *)
(* wherever the thread is and whatever notifications of the condition are    *)
(* lost.                                                                    *)
Taken == Len(sent) + IF sending = 0 THEN 0 ELSE 1

InOrder ==
    /\ \A i \in 1..Len(sent) : sent[i] = i
    /\ sending # 0 => sending = Taken
    /\ \A i \in 1..Len(queue) : queue[i] = Taken + i
    /\ Taken + Len(queue) = puts

(* The sender implements the channel: which notifications have been put and  *)
(* which of them published, in which order (runtime_io.cpp:212-220).        *)
ImplementsChannel == Channel!NCSpec

(* A put that finds the thread blocked has it publish all that is queued:   *)
(* without a destruction, the thread does not stay blocked over a queue once *)
(* a worker is about to notify.                                             *)
NotifiedIsSent ==
    \A w \in Workers, k \in 1..MaxPuts :
        (wpc[w] = "notify" /\ spc = "blocked" /\ puts = k) ~> (Len(sent) >= k \/ stop)
==============================================================================
