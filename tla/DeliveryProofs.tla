----------------------------- MODULE DeliveryProofs -----------------------------
(***************************************************************************)
(* Proofs about the delivery of messages: the sender of notifications, for   *)
(* any set of workers and any number of notifications, and the memory broker, *)
(* for any subscribers and any number of messages.                          *)
(*                                                                         *)
(* Sender: DequeueSafe is not inductive.  The thread must remember, from the *)
(* predicate of its wait to the dequeueing, that the queue is not empty and  *)
(* how many reservations it has made.  This is Control.                      *)
(***************************************************************************)
EXTENDS Sender, MemoryBroker, SequenceTheorems, TLAPS

-----------------------------------------------------------------------------
(* The sender.                                                              *)

Control ==
    /\ spc \in {"reserve", "dequeue"} => queue # <<>>
    /\ spc = "woken" /\ queue = <<>> => stop
    /\ numReserved = IF spc = "dequeue" THEN 1 ELSE 0
    /\ sending # 0 <=> spc = "publish"

IInv == TypeOK /\ Control /\ InOrder

LEMMA InitIInv == Init => IInv
<1> SUFFICES ASSUME Init PROVE IInv
  OBVIOUS
<1>1. <<>> \in Seq(Nat \ {0})
  BY EmptySeq
<1>2. TypeOK /\ Control
  BY <1>1 DEF Init, TypeOK, Control, SenderPC
<1>3. InOrder
  BY DEF Init, InOrder, Taken
<1> QED
  BY <1>2, <1>3 DEF IInv

(* A put appends the next rank.                                             *)
LEMMA PutStep ==
    ASSUME IInv, NEW w \in Workers, Put(w)
    PROVE  IInv'
<1>1. /\ queue \in Seq(Nat \ {0}) /\ puts \in Nat /\ puts + 1 \in Nat \ {0}
      /\ puts' = puts + 1 /\ queue' = Append(queue, puts + 1)
  BY DEF IInv, TypeOK, Put
<1>2. /\ queue' \in Seq(Nat \ {0}) /\ queue' # <<>> /\ Len(queue') = Len(queue) + 1
      /\ \A i \in 1..Len(queue) : queue'[i] = queue[i]
      /\ queue'[Len(queue) + 1] = puts + 1
  BY <1>1, AppendProperties
<1>3. TypeOK' /\ Control'
  BY <1>1, <1>2 DEF IInv, TypeOK, Control, Put, senderVars, destructorVars
<1>4. Taken \in Nat /\ Taken' = Taken /\ Len(queue) \in Nat
  BY <1>1 DEF IInv, TypeOK, Taken, Put, senderVars
<1>5. \A i \in 1..Len(queue') : queue'[i] = Taken' + i
  BY <1>1, <1>2, <1>4 DEF IInv, InOrder
<1>6. InOrder'
  BY <1>1, <1>2, <1>4, <1>5 DEF IInv, InOrder, Put, senderVars
<1> QED
  BY <1>3, <1>6 DEF IInv

(* Dequeueing takes the notification that follows those taken before.       *)
LEMMA DequeueStep ==
    ASSUME IInv, Dequeue
    PROVE  IInv'
<1>1. /\ queue \in Seq(Nat \ {0}) /\ queue # <<>> /\ sending = 0
      /\ sending' = Head(queue) /\ queue' = Tail(queue) /\ sent' = sent /\ puts' = puts
  BY DEF IInv, TypeOK, Control, Dequeue, DequeuePrecondition
<1>2. /\ Head(queue) \in Nat \ {0} /\ queue' \in Seq(Nat \ {0}) /\ Len(queue') = Len(queue) - 1
      /\ \A i \in 1..Len(queue') : queue'[i] = queue[i + 1]
      /\ Head(queue) = queue[1] /\ Len(queue) \in Nat /\ Len(queue) > 0
  BY <1>1, HeadTailProperties
<1>3. TypeOK'
  BY <1>1, <1>2 DEF IInv, TypeOK, Control, Dequeue, SenderPC, destructorVars
<1>4. Control'
  BY <1>1, <1>2 DEF IInv, Control, Dequeue, destructorVars
<1>5. Taken = Len(sent) /\ Taken' = Len(sent) + 1 /\ Len(sent) \in Nat
  BY <1>1, <1>2 DEF Taken, IInv, TypeOK
<1>6. \A i \in 1..Len(queue') : queue'[i] = Taken' + i
  BY <1>2, <1>5 DEF IInv, InOrder
<1>7. InOrder'
  BY <1>1, <1>2, <1>5, <1>6 DEF IInv, InOrder
<1> QED
  BY <1>3, <1>4, <1>7 DEF IInv

(* Publishing appends the notification taken to those published.            *)
LEMMA PublishStep ==
    ASSUME IInv, Publish
    PROVE  IInv'
<1>1. /\ sent \in Seq(Nat \ {0}) /\ sending \in Nat \ {0} /\ queue' = queue /\ puts' = puts
      /\ sent' = Append(sent, sending) /\ sending' = 0
  BY DEF IInv, TypeOK, Control, Publish, queueVars
<1>2. /\ sent' \in Seq(Nat \ {0}) /\ Len(sent') = Len(sent) + 1 /\ Len(sent) \in Nat
      /\ \A i \in 1..Len(sent) : sent'[i] = sent[i]
      /\ sent'[Len(sent) + 1] = sending
  BY <1>1, AppendProperties
<1>3. TypeOK' /\ Control'
  BY <1>1, <1>2 DEF IInv, TypeOK, Control, Publish, SenderPC, queueVars, destructorVars
<1>4. Taken' = Taken /\ sending = Len(sent) + 1
  BY <1>1, <1>2 DEF Taken, IInv, InOrder
<1>5. \A i \in 1..Len(sent') : sent'[i] = i
  BY <1>1, <1>2, <1>4 DEF IInv, InOrder
<1>6. InOrder'
  BY <1>1, <1>4, <1>5 DEF IInv, InOrder
<1> QED
  BY <1>3, <1>6 DEF IInv

(* The other steps leave the notifications where they are.                  *)
LEMMA OtherStep ==
    ASSUME IInv,
           \/ \E w \in Workers : PutNotify(w)
           \/ Test \/ Block \/ CheckStop \/ Reserve \/ SpuriousWakeup
           \/ Stop \/ StopNotify \/ DeletePublisher \/ Join \/ UNCHANGED vars
    PROVE  IInv'
<1>1. UNCHANGED <<queue, puts, sending, sent>>
  BY DEF PutNotify, Test, Block, CheckStop, Reserve, SpuriousWakeup, Stop, StopNotify,
         DeletePublisher, Join, vars, queueVars, senderVars
<1>2. TypeOK'
  <2> USE <1>1 DEF IInv, TypeOK, SenderPC
  <2>1. ASSUME NEW w \in Workers, PutNotify(w) PROVE TypeOK'
    <3>1. wpc' \in [Workers -> {"work", "notify"}] /\ numReserved' = numReserved
      BY <2>1 DEF PutNotify, queueVars
    <3>2. spc' \in SenderPC
      BY <2>1 DEF PutNotify, Wake
    <3> QED
      BY <2>1, <3>1, <3>2 DEF PutNotify, destructorVars
  <2>2. ASSUME Test \/ Block \/ CheckStop \/ SpuriousWakeup PROVE TypeOK'
    BY <2>2 DEF Test, Block, CheckStop, SpuriousWakeup, queueVars, destructorVars
  <2>3. ASSUME Reserve PROVE TypeOK'
    BY <2>3 DEF Reserve, destructorVars
  <2>4. ASSUME StopNotify PROVE TypeOK'
    BY <2>4 DEF StopNotify, Wake, queueVars
  <2>5. ASSUME Stop \/ DeletePublisher \/ Join \/ UNCHANGED vars PROVE TypeOK'
    BY <2>5 DEF Stop, DeletePublisher, Join, vars, queueVars, senderVars, destructorVars
  <2> QED
    BY <2>1, <2>2, <2>3, <2>4, <2>5
<1>3. Len(queue) > 0 <=> queue # <<>>
  BY DEF IInv, TypeOK
<1>4. Control'
  BY <1>1, <1>3 DEF IInv, TypeOK, Control, PutNotify, Wake, Test, Block, CheckStop, Reserve,
                    SpuriousWakeup, Stop, StopNotify, DeletePublisher, Join, vars, queueVars,
                    senderVars, destructorVars
<1>5. InOrder'
  BY <1>1 DEF IInv, InOrder, Taken
<1> QED
  BY <1>2, <1>4, <1>5 DEF IInv

-----------------------------------------------------------------------------
(* Every reachable state satisfies the inductive invariant.                 *)
THEOREM Invariance == Spec => []IInv
<1>1. IInv /\ [Next]_vars => IInv'
  BY PutStep, DequeueStep, PublishStep, OtherStep DEF Next, SenderStep
<1> QED
  BY InitIInv, <1>1, PTL DEF Spec

(* Every reachable state of the sender is well typed: in particular the      *)
(* thread's reservation, the publisher and the number being sent keep their   *)
(* ranges whatever the order of put, wait and stop (runtime_io.hpp:117-123,  *)
(* runtime_io.cpp:209-231).                                                 *)
THEOREM TypeCorrect == Spec => []TypeOK
<1>1. IInv => TypeOK
  BY DEF IInv
<1> QED
  BY Invariance, <1>1, PTL

(* The preconditions of dequeue (synchronised_queue.hpp:51-52) hold when    *)
(* the thread calls it, although it reserves outside of the predicate.      *)
THEOREM DequeueIsSafe == Spec => []DequeueSafe
<1>1. IInv => DequeueSafe
  BY DEF IInv, TypeOK, Control, DequeueSafe, DequeuePrecondition
<1> QED
  BY Invariance, <1>1, PTL

(* Notifications are published in the order in which they were put, each    *)
(* once.                                                                    *)
THEOREM SentInOrder == Spec => []InOrder
<1>1. IInv => InOrder
  BY DEF IInv
<1> QED
  BY Invariance, <1>1, PTL

(* A put appends the next notification to those accepted.                   *)
LEMMA AcceptedGrows ==
  ASSUME puts \in Nat, puts' = puts + 1
  PROVE  Accepted' = Append(Accepted, Len(Accepted) + 1)
<1>1. Accepted \in Seq(Nat) /\ Len(Accepted) = puts
  BY DEF Accepted
<1>2. Append(Accepted, puts + 1) = [k \in 1..puts + 1 |-> IF k = puts + 1 THEN puts + 1 ELSE Accepted[k]]
  BY <1>1
<1> QED
  BY <1>1, <1>2 DEF Accepted

(* The sender implements the channel: put is Accept, the publication is     *)
(* Publish of the oldest notification not yet published, and every other    *)
(* step is a stutter.                                                       *)
THEOREM SenderImplementsChannel == Spec => ImplementsChannel
<1>1. Init => Channel!NCInit
  BY DEF Init, Channel!NCInit, Accepted
<1>2. IInv /\ [Next]_vars => [Channel!Accept \/ Channel!Publish]_(Channel!ncVars)
  <2> SUFFICES ASSUME IInv, [Next]_vars
               PROVE  [Channel!Accept \/ Channel!Publish]_(Channel!ncVars)
    OBVIOUS
  <2> USE DEF Channel!ncVars
  <2>1. ASSUME NEW w \in Workers, Put(w) PROVE Channel!Accept
    <3>1. puts \in Nat /\ puts' = puts + 1 /\ sent' = sent
      BY <2>1 DEF IInv, TypeOK, Put, senderVars
    <3>2. Accepted' = Append(Accepted, Len(Accepted) + 1)
      BY <3>1, AcceptedGrows
    <3> QED
      BY <3>1, <3>2 DEF Channel!Accept
  <2>2. ASSUME Publish PROVE Channel!Publish
    <3>1. sending # 0 /\ sent \in Seq(Nat \ {0}) /\ sending \in Nat \ {0}
          /\ queue \in Seq(Nat \ {0}) /\ puts \in Nat
      BY <2>2 DEF IInv, TypeOK, Control, Publish
    <3>2. sending = Len(sent) + 1 /\ Len(sent) + 1 \in 1..puts
      BY <3>1 DEF IInv, InOrder, Taken
    <3>3. Len(Accepted) = puts /\ Accepted[Len(sent) + 1] = sending
      BY <3>1, <3>2 DEF Accepted
    <3>4. Len(sent) < Len(Accepted)
      BY <3>1, <3>2, <3>3
    <3>5. sent' = Append(sent, Accepted[Len(sent) + 1])
      BY <2>2, <3>3 DEF Publish
    <3>6. UNCHANGED Accepted
      BY <2>2 DEF Publish, queueVars, Accepted
    <3> QED
      BY <3>4, <3>5, <3>6 DEF Channel!Publish
  <2>3. ASSUME Dequeue PROVE UNCHANGED Channel!ncVars
    BY <2>3 DEF Dequeue, Accepted
  <2>4. ASSUME \/ \E w \in Workers : PutNotify(w)
               \/ Test \/ Block \/ CheckStop \/ Reserve \/ SpuriousWakeup
               \/ Stop \/ StopNotify \/ DeletePublisher \/ Join \/ UNCHANGED vars
        PROVE  UNCHANGED Channel!ncVars
    BY <2>4 DEF PutNotify, Test, Block, CheckStop, Reserve, SpuriousWakeup, Stop, StopNotify,
                DeletePublisher, Join, vars, queueVars, senderVars, Accepted
  <2> QED
    BY <2>1, <2>2, <2>3, <2>4 DEF Next, SenderStep
<1> QED
  BY <1>1, <1>2, Invariance, PTL DEF Spec, ImplementsChannel, Channel!NCSpec
-----------------------------------------------------------------------------
(* The memory broker.                                                       *)

(* The element at which the index of s stands has been called back already. *)
Passed(s) == IF pc[s] = "increment" THEN 1 ELSE 0

(* What holds whether or not the broker is cleared: the list increases, and  *)
(* what a subscriber has still to read is later than all it has received.    *)
(* A clear preserves it because what is put afterwards is new to everybody.  *)
ContentIncreases ==
    /\ \A i \in 1..Len(content) : content[i] <= stored
    /\ \A i, j \in 1..Len(content) : i < j => content[i] < content[j]

AheadOf(s) ==
    \A r \in 1..Len(received[s]) :
        /\ received[s][r] <= stored
        /\ \A i \in 1..Len(content) : i > nextIndex[s] + Passed(s) => received[s][r] < content[i]

OInv == MemoryTypeOK /\ ContentIncreases /\ NeverBackwards /\ \A s \in Subscribers : AheadOf(s)

LEMMA InitOInv == MemoryInit => OInv
<1> SUFFICES ASSUME MemoryInit PROVE OInv
  OBVIOUS
<1>1. <<>> \in Seq(Nat \ {0})
  BY EmptySeq
<1>2. MemoryTypeOK
  BY <1>1 DEF MemoryInit, MemoryTypeOK, SubscriberPC
<1>3. ContentIncreases /\ NeverBackwards /\ \A s \in Subscribers : AheadOf(s)
  BY DEF MemoryInit, ContentIncreases, NeverBackwards, AheadOf
<1> QED
  BY <1>2, <1>3 DEF OInv

LEMMA MemoryPutStep == ASSUME OInv, MemoryPut PROVE OInv'
<1>1. /\ content \in Seq(Nat \ {0}) /\ stored \in Nat /\ stored + 1 \in Nat \ {0} /\ Len(content) \in Nat
      /\ content' = Append(content, stored + 1) /\ stored' = stored + 1
  BY DEF OInv, MemoryTypeOK, MemoryPut
<1>2. /\ content' \in Seq(Nat \ {0}) /\ Len(content') = Len(content) + 1
      /\ \A i \in 1..Len(content) : content'[i] = content[i]
      /\ content'[Len(content) + 1] = stored + 1
  BY <1>1, AppendProperties
<1>3. \A i \in 1..Len(content) : content[i] \in Nat
  BY <1>1, ElementOfSeq
<1>4. MemoryTypeOK' /\ NeverBackwards'
  BY <1>1, <1>2 DEF OInv, MemoryTypeOK, NeverBackwards, MemoryPut, subscriberVars
<1>5. ContentIncreases'
  <2>1. ContentIncreases
    BY DEF OInv
  <2>2. \A i \in 1..Len(content') : i \in 1..Len(content) \/ i = Len(content) + 1
    BY <1>1, <1>2
  <2>3. \A i \in 1..Len(content) : content[i] <= stored /\ content[i] < stored + 1
    BY <1>1, <1>3, <2>1 DEF ContentIncreases
  <2>4. \A i \in 1..Len(content') : content'[i] <= stored'
    BY <1>1, <1>2, <2>2, <2>3
  <2>5. ASSUME NEW i \in 1..Len(content'), NEW j \in 1..Len(content'), i < j
        PROVE  content'[i] < content'[j]
    <3>1. i \in 1..Len(content)
      BY <1>1, <1>2, <2>5
    <3>2. CASE j \in 1..Len(content)
      <4>1. content[i] < content[j]
        BY <2>1, <2>5, <3>1, <3>2 DEF ContentIncreases
      <4> QED
        BY <1>2, <3>1, <3>2, <4>1
    <3>3. CASE j = Len(content) + 1
      <4>1. content'[j] = stored + 1 /\ content'[i] = content[i] /\ content[i] < stored + 1
        BY <1>2, <2>3, <3>1, <3>3
      <4> QED
        BY <4>1
    <3> QED
      BY <2>2, <3>2, <3>3
  <2> QED
    BY <2>4, <2>5 DEF ContentIncreases
<1>6. ASSUME NEW s \in Subscribers PROVE AheadOf(s)'
  <2>1. received' = received /\ nextIndex' = nextIndex /\ pc' = pc
    BY DEF MemoryPut, subscriberVars
  <2>2. received[s] \in Seq(Nat \ {0}) /\ AheadOf(s)
    BY DEF OInv, MemoryTypeOK
  <2>3. \A r \in 1..Len(received[s]) : received[s][r] \in Nat
    BY <2>2, ElementOfSeq
  <2>4. nextIndex[s] \in Nat /\ Passed(s) \in Nat /\ Passed(s)' = Passed(s)
    BY <2>1 DEF OInv, MemoryTypeOK, Passed
  <2>5. ASSUME NEW r \in 1..Len(received[s]) PROVE received[s][r] <= stored'
    BY <1>1, <2>2, <2>3 DEF AheadOf
  <2>6. ASSUME NEW r \in 1..Len(received[s]), NEW i \in 1..Len(content'),
               i > nextIndex[s] + Passed(s)
        PROVE  received[s][r] < content'[i]
    <3>1. received[s][r] <= stored
      BY <2>2 DEF AheadOf
    <3>2. CASE i = Len(content) + 1
      BY <1>1, <1>2, <2>3, <3>1, <3>2
    <3>3. CASE i # Len(content) + 1
      <4>1. i \in 1..Len(content)
        BY <1>1, <1>2, <3>3
      <4>2. received[s][r] < content[i]
        BY <2>2, <2>6, <4>1 DEF AheadOf
      <4> QED
        BY <1>2, <4>1, <4>2
    <3> QED
      BY <3>2, <3>3
  <2> QED
    BY <2>1, <2>4, <2>5, <2>6 DEF AheadOf
<1> QED
  BY <1>4, <1>5, <1>6 DEF OInv

LEMMA ClearStep == ASSUME OInv, Clear PROVE OInv'
<1>1. content' = <<>> /\ content' \in Seq(Nat \ {0}) /\ Len(content') = 0
  BY EmptySeq DEF Clear
<1>2. MemoryTypeOK' /\ NeverBackwards' /\ ContentIncreases'
  BY <1>1 DEF OInv, MemoryTypeOK, NeverBackwards, ContentIncreases, Clear, subscriberVars
<1>3. \A s \in Subscribers : AheadOf(s)'
  BY <1>1 DEF OInv, AheadOf, Clear, subscriberVars
<1> QED
  BY <1>2, <1>3 DEF OInv

(* The callback: the element is later than all those received, and earlier  *)
(* than all those that follow it in the list.                               *)
LEMMA GetStep == ASSUME OInv, NEW s \in Subscribers, Get(s) PROVE OInv'
<1> DEFINE new == content[nextIndex[s] + 1]
<1>1. /\ nextIndex[s] \in Nat /\ Len(content) \in Nat /\ nextIndex[s] + 1 \in 1..Len(content)
      /\ content \in Seq(Nat \ {0}) /\ received[s] \in Seq(Nat \ {0}) /\ pc[s] = "get"
  BY DEF OInv, MemoryTypeOK, Get, Go
<1>2. new \in Nat \ {0} /\ new <= stored /\ stored \in Nat
  BY <1>1, ElementOfSeq DEF OInv, MemoryTypeOK, ContentIncreases
<1>3. /\ received'[s] = Append(received[s], new) /\ pc'[s] = "increment"
      /\ \A u \in Subscribers \ {s} : received'[u] = received[u] /\ pc'[u] = pc[u]
      /\ content' = content /\ stored' = stored /\ nextIndex' = nextIndex
  BY DEF OInv, MemoryTypeOK, Get, Go
<1> HIDE DEF new
<1>4. /\ received'[s] \in Seq(Nat \ {0}) /\ Len(received'[s]) = Len(received[s]) + 1
      /\ \A r \in 1..Len(received[s]) : received'[s][r] = received[s][r]
      /\ received'[s][Len(received[s]) + 1] = new
      /\ Len(received[s]) \in Nat
  BY <1>1, <1>2, <1>3, AppendProperties
<1>5. \A r \in 1..Len(received[s]) : received[s][r] \in Nat /\ received[s][r] < new
  <2> SUFFICES ASSUME NEW r \in 1..Len(received[s])
               PROVE  received[s][r] \in Nat /\ received[s][r] < new
    OBVIOUS
  <2>1. received[s][r] \in Nat
    BY <1>1, ElementOfSeq
  <2>2. Passed(s) = 0 /\ AheadOf(s)
    BY <1>1 DEF OInv, Passed
  <2>3. nextIndex[s] + 1 > nextIndex[s] + Passed(s)
    BY <1>1, <2>2
  <2> QED
    BY <1>1, <2>1, <2>2, <2>3 DEF AheadOf, new
<1>6. MemoryTypeOK'
  BY <1>3, <1>4 DEF OInv, MemoryTypeOK, Get, Go, SubscriberPC
<1>7. NeverBackwards'
  <2> SUFFICES ASSUME NEW u \in Subscribers, NEW i \in 1..Len(received'[u]),
                      NEW j \in 1..Len(received'[u]), i < j
               PROVE  received'[u][i] < received'[u][j]
    BY DEF NeverBackwards
  <2>1. CASE u # s
    BY <1>3, <2>1 DEF OInv, NeverBackwards
  <2>2. CASE u = s /\ j \in 1..Len(received[s])
    <3>1. i \in 1..Len(received[s])
      BY <1>4, <2>2
    <3> QED
      BY <1>4, <2>2, <3>1 DEF OInv, NeverBackwards
  <2>3. CASE u = s /\ j = Len(received[s]) + 1
    <3>1. i \in 1..Len(received[s])
      BY <1>4, <2>3
    <3> QED
      BY <1>4, <1>5, <2>3, <3>1
  <2> QED
    BY <1>4, <2>1, <2>2, <2>3
<1>8. ASSUME NEW u \in Subscribers PROVE AheadOf(u)'
  <2>1. CASE u # s
    BY <1>3, <2>1 DEF OInv, AheadOf, Passed
  <2>2. CASE u = s
    <3>1. Passed(s)' = 1
      BY <1>3 DEF Passed
    <3>2. \A i \in 1..Len(content) : i > nextIndex[s] + 1 => new < content[i]
      BY <1>1 DEF OInv, ContentIncreases, new
    <3>3. ASSUME NEW r \in 1..Len(received[s]), NEW i \in 1..Len(content), i > nextIndex[s] + 1
          PROVE  received[s][r] < content[i]
      <4>1. Passed(s) = 0 /\ AheadOf(s)
        BY <1>1 DEF OInv, Passed
      <4>2. i > nextIndex[s] + Passed(s)
        BY <1>1, <3>3, <4>1
      <4> QED
        BY <4>1, <4>2 DEF AheadOf
    <3>4. \A r \in 1..Len(received'[s]) :
              r \in 1..Len(received[s]) \/ r = Len(received[s]) + 1
      BY <1>4
    <3>5. \A r \in 1..Len(received[s]) : received[s][r] <= stored
      BY DEF OInv, AheadOf
    <3>6. ASSUME NEW r \in 1..Len(received'[s])
          PROVE  /\ received'[s][r] <= stored
                 /\ \A i \in 1..Len(content) : i > nextIndex[s] + 1 => received'[s][r] < content[i]
      <4>1. CASE r \in 1..Len(received[s])
        BY <1>4, <3>3, <3>5, <4>1
      <4>2. CASE r = Len(received[s]) + 1
        BY <1>2, <1>4, <3>2, <4>2
      <4> QED
        BY <3>4, <4>1, <4>2
    <3> QED
      BY <1>3, <2>2, <3>1, <3>6 DEF AheadOf
  <2> QED
    BY <2>1, <2>2
<1>9. ContentIncreases'
  BY <1>3 DEF OInv, ContentIncreases
<1> QED
  BY <1>6, <1>7, <1>8, <1>9 DEF OInv

(* The other steps of a subscriber; the index never goes back.              *)
LEMMA SubscriberStep ==
    ASSUME OInv, NEW s \in Subscribers,
           \/ Construct(s) \/ Start(s) \/ Wait(s) \/ Size(s) \/ GetThrows(s)
           \/ Increment(s) \/ Destroy(s) \/ MemoryJoin(s)
    PROVE  OInv'
<1>1. content' = content /\ stored' = stored /\ cleared' = cleared /\ received' = received
  BY DEF Construct, Start, Wait, Size, GetThrows, Increment, Destroy, MemoryJoin
<1>2. MemoryTypeOK'
  <2> USE <1>1 DEF OInv, MemoryTypeOK, SubscriberPC, Go
  <2>1. Len(content) \in Nat
    OBVIOUS
  <2>2. CASE Construct(s)
    <3>1. /\ nextIndex' = [nextIndex EXCEPT ![s] = Len(content)] /\ since' = [since EXCEPT ![s] = stored]
          /\ pc' = [pc EXCEPT ![s] = "start"] /\ exit' = exit
      BY <2>2 DEF Construct
    <3> QED
      BY <2>1, <3>1
  <2>3. CASE Start(s) \/ Wait(s) \/ Size(s) \/ GetThrows(s)
    <3>1. PICK x \in SubscriberPC : pc' = [pc EXCEPT ![s] = x]
      BY <2>3 DEF Start, Wait, Size, GetThrows
    <3>2. UNCHANGED <<nextIndex, exit, since>>
      BY <2>3 DEF Start, Wait, Size, GetThrows
    <3> QED
      BY <3>1, <3>2
  <2>4. CASE Increment(s)
    BY <2>4 DEF Increment
  <2>5. CASE Destroy(s) \/ MemoryJoin(s)
    BY <2>5 DEF Destroy, MemoryJoin
  <2> QED
    BY <2>2, <2>3, <2>4, <2>5
<1>3. ContentIncreases' /\ NeverBackwards'
  BY <1>1 DEF OInv, ContentIncreases, NeverBackwards
<1>4. \A u \in Subscribers : nextIndex[u] + Passed(u) <= nextIndex'[u] + Passed(u)' \/ nextIndex'[u] >= Len(content)
  <2> USE DEF OInv, MemoryTypeOK, SubscriberPC, Go, Passed
  <2>1. Len(content) \in Nat
    OBVIOUS
  <2>2. CASE Construct(s)
    BY <2>1, <2>2 DEF Construct
  <2>3. CASE Start(s) \/ Wait(s) \/ Size(s) \/ GetThrows(s) \/ Destroy(s) \/ MemoryJoin(s)
    BY <2>3 DEF Start, Wait, Size, GetThrows, Destroy, MemoryJoin
  <2>4. CASE Increment(s)
    BY <2>4 DEF Increment
  <2> QED
    BY <2>2, <2>3, <2>4
<1>5. ASSUME NEW u \in Subscribers PROVE AheadOf(u)'
  <2>1. /\ nextIndex[u] \in Nat /\ nextIndex'[u] \in Nat /\ Len(content) \in Nat
        /\ Passed(u) \in Nat /\ Passed(u)' \in Nat
    BY <1>2 DEF OInv, MemoryTypeOK, Passed
  <2>2. \A i \in 1..Len(content) :
            i > nextIndex'[u] + Passed(u)' => i > nextIndex[u] + Passed(u)
    <3> SUFFICES ASSUME NEW i \in 1..Len(content), i > nextIndex'[u] + Passed(u)'
                 PROVE  i > nextIndex[u] + Passed(u)
      OBVIOUS
    <3>1. \/ nextIndex[u] + Passed(u) <= nextIndex'[u] + Passed(u)'
          \/ nextIndex'[u] >= Len(content)
      BY <1>4
    <3> QED
      BY <2>1, <3>1
  <2> QED
    BY <1>1, <2>2 DEF OInv, AheadOf
<1> QED
  BY <1>2, <1>3, <1>5 DEF OInv

(* The invariant holds with and without clears.                             *)
THEOREM MemoryInvariance == MemorySpec => []OInv
<1>1. ASSUME OInv, [MemoryNext]_memoryVars PROVE OInv'
  <2>1. CASE UNCHANGED memoryVars
    BY <1>1, <2>1 DEF memoryVars, subscriberVars, OInv, MemoryTypeOK, ContentIncreases, NeverBackwards,
                      AheadOf, Passed
  <2>2. CASE MemoryNext
    BY <1>1, <2>2, MemoryPutStep, ClearStep, GetStep, SubscriberStep DEF MemoryNext, Poll
  <2> QED
    BY <1>1, <2>1, <2>2
<1> QED
  BY InitOInv, <1>1, PTL DEF MemorySpec

(* Every reachable state of the broker is well typed: indices and sizes are   *)
(* numbers, whatever puts, clears and constructions of subscribers interleave *)
(* (memory.hpp:41-133, memory.cpp:33).                                      *)
THEOREM MemoryTypeCorrect == MemorySpec => []MemoryTypeOK
<1>1. OInv => MemoryTypeOK
  BY DEF OInv
<1> QED
  BY MemoryInvariance, <1>1, PTL

(* Even under clears, no subscriber gets a message twice or out of order.    *)
THEOREM NeverBackwardsHolds == MemorySpec => []NeverBackwards
<1>1. OInv => NeverBackwards
  BY DEF OInv
<1> QED
  BY MemoryInvariance, <1>1, PTL

-----------------------------------------------------------------------------
(* Without clears the list is all that was put, and the index of a           *)
(* subscriber counts what it has received since its construction.           *)
ContentIsPuts == Len(content) = stored /\ \A i \in 1..Len(content) : content[i] = i

Counted(s) ==
    /\ since[s] + Len(received[s]) = nextIndex[s] + Passed(s)
    /\ nextIndex[s] + Passed(s) <= Len(content)
    /\ pc[s] = "none" => received[s] = <<>>
    /\ pc[s] = "get" => nextIndex[s] < Len(content)
    /\ \A i \in 1..Len(received[s]) : received[s][i] = since[s] + i

Lossless == ContentIsPuts /\ \A s \in Subscribers : Counted(s)

KInv == cleared \/ Lossless

(* A subscriber of which a step changes nothing stays as it was.             *)
LEMMA CountedKept ==
    ASSUME NEW u \in Subscribers, Counted(u), UNCHANGED content,
           pc'[u] = pc[u], nextIndex'[u] = nextIndex[u],
           since'[u] = since[u], received'[u] = received[u]
    PROVE  Counted(u)'
  BY DEF Counted, Passed

LEMMA KPut == ASSUME OInv, Lossless, MemoryPut PROVE Lossless'
<1>1. /\ content \in Seq(Nat \ {0}) /\ stored \in Nat /\ Len(content) \in Nat
      /\ content' = Append(content, stored + 1) /\ stored' = stored + 1 /\ UNCHANGED subscriberVars
  BY DEF OInv, MemoryTypeOK, MemoryPut
<1>2. /\ Len(content') = Len(content) + 1 /\ content'[Len(content) + 1] = stored + 1
      /\ \A i \in 1..Len(content) : content'[i] = content[i]
  BY <1>1, AppendProperties
<1>3. ContentIsPuts'
  BY <1>1, <1>2 DEF Lossless, ContentIsPuts
<1>4. ASSUME NEW s \in Subscribers PROVE Counted(s)'
  <2>1. nextIndex[s] \in Nat /\ Passed(s) \in Nat /\ Passed(s)' = Passed(s) /\ Counted(s)
    BY <1>1 DEF OInv, MemoryTypeOK, Passed, Lossless, subscriberVars
  <2> QED
    BY <1>1, <1>2, <2>1 DEF Counted, subscriberVars
<1> QED
  BY <1>3, <1>4 DEF Lossless

LEMMA KGet == ASSUME OInv, Lossless, NEW s \in Subscribers, Get(s) PROVE Lossless'
<1>1. /\ content \in Seq(Nat \ {0}) /\ received[s] \in Seq(Nat \ {0}) /\ Counted(s)
      /\ nextIndex[s] \in Nat /\ since[s] \in Nat /\ Len(content) \in Nat /\ Len(received[s]) \in Nat
  BY DEF OInv, MemoryTypeOK, Lossless
<1>2. /\ pc[s] = "get" /\ pc'[s] = "increment" /\ nextIndex[s] < Len(content)
      /\ received'[s] = Append(received[s], content[nextIndex[s] + 1])
      /\ \A u \in Subscribers \ {s} : received'[u] = received[u] /\ pc'[u] = pc[u]
      /\ UNCHANGED <<content, stored, nextIndex, since>>
  BY DEF OInv, MemoryTypeOK, Get, Go
<1>3. Passed(s) = 0 /\ Passed(s)' = 1 /\ nextIndex[s] = since[s] + Len(received[s])
  BY <1>1, <1>2 DEF Passed, Counted
<1>4. nextIndex[s] + 1 \in 1..Len(content) /\ content[nextIndex[s] + 1] = nextIndex[s] + 1
  BY <1>1, <1>2 DEF Lossless, ContentIsPuts
<1>5. content[nextIndex[s] + 1] \in Nat \ {0}
  BY <1>1, <1>4
<1>6. /\ Len(received'[s]) = Len(received[s]) + 1
      /\ \A r \in 1..Len(received[s]) : received'[s][r] = received[s][r]
      /\ received'[s][Len(received[s]) + 1] = nextIndex[s] + 1
  BY <1>1, <1>2, <1>4, <1>5, AppendProperties
<1>7. \A i \in 1..Len(received'[s]) : received'[s][i] = since[s] + i
  <2> SUFFICES ASSUME NEW i \in 1..Len(received'[s]) PROVE received'[s][i] = since[s] + i
    OBVIOUS
  <2>1. CASE i \in 1..Len(received[s])
    <3>1. received[s][i] = since[s] + i
      BY <1>1, <2>1 DEF Counted
    <3> QED
      BY <1>6, <2>1, <3>1
  <2>2. CASE i = Len(received[s]) + 1
    <3>1. received'[s][i] = nextIndex[s] + 1
      BY <1>6, <2>2
    <3>2. nextIndex[s] + 1 = since[s] + i
      BY <1>1, <1>3, <2>2
    <3> QED
      BY <3>1, <3>2
  <2>3. Len(received'[s]) = Len(received[s]) + 1 /\ Len(received[s]) \in Nat
    BY <1>1, <1>6
  <2>4. i \in 1..Len(received[s]) \/ i = Len(received[s]) + 1
    BY <2>3
  <2> QED
    BY <2>1, <2>2, <2>4
<1>8. Counted(s)'
  <2>1. since'[s] + Len(received'[s]) = nextIndex'[s] + Passed(s)'
    BY <1>1, <1>2, <1>3, <1>6
  <2>2. nextIndex'[s] + Passed(s)' <= Len(content')
    BY <1>1, <1>2, <1>3
  <2> QED
    BY <1>2, <1>7, <2>1, <2>2 DEF Counted
<1>9. \A u \in Subscribers \ {s} : Counted(u)'
  BY <1>2, CountedKept DEF Lossless
<1>10. ContentIsPuts'
  BY <1>2 DEF Lossless, ContentIsPuts
<1> QED
  BY <1>8, <1>9, <1>10 DEF Lossless

LEMMA KConstruct == ASSUME OInv, Lossless, NEW s \in Subscribers, Construct(s) PROVE Lossless'
<1>1. /\ nextIndex'[s] = Len(content) /\ since'[s] = stored /\ pc[s] = "none" /\ pc'[s] = "start"
      /\ \A u \in Subscribers \ {s} :
            nextIndex'[u] = nextIndex[u] /\ since'[u] = since[u] /\ pc'[u] = pc[u]
      /\ UNCHANGED <<content, stored, received>>
  BY DEF OInv, MemoryTypeOK, Construct, Go
<1>2. received[s] = <<>> /\ Len(received[s]) = 0 /\ stored \in Nat /\ Len(content) = stored
  BY <1>1 DEF Lossless, ContentIsPuts, Counted, OInv, MemoryTypeOK
<1>3. Counted(s)'
  BY <1>1, <1>2 DEF Counted, Passed
<1>4. \A u \in Subscribers \ {s} : Counted(u)'
  BY <1>1, CountedKept DEF Lossless
<1>5. ContentIsPuts'
  BY <1>1 DEF Lossless, ContentIsPuts
<1> QED
  BY <1>3, <1>4, <1>5 DEF Lossless

LEMMA KIncrement == ASSUME OInv, Lossless, NEW s \in Subscribers, Increment(s) PROVE Lossless'
<1>1. /\ nextIndex'[s] = nextIndex[s] + 1 /\ pc[s] = "increment" /\ pc'[s] = "size"
      /\ \A u \in Subscribers \ {s} : nextIndex'[u] = nextIndex[u] /\ pc'[u] = pc[u]
      /\ UNCHANGED <<content, stored, received, since>>
  BY DEF OInv, MemoryTypeOK, Increment, Go
<1>2. Counted(s) /\ nextIndex[s] \in Nat /\ Passed(s) = 1 /\ Passed(s)' = 0
  BY <1>1 DEF Lossless, OInv, MemoryTypeOK, Passed
<1>3. Counted(s)'
  BY <1>1, <1>2 DEF Counted
<1>4. \A u \in Subscribers \ {s} : Counted(u)'
  BY <1>1, CountedKept DEF Lossless
<1>5. ContentIsPuts'
  BY <1>1 DEF Lossless, ContentIsPuts
<1> QED
  BY <1>3, <1>4, <1>5 DEF Lossless

(* The steps that only move the thread, or tell it to end.                   *)
LEMMA KMove ==
    ASSUME OInv, Lossless, NEW s \in Subscribers,
           Start(s) \/ Wait(s) \/ Size(s) \/ GetThrows(s) \/ Destroy(s) \/ MemoryJoin(s)
    PROVE  Lossless'
<1>1. UNCHANGED <<content, stored, nextIndex, received, since>>
  BY DEF Start, Wait, Size, GetThrows, Destroy, MemoryJoin
<1>2. ASSUME NEW u \in Subscribers, pc'[u] # pc[u]
      PROVE  /\ pc[u] \notin {"none", "increment"} /\ pc'[u] \notin {"none", "increment"}
             /\ pc'[u] = "get" => nextIndex[u] < Len(content)
  <2>1. Len(content) \in Nat /\ nextIndex[u] \in Nat
    BY DEF OInv, MemoryTypeOK
  <2> QED
    BY <1>2, <2>1 DEF OInv, MemoryTypeOK, Start, Wait, Size, GetThrows, Destroy, MemoryJoin, Go
<1>3. ASSUME NEW u \in Subscribers PROVE Counted(u)'
  <2>1. CASE pc'[u] = pc[u]
    BY <1>1, <2>1, CountedKept DEF Lossless
  <2>2. CASE pc'[u] # pc[u]
    <3>1. Passed(u)' = Passed(u)
      BY <1>2, <2>2 DEF Passed
    <3> QED
      BY <1>1, <1>2, <2>2, <3>1 DEF Lossless, Counted
  <2> QED
    BY <2>1, <2>2
<1> QED
  BY <1>1, <1>3 DEF Lossless, ContentIsPuts

(* Unless the broker is cleared, the element that get reads after the mutex  *)
(* was released is there, and the callbacks skip nothing and repeat nothing.  *)
THEOREM NoneSkippedHolds == MemorySpec => [](GetInRange /\ NoneSkipped)
<1>1. MemoryInit => KInv
  BY DEF MemoryInit, KInv, Lossless, ContentIsPuts, Counted, Passed
<1>2. ASSUME KInv, OInv, [MemoryNext]_memoryVars PROVE KInv'
  <2>1. CASE cleared
    BY <1>2, <2>1 DEF KInv, memoryVars, MemoryNext, Poll, MemoryPut, Clear, Construct, Start, Wait, Size, Get,
                      GetThrows, Increment, Destroy, MemoryJoin
  <2>2. CASE Lossless /\ UNCHANGED memoryVars
    BY <2>2, CountedKept DEF memoryVars, subscriberVars, KInv, Lossless, ContentIsPuts
  <2>3. CASE Lossless /\ MemoryNext
    <3>1. CASE Clear
      BY <3>1 DEF Clear, KInv
    <3>2. CASE ~Clear
      BY <1>2, <2>3, <3>2, KPut, KGet, KConstruct, KIncrement, KMove DEF MemoryNext, Poll, KInv
    <3> QED
      BY <3>1, <3>2
  <2> QED
    BY <1>2, <2>1, <2>2, <2>3 DEF KInv
<1>3. KInv => GetInRange /\ NoneSkipped
  BY DEF KInv, Lossless, Counted, GetInRange, NoneSkipped
<1> QED
  BY <1>1, <1>2, <1>3, MemoryInvariance, PTL DEF MemorySpec
=============================================================================
