------------------------------- MODULE Subscription ----------------------------
(***************************************************************************)
(* A subscriber to a topic of a Kafka (kafka.hpp) or an MQTT broker          *)
(* (mqtt.hpp): the thread of the program that constructs and destroys it,     *)
(* the thread that calls back, and the publisher of another program.  What   *)
(* the client libraries and the broker do is modelled from how they are used.*)
(*                                                                         *)
(* One variable, main, has the place in the program; the steps until a       *)
(* subscriber is constructed are those of Daemon.                           *)
(*                                                                         *)
(* With Kafka the partition and the offset at which a subscription starts are *)
(* at their defaults: 0, into which the publisher puts, and the end of the    *)
(* topic (kafka.hpp:73,113,119,154-157).                                    *)
(***************************************************************************)
EXTENDS Messages, SequencesExt

CONSTANTS
    Inputs,         \* the messages that OPERA programs may publish
    Foreign,        \* what other programs may: documents, and what they mean
    MaxMessages,    \* bound on the messages
    MaxOutbox       \* the messages that a publisher's library holds

ASSUME InputsAssumption ==
    /\ \A m \in Inputs : IsMessage(m)
    /\ MaxMessages \in Nat /\ MaxOutbox \in Nat

VARIABLES
    main,       \* the place of the thread that owns the subscriber
    kind,       \* of the broker: "none" until it is chosen, "kafka", "mqtt"
    thread,     \* the place of the thread that calls back
    consumer,   \* the consumer or client of the library
    stopped,    \* KafkaSubscriber::_stopped
    logged,     \* whether the Logger knows the thread
    first,      \* where in the topic the subscription has begun, 0 if not yet
    next,       \* where the next message is
    received,   \* the messages the callback has been called with
    outbox,     \* what the publisher's library has not sent yet
    topic,      \* what the broker has, with the message each document means
    publisher   \* "open", "closed", or "failed" by an assertion

owner == <<main, kind>>
consuming == <<thread, consumer, stopped, logged, first, next, received>>
publishing == <<outbox, topic, publisher>>
subVars == <<owner, consuming, publishing>>

Kinds == {"kafka", "mqtt"}

SubInit ==
    /\ main = "start" /\ kind = "none"
    /\ thread = "none" /\ consumer = "none"
    /\ stopped = FALSE /\ logged = FALSE
    /\ first = 0 /\ next = 0 /\ received = <<>>
    /\ outbox = <<>> /\ topic = <<>> /\ publisher = "open"

\* An exception in the thread ends the program.
Running == thread # "failed"

-----------------------------------------------------------------------------
(* The publisher.                                                           *)

OfTopic(m) == \A e \in ToSet(topic \o outbox) : e.message.type = m.type

\* Mutant: the queue of the library is taken to be endless.
PutEndless ==
    /\ publisher = "open"
    /\ Len(topic) + Len(outbox) < MaxMessages
    /\ \E m \in Inputs :
        /\ OfTopic(m)
        /\ outbox' = Append(outbox, [document |-> Serialise(m), message |-> m])
    /\ UNCHANGED <<owner, consuming, topic, publisher>>

\* put: the library takes a copy of the document, unless its queue is full.
Put ==
    /\ publisher = "open"
    /\ Len(topic) + Len(outbox) < MaxMessages
    /\ \E m \in Inputs :
        /\ OfTopic(m)
        /\ IF Len(outbox) < MaxOutbox
           THEN /\ outbox' = Append(outbox, [document |-> Serialise(m), message |-> m])
                /\ UNCHANGED publisher
           ELSE publisher' = "failed" /\ UNCHANGED outbox
    /\ UNCHANGED <<owner, consuming, topic>>

Deliver ==
    /\ outbox # <<>>
    /\ topic' = Append(topic, Head(outbox))
    /\ outbox' = Tail(outbox)
    /\ UNCHANGED <<owner, consuming, publisher>>

PutForeign ==
    /\ Len(topic) + Len(outbox) < MaxMessages
    /\ \E e \in Foreign : OfTopic(e.message) /\ topic' = Append(topic, e)
    /\ UNCHANGED <<owner, consuming, outbox, publisher>>

\* The destructor: flush gives up after a time, disconnect waits for nothing.
ClosePublisher ==
    /\ publisher = "open"
    /\ publisher' = "closed"
    /\ outbox' = <<>>
    /\ UNCHANGED <<owner, consuming, topic>>

\* Bound: what happens at the broker before the program uses it is left out.
Publisher ==
    /\ main \notin {"start", "exited"}
    /\ Put \/ Deliver \/ PutForeign \/ ClosePublisher

-----------------------------------------------------------------------------
(* Construction.                                                            *)

KafkaStart ==
    /\ Running /\ main = "construct" /\ kind = "kafka"
    /\ consumer' = "started"
    /\ thread' = "identify"
    /\ main' = "identify"
    /\ UNCHANGED <<kind, stopped, logged, first, next, received, publishing>>

\* Thread: the new thread gives its id, and waits until it is registered.
Identify ==
    /\ Running /\ thread = "identify"
    /\ thread' = "register"
    /\ UNCHANGED <<owner, consumer, stopped, logged, first, next, received, publishing>>

RegisterThread ==
    /\ Running /\ main = "identify" /\ thread = "register"
    /\ logged' = TRUE
    /\ main' = "release"
    /\ UNCHANGED <<kind, thread, consumer, stopped, first, next, received, publishing>>

ReleaseThread ==
    /\ Running /\ main = "release"
    /\ thread' = "loop"
    /\ main' = "running"
    /\ UNCHANGED <<kind, consumer, stopped, logged, first, next, received, publishing>>

MqttStart ==
    /\ Running /\ main = "construct" /\ kind = "mqtt"
    /\ consumer' = "started"
    /\ thread' = "loop"
    /\ main' = "running"
    /\ UNCHANGED <<kind, stopped, logged, first, next, received, publishing>>

\* The broker answers when the offset END is looked up, or the subscription
\* is acknowledged: what was put before is not received.
Begin ==
    /\ Running /\ consumer = "started" /\ first = 0
    /\ first' = Len(topic) + 1
    /\ next' = Len(topic) + 1
    /\ UNCHANGED <<owner, thread, consumer, stopped, logged, received, publishing>>

-----------------------------------------------------------------------------
(* The thread that calls back.                                              *)

\* Mutant: the last message is left until there is another.
AvailableShort == first > 0 /\ next < Len(topic)

Available == first > 0 /\ next <= Len(topic)

\* The next document is read, and the callback called with its message.
Callback ==
    LET e == topic[next]
    IN  /\ next' = next + 1
        /\ IF CanMake(e.message.type, e.document)
           THEN /\ thread' = "callback"
                /\ received' = Append(received, Make(e.message.type, e.document))
           ELSE thread' = "failed" /\ UNCHANGED received

\* Mutant: the flag is not read.
KafkaLoopForEver ==
    /\ Running /\ kind = "kafka" /\ thread = "loop"
    /\ thread' = "consume"
    /\ UNCHANGED <<owner, consumer, stopped, logged, first, next, received, publishing>>

KafkaLoop ==
    /\ Running /\ kind = "kafka" /\ thread = "loop"
    /\ thread' = IF stopped THEN "ended" ELSE "consume"
    /\ UNCHANGED <<owner, consumer, stopped, logged, first, next, received, publishing>>

KafkaReceive ==
    /\ Running /\ thread = "consume"
    /\ Available
    /\ Callback
    /\ UNCHANGED <<owner, consumer, stopped, logged, first, publishing>>

KafkaTimeout ==
    /\ Running /\ thread = "consume"
    /\ ~Available
    /\ thread' = "loop"
    /\ UNCHANGED <<owner, consumer, stopped, logged, first, next, received, publishing>>

\* subscriber_on_message: the first message registers the thread.
MqttReceive ==
    /\ Running /\ kind = "mqtt" /\ thread = "loop"
    /\ consumer = "started" /\ Available
    /\ logged' = TRUE
    /\ Callback
    /\ UNCHANGED <<owner, consumer, stopped, first, publishing>>

CallbackEnds ==
    /\ Running /\ thread = "callback"
    /\ thread' = "loop"
    /\ UNCHANGED <<owner, consumer, stopped, logged, first, next, received, publishing>>

Thread ==
    Identify \/ KafkaLoop \/ KafkaReceive \/ KafkaTimeout \/ MqttReceive \/ CallbackEnds

-----------------------------------------------------------------------------
(* Destruction.                                                             *)

KafkaStop ==
    /\ Running /\ main = "running" /\ kind = "kafka"
    /\ stopped' = TRUE
    /\ main' = "join"
    /\ UNCHANGED <<kind, thread, consumer, logged, first, next, received, publishing>>

\* Mutant: the thread is not waited for.
JoinAtOnce ==
    /\ Running /\ main = "join"
    /\ main' = "stop consumer"
    /\ logged' = FALSE
    /\ UNCHANGED <<kind, thread, consumer, stopped, first, next, received, publishing>>

Join ==
    /\ Running /\ main = "join" /\ thread = "ended"
    /\ main' = "stop consumer"
    /\ logged' = FALSE
    /\ UNCHANGED <<kind, thread, consumer, stopped, first, next, received, publishing>>

StopConsumer ==
    /\ Running /\ main = "stop consumer"
    /\ consumer' = "stopped"
    /\ main' = "delete"
    /\ UNCHANGED <<kind, thread, stopped, logged, first, next, received, publishing>>

Disconnect ==
    /\ Running /\ main = "running" /\ kind = "mqtt"
    /\ consumer' = "stopped"
    /\ main' = "stop loop"
    /\ UNCHANGED <<kind, thread, stopped, logged, first, next, received, publishing>>

\* mosquitto_loop_stop is told to force, which may end a callback midway.
StopLoop ==
    /\ Running /\ main = "stop loop"
    /\ thread' = "ended"
    /\ main' = "delete"
    /\ UNCHANGED <<kind, consumer, stopped, logged, first, next, received, publishing>>

Delete ==
    /\ Running /\ main = "delete"
    /\ consumer' = "deleted"
    /\ logged' = FALSE
    /\ main' = "ended"
    /\ UNCHANGED <<kind, thread, stopped, first, next, received, publishing>>

Destroy == KafkaStop \/ Disconnect

Main ==
    \/ KafkaStart \/ RegisterThread \/ ReleaseThread \/ MqttStart
    \/ Join \/ StopConsumer \/ StopLoop \/ Delete

SubNext == Publisher \/ Begin \/ Thread \/ Destroy \/ Main

-----------------------------------------------------------------------------
Entry == {[document |-> Serialise(m), message |-> m] : m \in Inputs}

(* The variables keep their types, and a publisher's library holds no more    *)
(* than it can (kafka.hpp:73).                                              *)
SubTypeOK ==
    /\ main \in {"start", "construct", "identify", "release", "running", "join",
                 "stop consumer", "stop loop", "delete", "ended", "exited"}
    /\ kind \in Kinds \cup {"none"}
    /\ thread \in {"none", "identify", "register", "loop", "consume", "callback",
                   "ended", "failed"}
    /\ consumer \in {"none", "started", "stopped", "deleted"}
    /\ stopped \in BOOLEAN /\ logged \in BOOLEAN
    /\ first \in Nat /\ next \in Nat
    /\ Len(received) <= Len(topic)
    /\ outbox \in Seq(Entry) /\ Len(outbox) <= MaxOutbox
    /\ topic \in Seq(Entry \cup Foreign)
    /\ publisher \in {"open", "closed", "failed"}

(* The callback is called with the messages that were put since the          *)
(* subscription began, each once, in order, and as they were meant: a          *)
(* document is read as the message it was made from (kafka.hpp:116-126,       *)
(* mqtt.hpp:90-100, serialisation.cpp, deserialisation.cpp).                *)
ReceivedInOrder ==
    LET read == IF thread = "failed" THEN next - 2 ELSE next - 1
    IN  /\ first = 0 => received = <<>>
        /\ first > 0 => /\ next \in first..(Len(topic) + 1)
                        /\ received = [i \in 1..(read - first + 1) |-> topic[first + i - 1].message]

(* The thread calls back only while the library's consumer and the Logger's   *)
(* registration it uses are there, also while the subscriber is destroyed,    *)
(* and nothing of it is left then (kafka.hpp:129-135, mqtt.hpp:128-138,      *)
(* thread.cpp:37-63).                                                       *)
UsesLive ==
    /\ thread \in {"loop", "consume", "callback"} =>
          /\ consumer # "deleted"
          /\ kind = "kafka" => logged /\ consumer = "started"
    /\ thread = "callback" => logged
    /\ main = "ended" => thread = "ended" /\ ~logged /\ consumer = "deleted"

(* The destructor of a subscriber ends, whatever is published meanwhile,       *)
(* unless a document ends the program before (kafka.hpp:129-135,             *)
(* mqtt.hpp:128-138).                                                       *)
DestructorEnds ==
    main \in {"join", "stop consumer", "stop loop", "delete"} ~> main = "ended" \/ ~Running

(* What is put after the subscription has begun is handed to the callback,    *)
(* unless the subscriber is destroyed or a document ends the program          *)
(* (kafka.hpp:118-125, mqtt.hpp:90-100).                                    *)
Delivered ==
    \A i \in 1..MaxMessages :
        (first \in 1..i /\ i <= Len(topic)) ~> (next > i \/ main # "running" \/ ~Running)
=============================================================================
