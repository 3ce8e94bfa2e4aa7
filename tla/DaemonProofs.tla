------------------------------ MODULE DaemonProofs ------------------------------
(***************************************************************************)
(* Proofs about a program with a subscriber, for any command line, any        *)
(* messages and any number of them.                                        *)
(*                                                                         *)
(* UsesLive is not inductive: it needs to know how far each broker's         *)
(* subscriber has come at each place of the program.  This is Places.       *)
(*                                                                         *)
(* SettingsAsAsked is about a command line that has been read; Parsed says   *)
(* it of the part that has been read so far.  ReceivedInOrder is about what  *)
(* was meant; Ordered says of what is received that it is what is read from  *)
(* the documents, and MadeBack that this is what OPERA programs meant.       *)
(***************************************************************************)
EXTENDS Daemon, TLAPS, FiniteSetTheorems, SequenceTheorems

\* Before the subscriber is there, and when it is no longer.
NotBegun ==
    main \in {"start", "construct", "exited"} =>
        thread = "none" /\ consumer = "none" /\ ~logged

Ended ==
    /\ main \in {"stop consumer", "delete"} => thread = "ended"
    /\ main = "ended" => thread = "ended" /\ ~logged /\ consumer = "deleted"

\* The thread of KafkaSubscriber is registered before it runs its loop, and
\* lives as long as that.
KafkaPlaces ==
    /\ main \in {"identify", "release", "join"} => kind = "kafka"
    /\ main = "identify" => thread \in {"identify", "register"} /\ consumer = "started"
    /\ main = "release" => thread = "register" /\ logged /\ consumer = "started"
    /\ main \in {"running", "join"} /\ kind = "kafka" =>
          /\ thread \in {"loop", "consume", "callback", "ended", "failed"}
          /\ logged /\ consumer = "started"

\* That of MqttSubscriber is registered by its first message.
MqttPlaces ==
    /\ main = "stop loop" => kind = "mqtt"
    /\ main \in {"running", "stop loop"} /\ kind = "mqtt" =>
          /\ thread \in {"loop", "callback", "failed"}
          /\ thread = "callback" => logged
          /\ consumer \in {"started", "stopped"}

Known ==
    /\ main \in {"start", "construct", "identify", "release", "running", "join",
                 "stop consumer", "stop loop", "delete", "ended", "exited"}
    /\ main \notin {"start", "exited"} => kind \in Kinds

Places == NotBegun /\ Ended /\ KafkaPlaces /\ MqttPlaces /\ Known

LEMMA PlacesImplyUsesLive == Places => UsesLive
BY DEF Places, NotBegun, Ended, KafkaPlaces, MqttPlaces, Known, UsesLive, Kinds

LEMMA InitPlaces == Init => Places
BY DEF Init, SubInit, Places, NotBegun, Ended, KafkaPlaces, MqttPlaces, Known, Kinds

(* The command line and the choice of a broker.                             *)
LEMMA StartStep ==
    ASSUME Places, Acquire \/ Return \/ Access
    PROVE  Places'
<1> USE DEF Places, NotBegun, Ended, KafkaPlaces, MqttPlaces, Known, Kinds
<1>1. CASE Acquire
  BY <1>1 DEF Acquire, subVars, owner, consuming
<1>2. CASE Return
  BY <1>2 DEF Return, consuming
<1>3. CASE Access
  BY <1>3 DEF Access, Proceed, Fail, consuming
<1> QED
  BY <1>1, <1>2, <1>3

(* The publisher and the beginning of the subscription change nothing here. *)
LEMMA OutsideStep ==
    ASSUME Places, Publisher \/ Begin
    PROVE  Places'
<1>1. UNCHANGED <<main, kind, thread, consumer, stopped, logged>>
  BY DEF Publisher, Put, Deliver, PutForeign, ClosePublisher, Begin, owner, consuming
<1> QED
  BY <1>1 DEF Places, NotBegun, Ended, KafkaPlaces, MqttPlaces, Known

(* The thread goes round while the program waits for it, or runs.           *)
LEMMA ThreadStep ==
    ASSUME Places, Thread
    PROVE  Places'
<1> USE DEF Places, NotBegun, Ended, KafkaPlaces, MqttPlaces, Known, Kinds
<1>1. UNCHANGED <<main, kind, consumer>>
  BY DEF Thread, Identify, KafkaLoop, KafkaReceive, KafkaTimeout, MqttReceive, CallbackEnds,
         owner
<1>2. CASE Identify
  BY <1>1, <1>2 DEF Identify
<1>3. CASE KafkaLoop
  BY <1>1, <1>3 DEF KafkaLoop
<1>4. CASE KafkaReceive \/ KafkaTimeout
  BY <1>1, <1>4 DEF KafkaReceive, KafkaTimeout, Callback
<1>5. CASE MqttReceive
  BY <1>1, <1>5 DEF MqttReceive, Callback
<1>6. CASE CallbackEnds
  BY <1>1, <1>6 DEF CallbackEnds
<1> QED
  BY <1>2, <1>3, <1>4, <1>5, <1>6 DEF Thread

(* Construction, and destruction in the order of the destructors.           *)
LEMMA OwnerStep ==
    ASSUME Places, Main \/ Destroy
    PROVE  Places'
<1> USE DEF Places, NotBegun, Ended, KafkaPlaces, MqttPlaces, Known, Kinds
<1>1. CASE KafkaStart \/ RegisterThread \/ ReleaseThread
  BY <1>1 DEF KafkaStart, RegisterThread, ReleaseThread
<1>2. CASE MqttStart
  BY <1>2 DEF MqttStart
<1>3. CASE KafkaStop \/ Join \/ StopConsumer
  BY <1>3 DEF KafkaStop, Join, StopConsumer
<1>4. CASE Disconnect \/ StopLoop
  BY <1>4 DEF Disconnect, StopLoop
<1>5. CASE Delete
  BY <1>5 DEF Delete
<1> QED
  BY <1>1, <1>2, <1>3, <1>4, <1>5 DEF Main, Destroy

LEMMA NextPlaces == Places /\ [Next]_vars => Places'
<1> SUFFICES ASSUME Places, [Next]_vars PROVE Places'
  OBVIOUS
<1>1. CASE Acquire \/ Return \/ Access
  BY <1>1, StartStep
<1>2. CASE SubNext
  BY <1>2, OutsideStep, ThreadStep, OwnerStep DEF SubNext
<1>3. CASE UNCHANGED vars
  BY <1>3 DEF vars, subVars, owner, consuming, Places, NotBegun, Ended, KafkaPlaces,
              MqttPlaces, Known
<1> QED
  BY <1>1, <1>2, <1>3 DEF Next

(* The thread of a subscriber uses what is there, whatever is published and  *)
(* however its construction, its callbacks and its destruction interleave     *)
(* (kafka.hpp:129-135, mqtt.hpp:128-138, thread.cpp:37-63).                 *)
THEOREM UsesLiveAlways == Spec => []UsesLive
<1>1. Init => Places
  BY InitPlaces
<1>2. Places /\ [Next]_vars => Places'
  BY NextPlaces
<1>3. Places => UsesLive
  BY PlacesImplyUsesLive
<1> QED
  BY <1>1, <1>2, <1>3, PTL DEF Spec

-----------------------------------------------------------------------------
(* The command line.                                                        *)

\* The words that have been read, and the pairs among them.
Read == Len(words) - Len(stream)
PositionsRead(id) == {i \in 1..Read : Asks(i) /\ words[i] \in Names(id)}

Single == {"theme", "verbosity"}

CliTyped ==
    /\ words \in Seq(Words) /\ stream \in Seq(Words)
    /\ Len(stream) <= Len(words) /\ Read % 2 = 0
    /\ \A i \in 1..Len(stream) : stream[i] = words[Read + i]
    /\ cli \in {"parsing", "accepted", "refused"}
    /\ DOMAIN packs \subseteq Single
    /\ DOMAIN settings = Single \cup {"scheduler"}
    /\ settings = [id \in DOMAIN settings |-> settings[id]]

\* What has been read are pairs, and the settings to be processed are theirs.
ReadWell ==
    \A i \in 1..Read : Asks(i) =>
        \E id \in Ids : words[i] \in Names(id) /\ words[i + 1] \in Values(id)

Packed ==
    \A id \in Single :
        /\ \A i, j \in PositionsRead(id) : i = j
        /\ id \in DOMAIN packs <=> PositionsRead(id) # {}
        /\ \A i \in PositionsRead(id) : packs[id] = Setting(id, words[i + 1])

\* The scheduler is the last that has been read.
Scheduled ==
    \/ /\ PositionsRead("scheduler") = {}
       /\ settings["scheduler"] = Defaults["scheduler"]
    \/ \E i \in PositionsRead("scheduler") :
          /\ \A j \in PositionsRead("scheduler") : j <= i
          /\ settings["scheduler"] = words[i + 1]

Returned ==
    /\ cli # "accepted" => \A id \in Single : settings[id] = Defaults[id]
    /\ cli = "accepted" =>
          /\ Len(stream) = 0
          /\ \A id \in Single :
                settings[id] = IF id \in DOMAIN packs THEN packs[id] ELSE Defaults[id]
    /\ cli = "refused" => Len(stream) > 0 /\ ~CanConsume

Parsed == CliTyped /\ ReadWell /\ Packed /\ Scheduled /\ Returned

(* No word is the name of two settings.                                     *)
LEMMA NamesApart ==
    ASSUME NEW a \in Ids, NEW b \in Ids, NEW w, w \in Names(a), w \in Names(b)
    PROVE  a = b
BY DEF Ids, Names

LEMMA IdOfName ==
    ASSUME NEW w, NEW id \in Ids, w \in Names(id)
    PROVE  Recognised(w) /\ IdOf(w) = id
<1>1. Recognised(w)
  BY DEF Recognised
<1>2. IdOf(w) \in Ids /\ w \in Names(IdOf(w))
  BY DEF IdOf
<1> QED
  BY <1>1, <1>2, NamesApart

LEMMA NameOfId ==
    ASSUME NEW w, Recognised(w)
    PROVE  IdOf(w) \in Ids /\ w \in Names(IdOf(w))
BY DEF Recognised, IdOf

LEMMA InitParsed == CliInit => Parsed
<1> SUFFICES ASSUME CliInit PROVE Parsed
  OBVIOUS
<1>1. words \in Seq(Words) /\ stream = words /\ Len(words) \in Nat
  BY DEF CliInit, CommandLines
<1>2. Read = 0
  BY <1>1 DEF Read
<1>3. \A id : PositionsRead(id) = {}
  BY <1>2 DEF PositionsRead
<1>4. PICK nothing : nothing = << >> /\ packs = nothing /\ DOMAIN nothing = {}
  BY DEF CliInit
<1>5. CliTyped
  <2>1. /\ DOMAIN settings = Single \cup {"scheduler"}
        /\ settings = [id \in DOMAIN settings |-> settings[id]]
    BY DEF CliInit, Defaults, Single
  <2>2. \A i \in 1..Len(stream) : stream[i] = words[Read + i]
    BY <1>1, <1>2
  <2> QED
    BY <1>1, <1>2, <1>4, <2>1, <2>2 DEF CliTyped, CliInit
<1>6. ReadWell
  BY <1>2 DEF ReadWell
<1>7. Packed
  BY <1>3, <1>4 DEF Packed
<1>8. Scheduled
  BY <1>3 DEF Scheduled, CliInit
<1>9. Returned
  BY DEF Returned, CliInit
<1> QED
  BY <1>5, <1>6, <1>7, <1>8, <1>9 DEF Parsed

(* Two words are consumed: a name, at an odd position, and its value.        *)
LEMMA ConsumedPair ==
    ASSUME Parsed, Consumed
    PROVE  /\ Read' = Read + 2 /\ Read \in Nat /\ Read % 2 = 0
           /\ Read + 2 <= Len(words) /\ Len(words) \in Nat
           /\ words' = words /\ cli = "parsing" /\ cli' = "parsing"
           /\ stream' \in Seq(Words) /\ Len(stream') = Len(stream) - 2
           /\ \A i \in 1..Len(stream') : stream'[i] = words[Read + 2 + i]
           /\ IdOf(words[Read + 1]) \in Ids
           /\ words[Read + 1] \in Names(IdOf(words[Read + 1]))
           /\ words[Read + 2] \in Values(IdOf(words[Read + 1]))
           /\ IdOf(words[Read + 1]) \notin DOMAIN packs
           /\ Consume(IdOf(words[Read + 1]), words[Read + 2])
<1>1. CliTyped
  BY DEF Parsed
<1>2. /\ Len(stream) \in Nat /\ Len(stream) > 1 /\ Len(words) \in Nat
      /\ Read \in Nat /\ Read + 2 <= Len(words) /\ Read % 2 = 0
  BY <1>1 DEF CliTyped, Consumed, CanConsume, Read
<1>3. Head(stream) = words[Read + 1] /\ stream[2] = words[Read + 2]
  BY <1>1, <1>2 DEF CliTyped
<1>4. stream' = SubSeq(stream, 3, Len(stream))
  BY DEF Consumed
<1>5. /\ stream' \in Seq(Words) /\ Len(stream') = Len(stream) - 2
      /\ \A i \in 1..Len(stream') : stream'[i] = stream[i + 2]
  <2>1. stream \in Seq(Words) /\ Len(stream) \in Nat /\ Len(stream) > 1
    BY <1>1, <1>2 DEF CliTyped
  <2>2. /\ SubSeq(stream, 3, Len(stream)) \in Seq(Words)
        /\ Len(SubSeq(stream, 3, Len(stream))) = Len(stream) - 2
        /\ \A i \in 1..(Len(stream) - 2) :
              SubSeq(stream, 3, Len(stream))[i] = stream[i + 2]
    <3>1. \A i \in 3..Len(stream) : stream[i] \in Words
      BY <2>1
    <3>2. /\ SubSeq(stream, 3, Len(stream)) \in Seq(Words)
          /\ Len(SubSeq(stream, 3, Len(stream))) =
                IF 3 <= Len(stream) THEN Len(stream) - 3 + 1 ELSE 0
          /\ \A i \in 1..(Len(stream) - 3 + 1) :
                SubSeq(stream, 3, Len(stream))[i] = stream[3 + i - 1]
      <4>1. 3 \in Int /\ Len(stream) \in Int
        BY <2>1
      <4> QED
        BY <3>1, <4>1, SubSeqProperties
    <3>3. Len(stream) - 3 + 1 = Len(stream) - 2
      BY <2>1
    <3>4. \A i \in 1..(Len(stream) - 2) : 3 + i - 1 = i + 2
      OBVIOUS
    <3> QED
      BY <2>1, <3>2, <3>3, <3>4
  <2> QED
    BY <1>4, <2>2
<1>6. words' = words /\ cli = "parsing" /\ cli' = "parsing"
  BY DEF Consumed
<1>7. Read' = Read + 2
  BY <1>2, <1>5, <1>6 DEF Read
<1>8. \A i \in 1..Len(stream') : stream'[i] = words[Read + 2 + i]
  <2> TAKE i \in 1..Len(stream')
  <2>1. i + 2 \in 1..Len(stream) /\ stream'[i] = stream[i + 2]
    BY <1>2, <1>5
  <2>2. stream[i + 2] = words[Read + (i + 2)]
    BY <1>1, <2>1 DEF CliTyped
  <2>3. Read + (i + 2) = Read + 2 + i
    BY <1>2
  <2> QED
    BY <2>1, <2>2, <2>3
<1>9. /\ Recognised(words[Read + 1])
      /\ words[Read + 2] \in Values(IdOf(words[Read + 1]))
      /\ IdOf(words[Read + 1]) \notin DOMAIN packs
      /\ Consume(IdOf(words[Read + 1]), words[Read + 2])
  BY <1>3 DEF Consumed, CanConsume
<1> QED
  BY <1>2, <1>5, <1>6, <1>7, <1>8, <1>9, NameOfId

LEMMA PositionsStep ==
    ASSUME Parsed, Consumed, NEW id \in Ids
    PROVE  PositionsRead(id)' = IF id = IdOf(words[Read + 1])
                                THEN PositionsRead(id) \cup {Read + 1} ELSE PositionsRead(id)
<1>1. /\ Read' = Read + 2 /\ Read \in Nat /\ Read % 2 = 0
      /\ Read + 2 <= Len(words) /\ Len(words) \in Nat /\ words' = words
      /\ IdOf(words[Read + 1]) \in Ids /\ words[Read + 1] \in Names(IdOf(words[Read + 1]))
  BY ConsumedPair
<1>2. PositionsRead(id)' = {i \in 1..(Read + 2) : Asks(i) /\ words[i] \in Names(id)}
  BY <1>1 DEF PositionsRead, Asks
<1>3. Asks(Read + 1) /\ ~Asks(Read + 2)
  BY <1>1 DEF Asks
<1>4. \A i : i \in 1..(Read + 2) <=> i \in 1..Read \/ i = Read + 1 \/ i = Read + 2
  BY <1>1
<1>5. words[Read + 1] \in Names(id) <=> id = IdOf(words[Read + 1])
  BY <1>1, IdOfName
<1> QED
  BY <1>2, <1>3, <1>4, <1>5 DEF PositionsRead

LEMMA ConsumedParsed == Parsed /\ Consumed => Parsed'
<1> SUFFICES ASSUME Parsed, Consumed PROVE Parsed'
  OBVIOUS
<1> DEFINE id == IdOf(words[Read + 1])
<1>1. /\ Read' = Read + 2 /\ Read \in Nat /\ Read % 2 = 0
      /\ Read + 2 <= Len(words) /\ Len(words) \in Nat
      /\ words' = words /\ cli = "parsing" /\ cli' = "parsing"
      /\ stream' \in Seq(Words) /\ Len(stream') = Len(stream) - 2
      /\ \A i \in 1..Len(stream') : stream'[i] = words[Read + 2 + i]
      /\ id \in Ids /\ words[Read + 1] \in Names(id)
      /\ words[Read + 2] \in Values(id)
      /\ id \notin DOMAIN packs /\ Consume(id, words[Read + 2])
  BY ConsumedPair
<1>2. \A a \in Ids : PositionsRead(a)' =
          IF a = id THEN PositionsRead(a) \cup {Read + 1} ELSE PositionsRead(a)
  BY PositionsStep
<1>3. CliTyped /\ ReadWell /\ Packed /\ Scheduled /\ Returned
  BY DEF Parsed
<1> HIDE DEF id
<1>4. id = "scheduler" \/ id \in Single
  BY <1>1 DEF Ids, Values, Single
<1>5. /\ id = "scheduler" => packs' = packs
                             /\ settings' = [settings EXCEPT !["scheduler"] = words[Read + 2]]
      /\ id \in Single =>
            /\ settings' = settings
            /\ packs' = [p \in DOMAIN packs \cup {id} |->
                            IF p = id THEN Setting(id, words[Read + 2]) ELSE packs[p]]
  BY <1>1 DEF Consume, Single
<1>6. CliTyped'
  <2>1. /\ DOMAIN packs' \subseteq Single /\ DOMAIN settings' = Single \cup {"scheduler"}
        /\ settings' = [a \in DOMAIN settings' |-> settings'[a]]
    BY <1>3, <1>4, <1>5 DEF CliTyped
  <2>2. Len(stream') <= Len(words) /\ Read' % 2 = 0
    BY <1>1, <1>3 DEF CliTyped
  <2>3. \A i \in 1..Len(stream') : stream'[i] = words'[Read' + i]
    BY <1>1
  <2>4. words' \in Seq(Words) /\ cli' \in {"parsing", "accepted", "refused"}
    BY <1>1, <1>3 DEF CliTyped
  <2> QED
    BY <1>1, <2>1, <2>2, <2>3, <2>4 DEF CliTyped
<1>7. ReadWell'
  <2> SUFFICES ASSUME NEW i \in 1..(Read + 2), Asks(i)
               PROVE  \E a \in Ids : words[i] \in Names(a) /\ words[i + 1] \in Values(a)
    BY <1>1 DEF ReadWell, Asks
  <2>1. CASE i \in 1..Read
    BY <1>3, <2>1 DEF ReadWell
  <2>2. CASE i = Read + 1
    <3>1. Read + 1 + 1 = Read + 2
      BY <1>1
    <3> QED
      BY <1>1, <2>2, <3>1
  <2>3. i # Read + 2
    <3>1. i % 2 = 1 /\ (Read + 2) % 2 = 0
      BY <1>1 DEF Asks
    <3> QED
      BY <3>1
  <2> QED
    BY <1>1, <2>1, <2>2, <2>3
<1>8. \A a : \A i \in PositionsRead(a) : i \in Nat
  BY DEF PositionsRead
<1>9. Packed'
  <2> SUFFICES ASSUME NEW a \in Single
               PROVE  /\ \A i, j \in PositionsRead(a)' : i = j
                      /\ a \in DOMAIN packs' <=> PositionsRead(a)' # {}
                      /\ \A i \in PositionsRead(a)' : packs'[a] = Setting(a, words[i + 1])
    BY <1>1 DEF Packed
  <2>1. /\ \A i, j \in PositionsRead(a) : i = j
        /\ a \in DOMAIN packs <=> PositionsRead(a) # {}
        /\ \A i \in PositionsRead(a) : packs[a] = Setting(a, words[i + 1])
    BY <1>3 DEF Packed
  <2>2. a \in Ids /\ a # "scheduler"
    BY DEF Single, Ids
  <2>3. CASE a = id
    <3>1. PositionsRead(a)' = {Read + 1}
      BY <1>1, <1>2, <2>1, <2>2, <2>3
    <3>2. a \in DOMAIN packs' /\ packs'[a] = Setting(a, words[Read + 2])
      BY <1>5, <2>3
    <3>3. Read + 1 + 1 = Read + 2
      BY <1>1
    <3> QED
      BY <3>1, <3>2, <3>3
  <2>4. CASE a # id
    <3>1. PositionsRead(a)' = PositionsRead(a)
      BY <1>2, <2>2, <2>4
    <3>2. a \in DOMAIN packs' <=> a \in DOMAIN packs
      BY <1>4, <1>5, <2>4
    <3>3. a \in DOMAIN packs => packs'[a] = packs[a]
      BY <1>4, <1>5, <2>4
    <3> QED
      BY <2>1, <3>1, <3>2, <3>3
  <2> QED
    BY <2>3, <2>4
<1>10. Scheduled'
  <2>1. "scheduler" \in Ids
    BY DEF Ids
  <2>2. CASE id = "scheduler"
    <3>1. PositionsRead("scheduler")' = PositionsRead("scheduler") \cup {Read + 1}
      BY <1>2, <2>1, <2>2
    <3>2. settings'["scheduler"] = words[Read + 2]
      BY <1>3, <1>5, <2>2 DEF CliTyped
    <3>3. \A j \in PositionsRead("scheduler") : j <= Read + 1
      BY <1>1 DEF PositionsRead
    <3>4. Read + 1 + 1 = Read + 2 /\ Read + 1 <= Read + 1
      BY <1>1
    <3>5. /\ Read + 1 \in PositionsRead("scheduler")'
          /\ \A j \in PositionsRead("scheduler")' : j <= Read + 1
          /\ settings'["scheduler"] = words'[Read + 1 + 1]
      BY <1>1, <3>1, <3>2, <3>3, <3>4
    <3> QED
      BY <3>5 DEF Scheduled
  <2>3. CASE id # "scheduler"
    <3>1. PositionsRead("scheduler")' = PositionsRead("scheduler")
      BY <1>2, <2>1, <2>3
    <3>2. settings' = settings
      BY <1>4, <1>5, <2>3
    <3> QED
      BY <1>1, <1>3, <3>1, <3>2 DEF Scheduled
  <2> QED
    BY <2>2, <2>3
<1>11. Returned'
  <2>1. \A a \in Single : settings'[a] = settings[a]
    BY <1>3, <1>4, <1>5 DEF CliTyped, Single
  <2> QED
    BY <1>1, <1>3, <2>1 DEF Returned
<1> QED
  BY <1>6, <1>7, <1>9, <1>10, <1>11 DEF Parsed

(* Nothing that Parsed tells apart changes but what acquire returns.         *)
LEMMA ReturnParsed == Parsed /\ (Refused \/ Accepted) => Parsed'
<1> SUFFICES ASSUME Parsed, Refused \/ Accepted PROVE Parsed'
  OBVIOUS
<1>1. CliTyped /\ ReadWell /\ Packed /\ Scheduled /\ Returned
  BY DEF Parsed
<1>2. UNCHANGED <<words, stream, packs>> /\ cli = "parsing" /\ cli' \in {"accepted", "refused"}
  BY DEF Refused, Accepted
<1>3. Read' = Read /\ \A id : PositionsRead(id)' = PositionsRead(id)
  BY <1>2 DEF Read, PositionsRead, Asks
<1>4. /\ DOMAIN settings' = DOMAIN settings /\ settings'["scheduler"] = settings["scheduler"]
      /\ settings' = [id \in DOMAIN settings' |-> settings'[id]]
  BY <1>1 DEF Refused, Accepted, CliTyped, Single
<1>5. CliTyped' /\ ReadWell' /\ Packed' /\ Scheduled'
  <2>1. CliTyped'
    BY <1>1, <1>2, <1>3, <1>4 DEF CliTyped
  <2>2. ReadWell'
    BY <1>1, <1>2, <1>3 DEF ReadWell, Asks
  <2>3. Packed'
    BY <1>1, <1>2, <1>3 DEF Packed
  <2>4. Scheduled'
    BY <1>1, <1>2, <1>3, <1>4 DEF Scheduled
  <2> QED
    BY <2>1, <2>2, <2>3, <2>4
<1>6. Returned'
  <2>1. CASE Refused
    <3>1. settings' = settings /\ cli' = "refused" /\ ~CanConsume /\ stream # <<>>
      BY <2>1 DEF Refused
    <3>2. CanConsume' = CanConsume
      BY <1>2 DEF CanConsume
    <3>3. Len(stream) > 0
      BY <1>1, <3>1 DEF CliTyped
    <3> QED
      BY <1>1, <1>2, <3>1, <3>2, <3>3 DEF Returned
  <2>2. CASE Accepted
    <3>1. /\ cli' = "accepted" /\ stream = <<>>
          /\ \A id \in Single : settings'[id] =
                IF id \in DOMAIN packs THEN packs[id] ELSE settings[id]
      BY <1>1, <2>2 DEF Accepted, CliTyped
    <3>2. Len(stream) = 0
      BY <3>1
    <3> QED
      BY <1>1, <1>2, <3>1, <3>2 DEF Returned
  <2> QED
    BY <2>1, <2>2
<1> QED
  BY <1>5, <1>6 DEF Parsed

LEMMA IdleParsed == Parsed /\ UNCHANGED cliVars => Parsed'
<1> SUFFICES ASSUME Parsed, UNCHANGED <<words, stream, packs, settings, cli>> PROVE Parsed'
  BY DEF cliVars
<1>1. Read' = Read /\ \A id : PositionsRead(id)' = PositionsRead(id)
  BY DEF Read, PositionsRead, Asks
<1>2. CanConsume' = CanConsume
  BY DEF CanConsume
<1>3. CliTyped' /\ ReadWell'
  BY <1>1 DEF Parsed, CliTyped, ReadWell, Asks
<1>4. Packed' /\ Scheduled' /\ Returned'
  BY <1>1, <1>2 DEF Parsed, Packed, Scheduled, Returned
<1> QED
  BY <1>3, <1>4 DEF Parsed

(* The command line that has all been read is what it asks for.              *)
LEMMA AcceptedAsAsked ==
    ASSUME Parsed, cli = "accepted"
    PROVE  WellFormed /\ \A id \in DOMAIN settings : settings[id] = LastAsked(id)
<1>1. CliTyped /\ ReadWell /\ Packed /\ Scheduled /\ Returned
  BY DEF Parsed
<1>2. Len(words) \in Nat /\ Read = Len(words) /\ Len(words) % 2 = 0
  BY <1>1 DEF Returned, CliTyped, Read
<1>3. \A id : Positions(id) = PositionsRead(id)
  BY <1>2 DEF Positions, PositionsRead
<1>4. \A id : \A i \in Positions(id) : i \in Nat /\ 1 + i = i + 1
  BY <1>2 DEF Positions
<1>5. WellFormed
  <2>1. ASSUME NEW i \in 1..Len(words), Asks(i)
        PROVE  \E id \in Ids : i \in Positions(id) /\ words[i + 1] \in Values(id)
    BY <1>1, <1>2, <2>1 DEF ReadWell, Positions
  <2>2. \A id \in {"theme", "verbosity"} : \A i, j \in Positions(id) : i = j
    BY <1>1, <1>3 DEF Packed, Single
  <2> QED
    BY <1>2, <2>1, <2>2 DEF WellFormed
<1>6. ASSUME NEW id \in DOMAIN settings
      PROVE  settings[id] = LastAsked(id)
  <2>1. id \in Single \/ id = "scheduler"
    BY <1>1, <1>6 DEF CliTyped
  <2>2. CASE Positions(id) = {}
    <3>1. settings[id] = Defaults[id]
      BY <1>1, <1>3, <2>1, <2>2 DEF Packed, Scheduled, Returned
    <3> QED
      BY <2>2, <3>1 DEF LastAsked
  <2>3. CASE Positions(id) # {}
    <3>1. PICK i \in Positions(id) :
             /\ \A j \in Positions(id) : j <= i
             /\ settings[id] = Setting(id, words[i + 1])
      <4>1. CASE id \in Single
        <5>1. PICK i \in Positions(id) : TRUE
          BY <2>3
        <5>2. \A j \in Positions(id) : j <= i
          BY <1>1, <1>3, <1>4, <4>1, <5>1 DEF Packed
        <5>3. settings[id] = packs[id] /\ packs[id] = Setting(id, words[i + 1])
          BY <1>1, <1>3, <2>3, <4>1, <5>1 DEF Packed, Returned
        <5> QED
          BY <5>1, <5>2, <5>3
      <4>2. CASE id = "scheduler"
        BY <1>1, <1>3, <2>3, <4>2 DEF Scheduled, Setting
      <4> QED
        BY <2>1, <4>1, <4>2
    <3> DEFINE last == CHOOSE k \in Positions(id) : \A j \in Positions(id) : j <= k
    <3>2. last \in Positions(id) /\ \A j \in Positions(id) : j <= last
      BY <3>1
    <3> HIDE DEF last
    <3>3. last = i /\ 1 + last = i + 1
      BY <1>4, <3>1, <3>2
    <3>4. LastAsked(id) = Setting(id, words[1 + last])
      BY <2>3 DEF LastAsked, last
    <3> QED
      BY <3>1, <3>3, <3>4
  <2> QED
    BY <2>2, <2>3
<1> QED
  BY <1>5, <1>6

(* A word that is refused makes the command line ill formed.                 *)
LEMMA RefusedAsAsked ==
    ASSUME Parsed, cli = "refused"
    PROVE  ~WellFormed /\ settings = [Defaults EXCEPT !.scheduler = settings.scheduler]
<1>1. CliTyped /\ Packed /\ Returned
  BY DEF Parsed
<1>2. /\ Len(words) \in Nat /\ Len(stream) \in Nat /\ Len(stream) > 0 /\ ~CanConsume
      /\ Read \in Nat /\ Read % 2 = 0 /\ Read + Len(stream) = Len(words)
  BY <1>1 DEF Returned, CliTyped, Read
<1>3. ~WellFormed
  <2> SUFFICES ASSUME WellFormed PROVE FALSE
    OBVIOUS
  <2>1. Len(stream) > 1
    BY <1>2 DEF WellFormed
  <2>2. Asks(Read + 1) /\ Read + 1 \in 1..Len(words)
    BY <1>2, <2>1 DEF Asks
  <2>3. PICK id \in Ids : Read + 1 \in Positions(id) /\ words[Read + 1 + 1] \in Values(id)
    BY <2>2 DEF WellFormed
  <2>4. Head(stream) = words[Read + 1] /\ stream[2] = words[Read + 1 + 1]
    <3>1. stream[1] = words[Read + 1] /\ stream[2] = words[Read + 2]
      BY <1>1, <1>2, <2>1 DEF CliTyped
    <3>2. Read + 2 = Read + 1 + 1
      BY <1>2
    <3> QED
      BY <1>1, <2>1, <3>1, <3>2 DEF CliTyped
  <2>5. Recognised(Head(stream)) /\ IdOf(Head(stream)) = id
    BY <2>3, <2>4, IdOfName DEF Positions
  <2>6. id \in DOMAIN packs
    BY <1>2, <2>1, <2>3, <2>4, <2>5 DEF CanConsume
  <2>7. id \in Single
    BY <1>1, <2>6 DEF CliTyped
  <2>8. PICK i \in PositionsRead(id) : TRUE
    BY <1>1, <2>6, <2>7 DEF Packed
  <2>9. i \in Positions(id) /\ i # Read + 1
    BY <1>2, <2>8 DEF Positions, PositionsRead
  <2> QED
    BY <2>3, <2>7, <2>9 DEF WellFormed, Single
<1>4. settings = [Defaults EXCEPT !.scheduler = settings.scheduler]
  <2>1. /\ DOMAIN settings = {"scheduler", "theme", "verbosity"}
        /\ settings = [id \in DOMAIN settings |-> settings[id]]
    BY <1>1 DEF CliTyped, Single
  <2>2. settings.theme = Defaults.theme /\ settings.verbosity = Defaults.verbosity
    BY <1>1 DEF Returned, Single
  <2> QED
    BY <2>1, <2>2 DEF Defaults
<1> QED
  BY <1>3, <1>4

LEMMA ParsedImpliesAsked == Parsed => SettingsAsAsked
BY AcceptedAsAsked, RefusedAsAsked DEF SettingsAsAsked

-----------------------------------------------------------------------------
(* The messages.                                                            *)

LEMMA ListRange ==
    ASSUME NEW list, IsList(list)
    PROVE  /\ Len(list) \in Nat /\ DOMAIN list = 1..Len(list)
           /\ list = [i \in 1..Len(list) |-> list[i]]
BY DEF IsList

(* Points whose coordinates are numbers are all kept, in their order.        *)
LEMMA SeenAll ==
    ASSUME NEW points, IsSamples(points)
    PROVE  SeenPoints(points) = points
<1> DEFINE seen == {i \in DOMAIN points : Seen(points[i])}
           Rank(i) == Cardinality({j \in seen : j <= i})
           At(n) == CHOOSE i \in seen : Rank(i) = n
<1>1. /\ Len(points) \in Nat /\ DOMAIN points = 1..Len(points)
      /\ points = [i \in 1..Len(points) |-> points[i]]
  BY ListRange DEF IsSamples
<1>2. seen = 1..Len(points)
  BY <1>1 DEF IsSamples, IsPoint, Seen
<1>3. Cardinality(seen) = Len(points)
  <2>1. 1 \in Int /\ Len(points) \in Int
    BY <1>1
  <2>2. Cardinality(1..Len(points)) =
            IF 1 > Len(points) THEN 0 ELSE Len(points) - 1 + 1
    BY <2>1, FS_Interval
  <2>3. Len(points) \in Nat
    BY <1>1
  <2>4. Cardinality(1..Len(points)) = Len(points)
    BY <2>2, <2>3
  <2> HIDE DEF seen
  <2> QED
    BY <1>2, <2>4
<1>4. \A i \in seen : Rank(i) = i
  <2> TAKE i \in seen
  <2>1. {j \in seen : j <= i} = 1..i
    BY <1>1, <1>2
  <2>2. Cardinality(1..i) = i
    BY <1>1, <1>2, FS_Interval
  <2> QED
    BY <2>1, <2>2
<1> HIDE DEF Rank
<1>5. \A n \in seen : At(n) = n
  BY <1>4
<1>6. SeenPoints(points) = [n \in 1..Cardinality(seen) |-> points[At(n)]]
  BY DEF SeenPoints, Rank
<1> HIDE DEF seen, At
<1> QED
  BY <1>1, <1>2, <1>3, <1>5, <1>6

LEMMA PresentationMade ==
    ASSUME NEW m, IsPresentation(m)
    PROVE  MakePresentation(PresentationDocument(m)) = m
<1> DEFINE document ==
        [id |-> m.id, isHuman |-> m.isHuman, segmentPairs |-> m.segmentPairs,
         thicknesses |-> [i \in 1..Len(m.segmentPairs) |-> m.thicknesses[i]]]
<1>1. document.thicknesses = m.thicknesses
  BY ListRange DEF IsPresentation
<1>2. CASE m = HumanPresentation(m.id, m.segmentPairs, m.thicknesses)
  <2>1. m.isHuman
    BY <1>2 DEF HumanPresentation
  <2>2. PresentationDocument(m) = document
    BY <2>1 DEF PresentationDocument
  <2>3. /\ document.id = m.id /\ document.isHuman = m.isHuman
        /\ document.segmentPairs = m.segmentPairs
    OBVIOUS
  <2> HIDE DEF document
  <2> QED
    BY <1>1, <1>2, <2>1, <2>2, <2>3 DEF MakePresentation
<1>3. CASE m = RobotPresentation(m.id, m.messageFrequency, m.segmentPairs, m.thicknesses)
  <2> DEFINE full == AddMember(document, "messageFrequency", m.messageFrequency)
  <2>1. ~m.isHuman
    BY <1>3 DEF RobotPresentation
  <2>2. PresentationDocument(m) = full
    BY <2>1 DEF PresentationDocument
  <2>3. /\ full.id = m.id /\ full.isHuman = m.isHuman
        /\ full.segmentPairs = m.segmentPairs /\ full.thicknesses = m.thicknesses
        /\ full.messageFrequency = m.messageFrequency
    BY <1>1 DEF AddMember
  <2> HIDE DEF document, full
  <2> QED
    BY <1>3, <2>1, <2>2, <2>3 DEF MakePresentation
<1> QED
  BY <1>2, <1>3 DEF IsPresentation

LEMMA HumanStateMade ==
    ASSUME NEW m, IsHumanState(m)
    PROVE  MakeHumanState(HumanStateDocument(m)) = m
<1> DEFINE d == HumanStateDocument(m)
<1>1. /\ Len(m.bodies) \in Nat /\ DOMAIN m.bodies = 1..Len(m.bodies)
      /\ m.bodies = [i \in 1..Len(m.bodies) |-> m.bodies[i]]
  BY ListRange DEF IsHumanState
<1>2. /\ d.timestamp = m.timestamp
      /\ d.bodies = [i \in 1..Len(m.bodies) |->
                        [body_id |-> m.bodies[i].id, keypoints |-> m.bodies[i].keypoints]]
  BY DEF HumanStateDocument
<1> HIDE DEF d
<1>3. Len(d.bodies) = Len(m.bodies)
  BY <1>1, <1>2
<1> DEFINE Kept(keypoints) == [k \in DOMAIN keypoints |-> SeenPoints(keypoints[k])]
<1>4. \A i \in 1..Len(m.bodies) : Kept(m.bodies[i].keypoints) = m.bodies[i].keypoints
  BY <1>1, SeenAll DEF IsHumanState
<1>5. \A i \in 1..Len(m.bodies) :
          [id |-> d.bodies[i].body_id, keypoints |-> Kept(d.bodies[i].keypoints)] = m.bodies[i]
  <2> TAKE i \in 1..Len(m.bodies)
  <2>1. d.bodies[i].body_id = m.bodies[i].id /\ d.bodies[i].keypoints = m.bodies[i].keypoints
    BY <1>2
  <2>2. m.bodies[i] = [id |-> m.bodies[i].id, keypoints |-> m.bodies[i].keypoints]
    BY <1>1 DEF IsHumanState
  <2> HIDE DEF Kept
  <2> QED
    BY <1>4, <2>1, <2>2
<1>6. MakeHumanState(d) =
          HumanState([i \in 1..Len(d.bodies) |->
                        [id |-> d.bodies[i].body_id, keypoints |-> Kept(d.bodies[i].keypoints)]],
                     d.timestamp)
  BY DEF MakeHumanState
<1> HIDE DEF Kept
<1>7. [i \in 1..Len(d.bodies) |->
          [id |-> d.bodies[i].body_id, keypoints |-> Kept(d.bodies[i].keypoints)]] = m.bodies
  BY <1>1, <1>3, <1>5
<1> QED
  BY <1>2, <1>6, <1>7 DEF IsHumanState, d

LEMMA RobotStateMade ==
    ASSUME NEW m, IsRobotState(m)
    PROVE  MakeRobotState(RobotStateDocument(m)) = m
<1> DEFINE d == RobotStateDocument(m)
           Coordinates(points) == [j \in 1..Len(points) |->
                                      LET p == points[j] IN <<p.x, p.y, p.z>>]
           Points(coordinates) == [j \in 1..Len(coordinates) |->
                LET c == coordinates[j] IN [x |-> c[1], y |-> c[2], z |-> c[3]]]
<1>1. /\ Len(m.points) \in Nat /\ DOMAIN m.points = 1..Len(m.points)
      /\ m.points = [i \in 1..Len(m.points) |-> m.points[i]]
  BY ListRange DEF IsRobotState
<1>2. /\ d.timestamp = m.timestamp /\ d.bodyId = m.id /\ d.mode = m.mode
      /\ d.continuousState = [i \in 1..Len(m.points) |-> Coordinates(m.points[i])]
  BY DEF RobotStateDocument
<1>3. MakeRobotState(d) =
          RobotState(d.bodyId, d.mode,
                     [i \in 1..Len(d.continuousState) |-> Points(d.continuousState[i])],
                     d.timestamp)
  BY DEF MakeRobotState
<1> HIDE DEF d
<1>4. ASSUME NEW i \in 1..Len(m.points)
      PROVE  Points(Coordinates(m.points[i])) = m.points[i]
  <2> DEFINE points == m.points[i]
  <2>1. /\ Len(points) \in Nat /\ DOMAIN points = 1..Len(points)
        /\ points = [j \in 1..Len(points) |-> points[j]]
    BY <1>1, ListRange DEF IsRobotState, IsSamples
  <2>2. \A j \in 1..Len(points) : points[j] = [x |-> points[j].x, y |-> points[j].y, z |-> points[j].z]
    BY <1>1, <2>1 DEF IsRobotState, IsSamples, IsPoint
  <2> HIDE DEF points
  <2>3. /\ Len(Coordinates(points)) = Len(points)
        /\ \A j \in 1..Len(points) : Coordinates(points)[j] = <<points[j].x, points[j].y, points[j].z>>
    BY <2>1
  <2>4. Points(Coordinates(points)) = [j \in 1..Len(points) |-> points[j]]
    BY <2>1, <2>2, <2>3
  <2> QED
    BY <2>1, <2>4 DEF points
<1> HIDE DEF Points, Coordinates
<1>5. Len(d.continuousState) = Len(m.points)
  <2> DEFINE n == Len(m.points)
             states == d.continuousState
  <2>1. n \in Nat /\ states = [i \in 1..n |-> Coordinates(m.points[i])]
    BY <1>1, <1>2
  <2> HIDE DEF n, states
  <2>2. Len(states) = n
    BY <2>1
  <2> QED
    BY <2>2 DEF n, states
<1>6. [i \in 1..Len(d.continuousState) |-> Points(d.continuousState[i])] = m.points
  <2>1. \A i \in 1..Len(m.points) : Points(d.continuousState[i]) = m.points[i]
    BY <1>2, <1>4
  <2>2. [i \in 1..Len(m.points) |-> Points(d.continuousState[i])]
            = [i \in 1..Len(m.points) |-> m.points[i]]
    BY <2>1
  <2> QED
    BY <1>1, <1>5, <2>2
<1> QED
  BY <1>2, <1>3, <1>6 DEF IsRobotState, d

LEMMA NotificationMade ==
    ASSUME NEW m, IsNotification(m), "collisionMode" \in DOMAIN NotificationDocument(m)
    PROVE  MakeNotification(NotificationDocument(m)) = m
<1> DEFINE document ==
        [human |-> m.human, robot |-> m.robot, currentTime |-> m.currentTime,
         collisionDistance |-> m.collisionDistance, likelihood |-> m.likelihood]
           full == AddMember(document, "collisionMode", m.collisionMode)
<1>1. "collisionMode" \notin DOMAIN document
  OBVIOUS
<1>2. NotificationDocument(m) = full
  BY <1>1 DEF NotificationDocument
<1>3. /\ full.human = m.human /\ full.robot = m.robot /\ full.currentTime = m.currentTime
      /\ full.collisionDistance = m.collisionDistance /\ full.likelihood = m.likelihood
      /\ full.collisionMode = m.collisionMode
  BY DEF AddMember
<1> HIDE DEF document, full
<1> QED
  BY <1>2, <1>3 DEF MakeNotification, IsNotification

(* What is read from the document of a message is that message.              *)
LEMMA MadeBack ==
    ASSUME NEW m, IsMessage(m), CanMake(m.type, Serialise(m))
    PROVE  Make(m.type, Serialise(m)) = m
<1>1. CASE m.type = "presentation" /\ IsPresentation(m)
  <2>1. Serialise(m) = PresentationDocument(m)
    BY <1>1 DEF Serialise
  <2>2. Make(m.type, PresentationDocument(m)) = MakePresentation(PresentationDocument(m))
    BY <1>1 DEF Make
  <2> QED
    BY <1>1, <2>1, <2>2, PresentationMade
<1>2. CASE m.type = "human state" /\ IsHumanState(m)
  <2>1. Serialise(m) = HumanStateDocument(m)
    BY <1>2 DEF Serialise
  <2>2. Make(m.type, HumanStateDocument(m)) = MakeHumanState(HumanStateDocument(m))
    BY <1>2 DEF Make
  <2> QED
    BY <1>2, <2>1, <2>2, HumanStateMade
<1>3. CASE m.type = "robot state" /\ IsRobotState(m)
  <2>1. Serialise(m) = RobotStateDocument(m)
    BY <1>3 DEF Serialise
  <2>2. Make(m.type, RobotStateDocument(m)) = MakeRobotState(RobotStateDocument(m))
    BY <1>3 DEF Make
  <2> QED
    BY <1>3, <2>1, <2>2, RobotStateMade
<1>4. CASE m.type = "notification" /\ IsNotification(m)
  <2>1. Serialise(m) = NotificationDocument(m)
    BY <1>4 DEF Serialise
  <2>2. /\ Make(m.type, NotificationDocument(m)) = MakeNotification(NotificationDocument(m))
        /\ CanMake(m.type, NotificationDocument(m)) =>
              "collisionMode" \in DOMAIN NotificationDocument(m)
    BY <1>4 DEF Make, CanMake
  <2> QED
    BY <1>4, <2>1, <2>2, NotificationMade
<1> QED
  BY <1>1, <1>2, <1>3, <1>4 DEF IsMessage

-----------------------------------------------------------------------------
(* What is received.                                                        *)

\* The documents of other programs mean what is read from them.
ForeignAsRead ==
    \A e \in Foreign : CanMake(e.message.type, e.document) =>
        Make(e.message.type, e.document) = e.message

MainPlaces == {"start", "construct", "identify", "release", "running", "join",
            "stop consumer", "stop loop", "delete", "ended", "exited"}
ThreadPlaces == {"none", "identify", "register", "loop", "consume", "callback", "ended", "failed"}
ConsumerStates == {"none", "started", "stopped", "deleted"}

SubTyped ==
    /\ main \in MainPlaces
    /\ kind \in Kinds \cup {"none"}
    /\ thread \in ThreadPlaces
    /\ consumer \in ConsumerStates
    /\ stopped \in BOOLEAN /\ logged \in BOOLEAN
    /\ outbox \in Seq(Entry) /\ Len(outbox) <= MaxOutbox
    /\ topic \in Seq(Entry \cup Foreign)
    /\ publisher \in {"open", "closed", "failed"}

CanRead(e) == CanMake(e.message.type, e.document)
ReadAs(e) == Make(e.message.type, e.document)

\* What is read from the first n documents of the subscription.
ReadOf(n) == [i \in 1..n |-> ReadAs(topic[first + i - 1])]

\* A document that ended the program has been passed, but not received.
ReadCount == IF thread = "failed" THEN next - 1 - first ELSE next - first

Ordered ==
    /\ first \in Nat /\ next \in Nat
    /\ first = 0 => received = <<>> /\ thread # "failed"
    /\ first > 0 =>
          /\ next \in first..(Len(topic) + 1)
          /\ thread = "failed" => next > first
          /\ received = ReadOf(ReadCount)
          /\ \A i \in 1..ReadCount : CanRead(topic[first + i - 1])

LEMMA EntriesMade ==
    ASSUME ForeignAsRead, NEW e \in Entry \cup Foreign, CanRead(e)
    PROVE  ReadAs(e) = e.message
<1>1. CASE e \in Foreign
  BY <1>1 DEF ForeignAsRead, CanRead, ReadAs
<1>2. CASE e \in Entry
  <2>1. PICK m \in Inputs : e = [document |-> Serialise(m), message |-> m]
    BY <1>2 DEF Entry
  <2>2. e.message = m /\ e.document = Serialise(m) /\ IsMessage(m)
    BY <2>1, InputsAssumption
  <2> QED
    BY <2>2, MadeBack DEF CanRead, ReadAs
<1> QED
  BY <1>1, <1>2

LEMMA OrderedCount ==
    ASSUME SubTyped, Ordered, first > 0
    PROVE  /\ ReadCount \in Nat /\ Len(topic) \in Nat
           /\ ReadCount <= Len(topic) /\ first + ReadCount <= Len(topic) + 1
           /\ ReadCount = (IF thread = "failed" THEN next - 2 ELSE next - 1) - first + 1
BY DEF SubTyped, Ordered, ReadCount

(* No more is received than there is in the topic.                           *)
LEMMA SubTypedImplies == SubTyped /\ Ordered => SubTypeOK
<1> SUFFICES ASSUME SubTyped, Ordered PROVE SubTypeOK
  OBVIOUS
<1>1. Len(received) <= Len(topic)
  <2>1. CASE first = 0
    <3>1. PICK nothing : nothing = <<>> /\ received = nothing /\ Len(nothing) = 0
      BY <2>1 DEF Ordered
    <3> QED
      BY <3>1 DEF SubTyped
  <2>2. CASE first > 0
    <3>1. ReadCount \in Nat /\ ReadCount <= Len(topic) /\ received = ReadOf(ReadCount)
      BY <2>2, OrderedCount DEF Ordered
    <3>2. Len(received) = ReadCount
      BY <3>1 DEF ReadOf
    <3> QED
      BY <3>1, <3>2
  <2> QED
    BY <2>1, <2>2 DEF Ordered
<1> QED
  BY <1>1 DEF SubTyped, Ordered, SubTypeOK, MainPlaces, ThreadPlaces, ConsumerStates

(* What is read is what was meant.                                          *)
LEMMA OrderedImplies ==
    ASSUME ForeignAsRead, SubTyped, Ordered
    PROVE  ReceivedInOrder
<1> DEFINE read == IF thread = "failed" THEN next - 2 ELSE next - 1
<1>1. CASE first = 0
  BY <1>1 DEF Ordered, ReceivedInOrder
<1>2. CASE first > 0
  <2>1. /\ ReadCount \in Nat /\ ReadCount = read - first + 1 /\ Len(topic) \in Nat
        /\ first + ReadCount <= Len(topic) + 1 /\ received = ReadOf(ReadCount)
        /\ first \in Nat /\ \A i \in 1..ReadCount : CanRead(topic[first + i - 1])
    BY <1>2, OrderedCount DEF Ordered
  <2>2. \A i \in 1..ReadCount : ReadAs(topic[first + i - 1]) = topic[first + i - 1].message
    <3> TAKE i \in 1..ReadCount
    <3>1. first + i - 1 \in 1..Len(topic)
      BY <1>2, <2>1
    <3>2. topic[first + i - 1] \in Entry \cup Foreign
      BY <3>1 DEF SubTyped
    <3> QED
      BY <2>1, <3>2, EntriesMade
  <2>3. received = [i \in 1..(read - first + 1) |-> topic[first + i - 1].message]
    BY <2>1, <2>2 DEF ReadOf
  <2> QED
    BY <1>2, <2>3 DEF ReceivedInOrder, Ordered
<1> QED
  BY <1>1, <1>2 DEF Ordered

LEMMA InitOrdered == SubInit => SubTyped /\ Ordered
<1> SUFFICES ASSUME SubInit PROVE SubTyped /\ Ordered
  OBVIOUS
<1>1. PICK nothing : nothing = <<>> /\ outbox = nothing /\ topic = nothing /\ Len(nothing) = 0
  BY DEF SubInit
<1>2. nothing \in Seq(Entry) /\ nothing \in Seq(Entry \cup Foreign)
  BY <1>1
<1>3. /\ outbox \in Seq(Entry) /\ Len(outbox) <= MaxOutbox
      /\ topic \in Seq(Entry \cup Foreign)
  BY <1>1, <1>2, InputsAssumption
<1>4. SubTyped
  BY <1>3 DEF SubInit, SubTyped, MainPlaces, ThreadPlaces, ConsumerStates
<1> QED
  BY <1>4 DEF SubInit, Ordered

(* Steps that neither put anything in the topic nor receive.                 *)
LEMMA OrderedKept ==
    ASSUME Ordered, UNCHANGED <<first, next, received, topic>>,
           thread' = "failed" <=> thread = "failed"
    PROVE  Ordered'
<1>1. ReadCount' = ReadCount
  BY DEF ReadCount
<1>2. ReadOf(ReadCount)' = ReadOf(ReadCount)
  BY <1>1 DEF ReadOf
<1> QED
  BY <1>1, <1>2 DEF Ordered

(* The topic grows behind what has been received.                           *)
LEMMA OrderedGrows ==
    ASSUME SubTyped, Ordered, UNCHANGED <<first, next, received, thread>>,
           NEW e, topic' = Append(topic, e)
    PROVE  Ordered'
<1>1. /\ Len(topic) \in Nat /\ Len(topic') = Len(topic) + 1
      /\ \A i \in 1..Len(topic) : topic'[i] = topic[i]
  BY DEF SubTyped
<1>2. CASE first = 0
  BY <1>2 DEF Ordered
<1>3. CASE first > 0
  <2>1. /\ ReadCount \in Nat /\ first \in Nat /\ first + ReadCount <= Len(topic) + 1
        /\ received = ReadOf(ReadCount)
        /\ \A i \in 1..ReadCount : CanRead(topic[first + i - 1])
    BY <1>3, OrderedCount DEF Ordered
  <2>2. ReadCount' = ReadCount
    BY DEF ReadCount
  <2>3. \A i \in 1..ReadCount : topic'[first + i - 1] = topic[first + i - 1]
    <3> TAKE i \in 1..ReadCount
    <3>1. first + i - 1 \in 1..Len(topic)
      BY <1>1, <1>3, <2>1
    <3> QED
      BY <1>1, <3>1
  <2>4. ReadOf(ReadCount)' = ReadOf(ReadCount)
    BY <2>2, <2>3 DEF ReadOf
  <2>5. /\ next \in first..(Len(topic') + 1)
        /\ thread = "failed" => next > first
    BY <1>1, <1>3 DEF Ordered
  <2>6. \A i \in 1..ReadCount : CanRead(topic'[first + i - 1])
    BY <2>1, <2>3
  <2>7. first' \in Nat /\ next' \in Nat
    BY DEF Ordered
  <2> QED
    BY <1>3, <2>1, <2>2, <2>4, <2>5, <2>6, <2>7 DEF Ordered
<1> QED
  BY <1>2, <1>3 DEF Ordered

(* A callback receives the next message of the topic, or passes it.          *)
LEMMA OrderedCalls ==
    ASSUME SubTyped, Ordered, Running, Available, Callback, UNCHANGED <<first, topic>>
    PROVE  Ordered'
<1> DEFINE e == topic[next]
           n == next - first
<1>1. /\ first \in Nat /\ next \in Nat /\ first > 0 /\ next \in first..Len(topic)
      /\ Len(topic) \in Nat /\ thread # "failed"
  BY DEF Ordered, Available, Running, SubTyped
<1>2. next' = next + 1 /\ next' \in first..(Len(topic) + 1) /\ next' > first
  BY <1>1 DEF Callback
<1>3. /\ n \in Nat /\ first + n = next /\ received = ReadOf(n)
      /\ \A i \in 1..n : CanRead(topic[first + i - 1])
  BY <1>1 DEF Ordered, ReadCount
<1>4. CASE CanRead(e)
  <2>1. thread' = "callback" /\ received' = Append(received, ReadAs(e))
    BY <1>4 DEF Callback, CanRead, ReadAs
  <2>2. ReadCount' = n + 1
    BY <1>1, <1>2, <2>1 DEF ReadCount
  <2> HIDE DEF n
  <2>3. /\ \A i \in 1..(n + 1) : i # n + 1 => i \in 1..n
        /\ first + (n + 1) - 1 = next
    BY <1>1, <1>3
  <2>4. Append(ReadOf(n), ReadAs(e)) = ReadOf(n + 1)
    <3>1. Append(ReadOf(n), ReadAs(e)) =
              [i \in 1..(n + 1) |-> IF i = n + 1 THEN ReadAs(e) ELSE ReadOf(n)[i]]
      BY <1>3 DEF ReadOf
    <3> QED
      BY <1>3, <2>3, <3>1 DEF ReadOf
  <2>5. ReadOf(ReadCount)' = ReadOf(n + 1)
    BY <2>2 DEF ReadOf
  <2>6. \A i \in 1..(n + 1) : CanRead(topic[first + i - 1])
    <3> TAKE i \in 1..(n + 1)
    <3>1. CASE i = n + 1
      BY <1>4, <2>3, <3>1
    <3>2. CASE i # n + 1
      BY <1>3, <2>3, <3>2
    <3> QED
      BY <3>1, <3>2
  <2> QED
    BY <1>1, <1>2, <1>3, <2>1, <2>2, <2>4, <2>5, <2>6 DEF Ordered
<1>5. CASE ~CanRead(e)
  <2>1. thread' = "failed" /\ received' = received
    BY <1>5 DEF Callback, CanRead
  <2>2. ReadCount' = n
    BY <1>1, <1>2, <2>1 DEF ReadCount
  <2> HIDE DEF n
  <2>3. ReadOf(ReadCount)' = ReadOf(n)
    BY <2>2 DEF ReadOf
  <2> QED
    BY <1>1, <1>2, <1>3, <2>1, <2>2, <2>3 DEF Ordered
<1> QED
  BY <1>4, <1>5

(* The subscription begins once, at the end of what is in the topic.         *)
LEMMA OrderedBegins == SubTyped /\ Ordered /\ Begin => Ordered'
<1> SUFFICES ASSUME SubTyped, Ordered, Begin PROVE Ordered'
  OBVIOUS
<1>1. /\ Len(topic) \in Nat /\ first = 0 /\ thread # "failed"
      /\ first' = Len(topic) + 1 /\ next' = Len(topic) + 1
      /\ UNCHANGED <<thread, received, topic>>
  BY DEF SubTyped, Begin, Running, publishing
<1>2. ReadCount' = 0
  BY <1>1 DEF ReadCount
<1>3. received = <<>>
  BY <1>1 DEF Ordered
<1>4. ReadOf(ReadCount)' = <<>>
  <2>1. ReadOf(ReadCount)' = [i \in 1..0 |-> ReadAs(topic'[first' + i - 1])]
    BY <1>2 DEF ReadOf
  <2> QED
    BY <2>1
<1> QED
  BY <1>1, <1>2, <1>3, <1>4 DEF Ordered

LEMMA PublisherOrdered == SubTyped /\ Ordered /\ Publisher => SubTyped' /\ Ordered'
<1> SUFFICES ASSUME SubTyped, Ordered, Publisher PROVE SubTyped' /\ Ordered'
  OBVIOUS
<1>1. UNCHANGED <<main, kind, thread, consumer, stopped, logged, first, next, received>>
  BY DEF Publisher, Put, Deliver, PutForeign, ClosePublisher, owner, consuming
<1>2. CASE Put
  <2>1. UNCHANGED topic
    BY <1>2 DEF Put
  <2>2. Ordered'
    BY <1>1, <2>1, OrderedKept
  <2>3. CASE UNCHANGED outbox /\ publisher' = "failed"
    BY <1>1, <2>1, <2>2, <2>3 DEF SubTyped
  <2>4. CASE ~(UNCHANGED outbox /\ publisher' = "failed")
    <3>1. PICK m \in Inputs :
             /\ Len(outbox) < MaxOutbox
             /\ outbox' = Append(outbox, [document |-> Serialise(m), message |-> m])
             /\ UNCHANGED publisher
      BY <1>2, <2>4 DEF Put
    <3>2. [document |-> Serialise(m), message |-> m] \in Entry
      BY DEF Entry
    <3>3. outbox' \in Seq(Entry) /\ Len(outbox') <= MaxOutbox
      BY <3>1, <3>2, InputsAssumption DEF SubTyped
    <3> QED
      BY <1>1, <2>1, <2>2, <3>1, <3>3 DEF SubTyped
  <2> QED
    BY <2>2, <2>3, <2>4
<1>3. CASE Deliver
  <2>1. /\ outbox # <<>> /\ topic' = Append(topic, Head(outbox)) /\ outbox' = Tail(outbox)
        /\ UNCHANGED publisher
    BY <1>3 DEF Deliver
  <2>2. Head(outbox) \in Entry /\ outbox' \in Seq(Entry) /\ Len(outbox') <= MaxOutbox
    BY <2>1, InputsAssumption DEF SubTyped
  <2>3. topic' \in Seq(Entry \cup Foreign)
    BY <2>1, <2>2 DEF SubTyped
  <2>4. SubTyped'
    BY <1>1, <2>1, <2>2, <2>3 DEF SubTyped
  <2> QED
    BY <1>1, <2>1, <2>4, OrderedGrows
<1>4. CASE PutForeign
  <2>1. PICK e \in Foreign : topic' = Append(topic, e)
    BY <1>4 DEF PutForeign
  <2>2. UNCHANGED <<outbox, publisher>>
    BY <1>4 DEF PutForeign
  <2>3. topic' \in Seq(Entry \cup Foreign)
    BY <2>1 DEF SubTyped
  <2>4. SubTyped'
    BY <1>1, <2>2, <2>3 DEF SubTyped
  <2> QED
    BY <1>1, <2>1, <2>4, OrderedGrows
<1>5. CASE ClosePublisher
  <2>1. UNCHANGED topic /\ publisher' = "closed"
    BY <1>5 DEF ClosePublisher
  <2>2. PICK nothing : nothing = <<>> /\ outbox' = nothing /\ Len(nothing) = 0
    BY <1>5 DEF ClosePublisher
  <2>3. outbox' \in Seq(Entry) /\ Len(outbox') <= MaxOutbox
    BY <2>2, InputsAssumption
  <2>4. SubTyped'
    BY <1>1, <2>1, <2>2, <2>3 DEF SubTyped
  <2> QED
    BY <1>1, <2>1, <2>4, OrderedKept
<1> QED
  BY <1>2, <1>3, <1>4, <1>5 DEF Publisher

LEMMA ThreadOrdered == SubTyped /\ Ordered /\ (Begin \/ Thread) => SubTyped' /\ Ordered'
<1> SUFFICES ASSUME SubTyped, Ordered, Begin \/ Thread PROVE SubTyped' /\ Ordered'
  OBVIOUS
<1>1. UNCHANGED <<main, kind, consumer, stopped, outbox, topic, publisher>>
  BY DEF Begin, Thread, Identify, KafkaLoop, KafkaReceive, KafkaTimeout, MqttReceive,
         CallbackEnds, owner, publishing
<1>2. thread' \in ThreadPlaces /\ logged' \in BOOLEAN
  BY DEF Begin, Thread, Identify, KafkaLoop, KafkaReceive, KafkaTimeout, MqttReceive,
         CallbackEnds, Callback, SubTyped, ThreadPlaces
<1>3. SubTyped'
  BY <1>1, <1>2 DEF SubTyped
<1>4. CASE Begin
  BY <1>3, <1>4, OrderedBegins
<1>5. CASE KafkaReceive \/ MqttReceive
  <2>1. Running /\ Available /\ Callback /\ UNCHANGED <<first, topic>>
    BY <1>1, <1>5 DEF KafkaReceive, MqttReceive
  <2> QED
    BY <1>3, <2>1, OrderedCalls
<1>6. CASE Identify \/ KafkaLoop \/ KafkaTimeout \/ CallbackEnds
  <2>1. /\ UNCHANGED <<first, next, received>>
        /\ thread # "failed" /\ thread' # "failed"
    BY <1>6 DEF Identify, KafkaLoop, KafkaTimeout, CallbackEnds
  <2> QED
    BY <1>1, <1>3, <2>1, OrderedKept
<1> QED
  BY <1>4, <1>5, <1>6 DEF Thread

LEMMA OwnerOrdered ==
    SubTyped /\ Ordered /\ (Main \/ Destroy) => SubTyped' /\ Ordered'
<1> SUFFICES ASSUME SubTyped, Ordered, Main \/ Destroy PROVE SubTyped' /\ Ordered'
  OBVIOUS
<1>1. /\ UNCHANGED <<kind, first, next, received, outbox, topic, publisher>>
      /\ thread # "failed" /\ thread' # "failed"
  BY DEF Main, Destroy, KafkaStart, RegisterThread, ReleaseThread, MqttStart, KafkaStop, Join,
         StopConsumer, Disconnect, StopLoop, Delete, Running, publishing
<1>2. /\ main' \in MainPlaces /\ thread' \in ThreadPlaces /\ consumer' \in ConsumerStates
      /\ stopped' \in BOOLEAN /\ logged' \in BOOLEAN
  <2> USE DEF SubTyped, MainPlaces, ThreadPlaces, ConsumerStates
  <2>1. CASE KafkaStart \/ RegisterThread \/ ReleaseThread \/ MqttStart
    BY <2>1 DEF KafkaStart, RegisterThread, ReleaseThread, MqttStart
  <2>2. CASE KafkaStop \/ Join \/ StopConsumer
    BY <2>2 DEF KafkaStop, Join, StopConsumer
  <2>3. CASE Disconnect \/ StopLoop \/ Delete
    BY <2>3 DEF Disconnect, StopLoop, Delete
  <2> QED
    BY <2>1, <2>2, <2>3 DEF Main, Destroy
<1>3. SubTyped'
  BY <1>1, <1>2 DEF SubTyped
<1> QED
  BY <1>1, <1>3, OrderedKept

(* The steps before there is a subscriber.                                  *)
LEMMA StartOrdered ==
    SubTyped /\ Ordered /\ (Acquire \/ Return \/ Access \/ UNCHANGED vars)
        => SubTyped' /\ Ordered'
<1> SUFFICES ASSUME SubTyped, Ordered, Acquire \/ Return \/ Access \/ UNCHANGED vars
             PROVE  SubTyped' /\ Ordered'
  OBVIOUS
<1>1. UNCHANGED <<thread, consumer, stopped, logged, first, next, received,
                  outbox, topic, publisher>>
  BY DEF Acquire, Return, Access, vars, subVars, consuming, publishing
<1>2. main' \in MainPlaces /\ kind' \in Kinds \cup {"none"}
  BY DEF Acquire, Return, Access, Proceed, Fail, vars, subVars, owner, SubTyped, MainPlaces, Kinds
<1>3. SubTyped'
  BY <1>1, <1>2 DEF SubTyped
<1> QED
  BY <1>1, <1>3, OrderedKept

LEMMA NextOrdered == SubTyped /\ Ordered /\ [Next]_vars => SubTyped' /\ Ordered'
<1> SUFFICES ASSUME SubTyped, Ordered, [Next]_vars PROVE SubTyped' /\ Ordered'
  OBVIOUS
<1>1. CASE Acquire \/ Return \/ Access \/ UNCHANGED vars
  BY <1>1, StartOrdered
<1>2. CASE SubNext
  BY <1>2, PublisherOrdered, ThreadOrdered, OwnerOrdered DEF SubNext
<1> QED
  BY <1>1, <1>2 DEF Next

LEMMA NextParsed == Parsed /\ [Next]_vars => Parsed'
<1> SUFFICES ASSUME Parsed, [Next]_vars PROVE Parsed'
  OBVIOUS
<1>1. CASE Acquire
  BY <1>1, ConsumedParsed, ReturnParsed DEF Acquire, CliNext
<1>2. CASE ~Acquire
  <2>1. UNCHANGED cliVars
    BY <1>2 DEF Next, Return, Access, vars
  <2> QED
    BY <2>1, IdleParsed
<1> QED
  BY <1>1, <1>2

-----------------------------------------------------------------------------
(* The Logger has what a command line asks for that is accepted, and no part *)
(* of one that is refused but for the scheduler, for any words and command    *)
(* lines of any length (command_line_interface.cpp:224-268).                *)
THEOREM SettingsAsAskedHolds == Spec => []SettingsAsAsked
<1>1. Init => Parsed
  BY InitParsed DEF Init
<1>2. Parsed /\ [Next]_vars => Parsed'
  BY NextParsed
<1>3. Parsed => SettingsAsAsked
  BY ParsedImpliesAsked
<1> QED
  BY <1>1, <1>2, <1>3, PTL DEF Spec

(* The variables keep their types, no more is received than was put, and a    *)
(* publisher's library holds no more than it can (kafka.hpp:73).            *)
THEOREM SubTypeCorrect == Spec => []SubTypeOK
<1>1. Init => SubTyped /\ Ordered
  BY InitOrdered DEF Init
<1>2. SubTyped /\ Ordered /\ [Next]_vars => SubTyped' /\ Ordered'
  BY NextOrdered
<1>3. SubTyped /\ Ordered => SubTypeOK
  BY SubTypedImplies
<1> QED
  BY <1>1, <1>2, <1>3, PTL DEF Spec

(* The callback gets the messages that OPERA programs put, as they were       *)
(* meant, each once and in order, for any messages and any number of them;   *)
(* of documents of other programs it is assumed that they mean what is read  *)
(* (kafka.hpp:116-126, mqtt.hpp:90-100, serialisation.cpp,                  *)
(* deserialisation.cpp).                                                    *)
THEOREM ReceivedInOrderHolds == ForeignAsRead => (Spec => []ReceivedInOrder)
<1> SUFFICES ASSUME ForeignAsRead PROVE Spec => []ReceivedInOrder
  OBVIOUS
<1>1. Init => SubTyped /\ Ordered
  BY InitOrdered DEF Init
<1>2. SubTyped /\ Ordered /\ [Next]_vars => SubTyped' /\ Ordered'
  BY NextOrdered
<1>3. SubTyped /\ Ordered => ReceivedInOrder
  BY OrderedImplies
<1> QED
  BY <1>1, <1>2, <1>3, PTL DEF Spec
=============================================================================
