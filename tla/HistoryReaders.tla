----------------------------- MODULE HistoryReaders ----------------------------
(***************************************************************************)
(* RobotHistory with the steps of acquire and the workers that read          *)
(* meanwhile.  The receiver's thread stores the samples of the mode that is   *)
(* left under _states_mux, adds the presence and its trace under             *)
(* _presences_mux, and writes the latest mode, the latest time and, in the    *)
(* purge, the presences and traces under no lock.  A worker obtains a        *)
(* reference to samples under _states_mux and copies what it refers to after  *)
(* the mutex is released (lookahead_job.cpp:160,195).                       *)
(*                                                                         *)
(* A read of the deque of presences, which takes no lock, is one step: of    *)
(* the outcomes of that data race the model keeps those in which it takes    *)
(* place before or after each write.                                       *)
(***************************************************************************)
EXTENDS RobotHistory

CONSTANT Readers    \* the worker threads

VARIABLES
    apc,        \* next statement of the receiver: a step of acquire, or "idle"
    msg,        \* the state that is acquired
    prior,      \* history: what the robot's history was before
    rpc,        \* each worker: "idle", "holding" a reference, a "dangling" one, or has
                \* read what is "freed"
    reading     \* the mode and time of its snapshot, and the entry referred to

acquiring == <<apc, msg, prior>>
readers == <<rpc, reading>>
readVars == <<history, acquiring, readers>>

Now == [presences |-> presences, states |-> states, latestMode |-> latestMode,
        latestTime |-> latestTime, buffer |-> buffer, traces |-> traces, failure |-> failure]

\* The history as of the last state that has been acquired completely.
Complete == IF apc = "idle" THEN Now ELSE prior

NoMessage == [mode |-> NoMode, place |-> NoMode, time |-> 0]
NoReading == [mode |-> NoMode, time |-> 0, entry |-> 0]

ReadInit ==
    /\ HistoryInit
    /\ apc = "idle" /\ msg = NoMessage /\ prior = Now
    /\ rpc = [w \in Readers |-> "idle"] /\ reading = [w \in Readers |-> NoReading]

-----------------------------------------------------------------------------
(* The steps of acquire.                                                    *)

Receive(m, p, t) ==
    /\ apc = "idle" /\ ~failure
    /\ msg' = [mode |-> m, place |-> p, time |-> t]
    /\ prior' = Now
    /\ apc' = CASE m = latestMode -> "time"
                [] latestMode = NoMode -> "presence"
                [] OTHER -> "store"
    /\ UNCHANGED <<history, readers>>

\* A vector that is full is moved when an entry is appended; it grows by doubling.
Full(entries) == \E k \in 0..Len(entries) : Len(entries) = 2^k

\* The samples that are stored, and the buffer that the mode entered begins with.
StoreIn(left) ==
    /\ apc = "store"
    /\ states' = left
    /\ buffer' = IF left[msg.mode] = <<>> THEN <<>> ELSE Last(left[msg.mode]).samples
    /\ rpc' = [w \in Readers |->
                  IF rpc[w] = "holding" /\ reading[w].mode = latestMode /\ Full(states[latestMode])
                  THEN "dangling" ELSE rpc[w]]
    /\ apc' = "presence"
    /\ UNCHANGED <<presences, latestMode, latestTime, traces, failure, msg, prior, reading>>

SamplesLeft ==
    [time |-> msg.time, samples |-> Pad(buffer, msg.time - EntryTime(latestMode, msg.time))]

\* Mutant: only the latest samples of a mode are kept.
StoreLatest == StoreIn([states EXCEPT ![latestMode] = <<SamplesLeft>>])

\* Mutant: the samples are put before those stored.
StoreFirst == StoreIn([states EXCEPT ![latestMode] = <<SamplesLeft>> \o @])

Store == StoreIn([states EXCEPT ![latestMode] = Append(@, SamplesLeft)])

\* Mutant: the trace is not extended.
AddPresenceOnly ==
    /\ apc = "presence"
    /\ presences' = Append(presences, PresenceLeft(msg.mode, msg.time))
    /\ apc' = "mode"
    /\ UNCHANGED <<states, latestMode, latestTime, buffer, traces, failure, msg, prior, readers>>

AddPresence ==
    /\ apc = "presence"
    /\ presences' = Append(presences, PresenceLeft(msg.mode, msg.time))
    /\ traces' = TraceLeaving(msg.mode, msg.time)
    /\ apc' = "mode"
    /\ UNCHANGED <<states, latestMode, latestTime, buffer, failure, msg, prior, readers>>

EnterMode ==
    /\ apc = "mode"
    /\ latestMode' = msg.mode
    /\ apc' = "time"
    /\ UNCHANGED <<presences, states, latestTime, buffer, traces, failure, msg, prior, readers>>

SetTime ==
    /\ apc = "time"
    /\ latestTime' = msg.time
    /\ apc' = "sample"
    /\ UNCHANGED <<presences, states, latestMode, buffer, traces, failure, msg, prior, readers>>

UpdateSample ==
    /\ apc = "sample"
    /\ buffer' = Sampled(presences, states, buffer, msg.mode, msg.place, msg.time)
    /\ apc' = "purge"
    /\ UNCHANGED <<presences, states, latestMode, latestTime, traces, failure, msg, prior, readers>>

\* The message has been handled, up to what JobLifecycle and LookAhead have.
Acquired == apc' = "idle" /\ msg' = NoMessage

PurgePresences ==
    /\ apc = "purge"
    /\ IF PurgeDue(msg.time, presences)
       THEN presences' = KeptPresences(msg.time, presences) /\ apc' = "traces" /\ UNCHANGED msg
       ELSE Acquired /\ UNCHANGED presences
    /\ UNCHANGED <<states, latestMode, latestTime, buffer, traces, failure, prior, readers>>

PurgeTraces ==
    /\ apc = "traces"
    /\ traces' = ReduceTraces(KeptTraces(msg.time, traces))
    /\ failure' = (presences = <<>> \/ KeptTraces(msg.time, traces) = <<>>)
    /\ Acquired
    /\ UNCHANGED <<presences, states, latestMode, latestTime, buffer, prior, readers>>

-----------------------------------------------------------------------------
(* A worker that reads samples.  The snapshots asked for are of times at      *)
(* which jobs began: a state had been acquired by then.                      *)

LookUp(w, m, s) ==
    /\ rpc[w] = "idle" /\ ~failure
    /\ s <= Complete.latestTime /\ HasSamplesAt(m, s)
    /\ rpc' = [rpc EXCEPT ![w] = "holding"]
    /\ reading' = [reading EXCEPT ![w] = [mode |-> m, time |-> s, entry |-> LastUpTo(states[m], s)]]
    /\ UNCHANGED <<history, acquiring>>

\* The reference is followed; what it refers to may have been moved and freed.
Copy(w) ==
    /\ rpc[w] \in {"holding", "dangling"}
    /\ rpc' = [rpc EXCEPT ![w] = IF rpc[w] = "dangling" THEN "freed" ELSE "idle"]
    /\ reading' = [reading EXCEPT ![w] = NoReading]
    /\ UNCHANGED <<history, acquiring>>

-----------------------------------------------------------------------------
AcquireStep ==
    \/ Store \/ AddPresence \/ EnterMode \/ SetTime \/ UpdateSample
    \/ PurgePresences \/ PurgeTraces

\* The broker delivers the states of a robot in order.
ReceiveNext ==
    \E m \in Modes : \E p \in Places[m], gap \in Gaps :
        /\ latestMode = NoMode => m \in FirstModes
        /\ latestTime + gap <= MaxTime
        /\ Receive(m, p, latestTime + gap)

ReadNext ==
    \/ ReceiveNext
    \/ AcquireStep
    \/ \E w \in Readers, m \in Modes, s \in 0..MaxTime : LookUp(w, m, s)
    \/ \E w \in Readers : Copy(w)

ReadSpec == ReadInit /\ [][ReadNext]_readVars

-----------------------------------------------------------------------------
Atomic == INSTANCE RobotHistory WITH
    presences <- Complete.presences, states <- Complete.states,
    latestMode <- Complete.latestMode, latestTime <- Complete.latestTime,
    buffer <- Complete.buffer, traces <- Complete.traces, failure <- Complete.failure

(* The steps add up: seen when no state is being acquired, the history is the *)
(* one of RobotHistory, whose Acquire is a single step (state.cpp:220-305,   *)
(* runtime_io.cpp:111-117).                                                 *)
ImplementsHistory == Atomic!HistorySpec

(* Workers ask while a state is being acquired.  No step of it, under a lock  *)
(* or not, changes what is answered for a time before that of the state: not*)
(* the samples, when others have been stored already, nor the mode, when the  *)
(* presence that ends it is there and the next mode is not yet the latest    *)
(* (state.cpp:235-284, 317-415).  The purge, after it, is another matter.    *)
AnswersStable ==
    [][apc \notin {"idle", "purge", "traces"} =>
          \A s \in Past : s <= prior.latestTime /\ s < msg.time =>
              ObservedAt(s)' = ObservedAt(s)]_readVars

(* A reference that has not been invalidated refers to the samples that its   *)
(* snapshot would find now, however many states are acquired before it is     *)
(* followed, as long as no two of them have the same time (state.cpp:145-151,*)
(* 333-336).                                                                *)
HeldIsSnapshot ==
    0 \notin Gaps =>
        \A w \in Readers : rpc[w] = "holding" =>
            reading[w].entry = LastUpTo(states[reading[w].mode], reading[w].time)

(* What state.hpp:202 says of RobotStateHistorySnapshot: "A wrapper class for *)
(* a snapshot of the history at a given time".  What is read through it is    *)
(* the history's, never memory that has been freed.                         *)
NoFreedRead == \A w \in Readers : rpc[w] # "freed"
==============================================================================
