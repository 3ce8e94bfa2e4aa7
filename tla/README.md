# TLA+ specifications of opera

Opera is a runtime that listens to the states of humans and robots, predicts where each robot
will move from the modes it has been through (*look-ahead*), and publishes a notification for every
predicted collision of a human segment with a robot segment. This directory holds the TLA+
modules that model it, the TLC configurations that check them and the TLAPS proofs about them.
Paths below are relative to the repository.

Contents: 1 the system, 2 the modules and the code, 3 the runs, 4 fairness, 5 the proofs,
6 what was found, 7 what is not modelled, 8 what is left.

## 1. The system

### Components

| Component | State it keeps | Operations | Module |
|---|---|---|---|
| `SynchronisedQueue` (`include/synchronised_queue.hpp`) | `_queue`, `_num_reserved`, `_mux`, `_callback` | `enqueue`, `dequeue`, `reserve`, `can_reserve`, `size` | `WorkerPool`, `Sender` |
| `Runtime` (`src/runtime.cpp`) | waiting and sleeping queues, `_availability_mutex` and condition, `_stop`, `_num_processing`, threads | worker loop, `_process_one_working_job`, destructor | `WorkerPool` (threads), `JobLifecycle` (jobs), `LookAhead` (results) |
| `RuntimeReceiver` (`src/runtime_io.cpp`) | `_pending_human_robot_pairs`, `_pairs_mux`, `_state_received_mux` | presentation, human-state and robot-state callbacks; purge, removal, awakening, promotion | `Registration` (bodies, pairs), `JobLifecycle` (jobs), `LookAhead` (results) |
| `RuntimeSender` (`src/runtime_io.cpp`) | queue of notifications, `_stop`, publisher, thread | `put`, the sending loop, destructor | `Sender` |
| `LookAheadJob` (`src/lookahead_job.cpp`) | initial and snapshot time, human sample, trace, path, barriers | `earliest_collision_index`, the path's operations | `LookAhead`, `JobPaths` |
| `LookAheadJobFactory` (`src/lookahead_job_factory.cpp`) | the job registry (reuse only) | `create_new`, `create_next`, `awaken`, `has_registered` | `LookAhead`; `JobLifecycle` with the outcomes abstracted |
| `LookAheadJobRegistry` (`src/lookahead_job_registry.cpp`) | entries by timestamp, a tree of paths per job identifier, a mutex at each of three levels | `try_register`, `has_registered` | `JobRegistry`; atomic in `JobLifecycle`, `LookAhead` |
| `BodyRegistry` (`src/body_registry.cpp`) | humans and robots with their histories, `_content_mux` | `insert*`, `remove`, `acquire_state`, lookups | `Registration`, `JobLifecycle` |
| `RobotStateHistory` and its snapshots (`src/state.cpp`) | mode presences, samples by mode, the buffer of the present mode, mode traces | `acquire`, `remove_older_than`, the queries of a snapshot | `RobotHistory`; `HistoryReaders` with its steps and locks |
| `HumanStateHistory` (`src/state.cpp`) | instances by time | `acquire`, `remove_older_than`, lookups | `JobLifecycle` (with purge), `LookAhead` |
| `Mode`, `ModeTrace` (`src/mode.cpp`) | values by variable; a sequence of modes | comparisons; `merge`, `next_modes`, `has_looped`, `reduce_between` | `ModeValues`, `ModeTraces` |
| Barrier sequences (`src/barrier.cpp`, `src/trace_sample_range.cpp`) | sections of barriers with their ranges | `check_and_update` of three policies, `reset` | `Barriers` |
| Bodies and geometry (`src/body.cpp`, `src/geometry.cpp`) | samples with head, tail, error, bounding sets | `update`, `intersects`, distances | `Segments` (one axis) |
| Messages and JSON (`src/message.cpp`, `src/serialisation.cpp`, `src/deserialisation.cpp`) | none | conversions to a document and back | `Messages` |
| Memory broker (`include/memory.hpp`) | a list of messages per topic, `_next_index` per subscriber | `put`, `get`, `size`, `clear`, the subscriber's loop | `MemoryBroker` |
| Kafka and MQTT brokers (`include/kafka.hpp`, `include/mqtt.hpp`) | client handles, `_stopped`, the thread | publishers' `put` and destructor, subscribers' construction, loop, callback, destructor | `Subscription` |
| `Thread` (`src/thread.cpp`) | promises of the start | start, join | `Subscription` (with the promises), others (start, join) |
| Command line (`src/command_line_interface.cpp`) | the words left, parsers, settings | `acquire` | `CommandLine` |
| `operad`, `BrokerAccessManager` | the access to the broker | choice of the access, construction of a subscriber | `Daemon` |
| `RuntimeConfiguration` | plain values | setters | none (section 7) |

### How they interact

- A broker's subscribers each run a thread that reads messages and calls the receiver back. The
  two state callbacks exclude each other by `_state_received_mux`; the presentation callback takes
  no lock.
- A state callback registers unknown humans (human states only), adds the state to the histories of
  the `BodyRegistry`, purges old states, removes the humans that have been silent for
  `HUMAN_RETENTION_TIMEOUT` together with their pairs and sleeping jobs, drains the sleeping queue,
  asks the factory what becomes of each job, refills the sleeping and the waiting queue, and turns
  pending human-robot pairs into jobs as soon as there is enough history.
- The waiting queue's callback notifies the condition on which the workers wait. A worker reserves
  a job inside the predicate of its wait, dequeues it outside of it, searches for a collision, and
  puts a notification with the sender and the job to sleep, or enqueues the next jobs.
- The factory that reuses results registers every path of a job in the job registry, from the
  receiver's thread; workers ask the registry before they enqueue a next job.
- The sender's thread waits for notifications on a condition of its own and publishes them.
- The destructor of `Runtime` sets `_stop`, notifies and joins the workers.

### What is hard

- Waiting: the predicate has side effects (a reservation, a counter), notifications are sent
  without the mutex of the wait, the stop flags are set without it.
- Check then act: `can_reserve`/`reserve`, `has_human`/`enqueue`, `has_registered`/`enqueue`,
  `size`/`get`, `contains`/`insert`, each under two acquisitions of a lock or under none.
- Sharing: the pairs are written under a lock by one thread and without it by another; pointers into
  the job registry are used after its mutex is released.
- Protocol: jobs are dropped on purpose in three places and created in four, and must still cover
  every pair; timestamps of different bodies are not ordered; humans leave and come back; what a
  purge drops may still be referred to.

### What makes the components correct

- Queue and pool: each job runs once, in order of arrival; a dequeue never finds the queue empty;
  the counters are exact; the pool stops when it is told to.
- Jobs: a promoted pair never runs out of jobs, nor is the same job run twice; no job outlives the
  removal of its human; the assertions that awakening and promotion rely on hold.
- Results: a job that reuses barriers finds what a search of all samples finds; a job that is
  awakened continues on a trace, a path and barriers that agree with each other.
- History: what readers are answered about the past does not change while a state is acquired;
  traces are the way the robot went; where one may look ahead there are samples to search and modes
  to go on to.
- Registration: every pair of a registered human and a registered robot is pending or promoted,
  once.
- Sender and brokers: everything is delivered once, in order and as it was meant; destruction ends
  and leaves no thread that uses what it has deleted.
- Job registry: calls are atomic; timestamps are unique.
- Command line: a setting is the one asked for, each at most once, in any order of the options.

## 2. The modules and the code

Every module names the source lines of its properties in comments; `PROJECT.json` maps every
definition that models code to its lines.

| Module | Models | Composition |
|---|---|---|
| `WorkerPool` | worker loop, waiting queue, availability mutex and condition, receiver's enqueue, destructor | refines `JobPool` |
| `JobPool` | what the pool promises: first in, first out, one job per slot | |
| `JobLifecycle` | receiver's state callbacks and the processing of jobs, with histories, factory and job registry | abstracts the pool to `Take` and the registry to one step |
| `Registration` | the three callbacks as far as bodies and pairs go | abstracts histories to "has had a state" |
| `Sender` | `RuntimeSender` | refines `NotificationChannel` |
| `NotificationChannel` | what the sender promises: what is published is a beginning of what was accepted | |
| `JobRegistry` | `LookAheadJobRegistry` and its three mutexes | refines `JobRegister` |
| `JobRegister` | an atomic set of registered paths | |
| `RobotHistory` | the robot's history, its snapshots, the whole handling of a robot state with the purge | extends `ModeTraces` |
| `HistoryReaders` | the steps of `acquire` and of the purge, the workers that read samples meanwhile | extends and refines `RobotHistory` |
| `ModeTraces` | traces of modes, `next_modes` with its reference definition `Successors` | |
| `ModeValues` | the values of `Mode`, `operator==` and `operator<` | |
| `Barriers` | ranges, barriers, sections, the three update policies, `reset` | parameterised by distances |
| `Segments` | samples, boxes, capsule and sphere distances along one axis | gives `Barriers` its distances in `MCLookAhead` |
| `JobPaths` | paths of jobs | |
| `Choosing` | what a loop keeps of a list, in order | used by `JobPaths`, `Barriers`, `LookAhead` |
| `LookAhead` | the receiver, the factory and the workers as far as results go: search, next jobs, awakening, promotion | extends `RobotHistory`, `Barriers`, `JobPaths`, `ModeValues` |
| `MemoryBroker` | one topic, its subscribers and their threads | |
| `Messages` | messages, their documents, what cannot be converted | |
| `Subscription` | a Kafka or MQTT publisher and subscriber, with its thread | extends `Messages` |
| `CommandLine` | the acquisition of the command line | |
| `Daemon` | a program from its command line to the end of its subscriber | composes `CommandLine`, `Subscription` |
| `MC*` | the instances for TLC: symmetry and small sets | extend the modules |
| `*Proofs` | theorems and proofs | extend the modules |

**Grain of steps.** An operation that holds a lock from its first to its last access is one step. The
code between two operations is split wherever another thread can observe or change what it touches.
In `WorkerPool` and `Sender` the labels of `pc` are the points between two acquisitions: the wait is
`lock`, then the predicate (`test`, `count`, `reserve`, `decide`), then `block` if it was false,
`blocked` once in the wait set, and `lock` again when woken, by a notification or spuriously. A
notification that arrives between the predicate and the wait set changes nothing: lost wakeups are
behaviours of the model. The loops of the receiver over the pending pairs and over the sleeping
queue (removal, promotion, awakening) take one element per step, in `Registration` and in
`JobLifecycle`: workers run between any two of them, and the proofs need no fold over a sequence.
`_stop` is a plain `bool` that is written without a lock; of this data race
the model keeps the outcomes in which the write takes place before or after each read.

**Data.** Jobs of the pool, notifications and messages of the memory broker are the ranks of their
submission, which is all that order and uniqueness need. In `JobLifecycle` a job is its human, its
initial time and the priorities along its path; there is one robot and one segment per body, since
jobs of different identifiers meet only in the queues and in the timestamps of the registry, for
which there are several humans. The outcome of the search, the next modes, the reset of barriers and
the times from which a robot can be looked ahead are nondeterministic there (`NextPaths`,
`AwakenedPaths`, `ahead`), and so is whether a lookup in the robot's history fails where it can
(`AwakenMisses`, `SearchFails`: after a purge, with two states of one time, or under the weak
equivalence): `LookAhead` computes them.

**Two views of a job.** `JobLifecycle` has every interleaving and no data, `LookAhead` all of the
data and coarse steps: handling a message is two steps (its state is acquired; jobs are awakened and
the pair is promoted), a worker's search is one. That a search does not see states acquired
meanwhile is not taken for granted: `AnswersStable` of `HistoryReaders` says it of every step of
`acquire`. What the coarse steps leave out between check and act is what `JobLifecycle` has.

**Presentations.** The callback of the presentation topic takes no lock. In `Registration` and
`JobLifecycle` it has three steps: the body is found not to be registered, its pairs are pushed, it
is inserted (`src/runtime_io.cpp:42,44,46`). Steps of a state callback may come between (`Overlap`);
in the loops that end by assigning the pairs, a pair pushed meanwhile is overwritten. `overlapped`
remembers that the two kinds of callbacks have overlapped: the properties are of behaviours until
then, since what the code does after it is wrong (section 6).

**Readers of the history.** `HistoryReaders` splits `acquire` where it takes or releases a lock,
and between the members it writes under none: the samples stored under `_states_mux`, the presence
and its trace under `_presences_mux`, the latest mode, the latest time, the buffer, the presences
purged, the traces purged. A worker's `samples` returns a reference under the mutex, which it
copies from after the release; in between `append` may move the vector of entries (`Full`: its
capacity, which doubles, is used up), and the reference dangles. Of the data race on
`_mode_presences`, which readers go through without a lock, the model keeps the outcomes in which
the read takes place before or after each write; a write makes an iterator over the deque invalid,
the rest of that race is undefined. The reference that `mode_trace` returns is not modelled:
appending to a deque leaves it valid, and only a purge, whose effects on readers are section 6's,
ends it. Every message has a point for each keypoint of the robot, as `acquire` asserts first
(`src/state.cpp:231`).

**The history.** All segments of a robot are sampled by the same messages, so one segment stands for
them. A sample is the set of points merged into it. Times are whole units, `Step` of them a sample.
An entry of a mode exists only once it has been left; the present mode has a buffer. The search for
a presence skips the first of the deque, as the code does.

**Barriers.** Positions in a trace and samples count from 0 as in the code. The bisection of
`_reuse_element`, the rounds of `next_modes`, the search of the samples and the awakening of the
sleeping jobs are recursive functions; a loop that keeps some of the entries of a list is
`EntriesAt`, given by the ranks of the places kept. `increase_trace_index` compares
with the maximum it has itself increased and makes half of its steps; the model has that, and
`CheckEndsAtSample` shows it to be conservative.

**Geometry.** `Segments` has points on one axis, lengths in halves of their unit since a centre is
the mean of two bounds. Bounding boxes and spheres kept by a sample are recomputed with every update
and so are functions of its bounds. `DistanceAssumption` of `Barriers`, the triangle inequality, is
what `CapsuleTriangle` and `SphereTriangle` prove of them; `MCLookAhead` checks, by an `ASSUME`,
that the tables it gives to TLC are the distances of `Segments`.

**Modes.** `operator==` asserts that two modes have a variable on which they differ or are equal.
That all modes of a robot are comparable (`CanCompare`) is an assumption of `LookAhead` which nothing
in the code ensures; the comparisons with the empty mode are guarded wherever they occur.

**Brokers of other processes.** The broker and the client libraries are external: a publisher's
library holds what it has not sent, up to `MaxOutbox`; the broker appends to the topic; the answer
to the subscription fixes the first message. A message is what a program can have constructed
(`IsMessage`: lists, coordinates that are numbers, a thickness for every segment, without which no
`Body` can be made of it). `main` is the place of the thread that owns the
subscriber, `thread` that of the one that calls back. `StopLoop` ends the MQTT thread at any of its
places because `mosquitto_loop_stop` is told to force. What happens at the broker before the program
has access to it is left out (a bound). JSON text is identified with the document it parses into.

**The end of the program.** An assertion, precondition or map access that fails throws out of a
thread's task. `JobLifecycle` and `Registration` record it in `failure` and take no further step.

**Histories and the purge.** `HumanState` adds the instance and then purges as
`_remove_old_history` does: unsigned timestamps wrap (`Minus`), and an empty history fails the
precondition of `earliest_time`. `RobotPurge` is a robot state that triggers the purge: afterwards
other times can be looked ahead from, a snapshot may precede the first mode trace (`SearchFails`,
and the same in `Awaken`), and the front of an empty deque may be read. Robot states are taken to
arrive in the order of their timestamps, which `RobotStateHistory::acquire` relies on throughout.

**History variables.** `since` and `astray` (a job in `LookAhead`: whether the robot has gone
elsewhere since the barriers were made), `purged`, `tied`, `everRemoved` and `overlapped`
(`JobLifecycle`), `ever` and `overlapped` (`Registration`), `prior` (`HistoryReaders`), `cleared`,
`since` and `received` (`MemoryBroker`) and `sent` (`Sender`) record what happened; no guard of the
model reads them, except that `everRemoved` implements the bound `Returns`, that `purged` and
`tied` tell whether a lookup in the robot's history can fail, and `ever` whether the creation of a
job can be refused.

## 3. The runs

All runs are exhaustive within their bounds.

| Run | Expected | Question |
|---|---|---|
| `pool_jobs` | pass | Do reservations, counters and queue stay consistent, is the pool first in, first out with one job per worker, is every next job taken? |
| `pool_stop` | violation | Does the destructor stop the workers? |
| `jobs_lifecycle` | pass | Does a promoted pair keep its jobs, without running one twice, with each factory, while humans are removed and histories purged? |
| `pairs` | pass | Is each pair pending or promoted exactly once while bodies come, go and return? |
| `sender` | pass | Are notifications published once, in order, even though wakeups can be lost? |
| `registry` | pass | Are the calls of the job registry atomic? |
| `broker` | pass | Does a subscriber of the memory broker get each message once, in order, and can it be destroyed? |
| `history` | pass | Are traces the way the robot went, is there always something to look ahead to, and which robots lose their history? |
| `history_readers` | pass | Do the steps of `acquire` add up, and what do they change for those who read meanwhile? |
| `lookahead` | pass | Does reusing find what discarding finds, with every factory, while the history grows? |
| `strong_reuse` | violation | Is the strong equivalence strict? |
| `daemon` | pass | Do settings, messages and destruction come out right for a program with a Kafka or an MQTT subscriber? |

**`pool_jobs`**: 3 workers, 3 jobs, at most 2 next jobs each, from the receiver or from workers, and
the destructor at any time. Three workers are the fewest with one inside the predicate, one about to
dequeue and one waiting; three jobs let the queue hold one that is reserved, one that is not and one
being enqueued. `NextJobsTaken`: a job that a worker enqueues is taken although its notification may
be lost, because that worker comes back to the queue. The same does not hold of a job that the
receiver enqueues (section 6). Deadlock is not checked: an idle pool waits for messages.

**`jobs_lifecycle`**: 1 human, 2 workers, timestamps {2, 5}, retention 2 or 3, purge period 0, the
discarding, the weak and the strong factory, messages in any order of timestamps, humans removed
after any silence, one branching. A human can then have two instances, be awakened once on either
side of a branching that two workers work on, and be removed at every step in between. With
retention 2 the state at 5 purges the one at 2, with 3 it does not; a message at 2 after one at 5
is older than a retention of 3, so that the subtraction wraps. `NeverOrphaned` and `OnePrimary` say
that dropping and discarding jobs never leaves a promoted pair without jobs, `RunOnce` that two
jobs that wait or run are different, `PairsSound` that no stale pair remains of a removed human.
`SafeWithoutRemoval` says which assertions cannot fail while no human has been removed, and of
those that can, what the cause is: a purge, two states of a robot at one time, the weak
equivalence, or a timestamp below the retention. All but `TypeOK` speak of behaviours until a
presentation overlaps a state callback. Whether callbacks have overlapped is a history variable
that never falls back, so that `Overlap = FALSE` has exactly the states that these properties speak
of: with `Overlap = TRUE` all six hold as well, over 62 million states, which takes half an hour. A
removed human does not come back here (`Returns`); in `pairs` it does. Deadlock is not checked:
timestamps run out.

**`pairs`**: 3 humans, 2 robots, at most 6 pending pairs when a callback starts, and humans that
are removed and return. `EachPairOnce` and `PromotionSafe` are stated of behaviours until callbacks
overlap, with robots presented before humans; with `Overlap = FALSE` the run has exactly these. Two
bodies of each kind are needed for a removal that keeps one pair and drops another, three humans
for a third that is registered by the same message. `PromotionSafe`: until then every lookup of the
promotion finds its body, and a creation is refused for two reasons only: a returning human has the
timestamp of a pair promoted in its former life (`src/lookahead_job_factory.cpp:89`), or the
timestamp lies before one registered (`src/lookahead_job_registry.cpp:126`), both of which the
model leaves open whenever they can be met.

**`sender`**: 3 workers, 4 puts. Two workers can notify in any order while a third puts.
`ImplementsChannel` maps the sequences, of what was accepted and of what was published: none is left
out, repeated or overtaken. `NotifiedIsSent` is what remains true of the wait although notifications
can be lost: a put that finds the thread blocked gets everything queued published.

**`registry`**: 2 threads, 2 timestamps, 1 identifier, a root path, its child and its grandchild.
Two threads are enough for every pair of overlapping calls, three nested paths for a rejection by an
ancestor. Identifiers do not meet in the code; the proof covers any number of them.

**`broker`**: 2 subscribers, 3 messages, construction, destruction and clear at any time.

**`history`**: 3 modes, up to symmetry, times to 10, a sample every 2 units, messages 1, 2 or 3
units apart, so that samples get several points, one, or none, and a purge after 6 units. In three
modes a robot can branch and go round; the bound lets it come back to its first mode with history
from before and after a purge. `OnlyStillRobotEmptied`: the purge leaves nothing only to a robot that
has not changed its mode for longer than the retention. That it then happens is
`PurgeLeavesPresence` in section 6.

**`history_readers`**: 2 modes, times to 8, gaps of 1 and 3, a purge after 4, one reader. The
vector of a mode's entries has to be moved between the lookup and the copy, which one reader and
the second entry of a mode show. `ImplementsHistory`: seen between two messages the steps are the
single step of `RobotHistory`, on which `LookAhead` is built. `AnswersStable`: none of them changes
the mode or the samples that are found for a time before that of the message, although a presence
is there before the latest mode is set. `HeldIsSnapshot`: a reference that is still valid refers to
what its snapshot would find. That a reference can become invalid is `NoFreedRead` in section 6.

**`lookahead`**: 3 modes of which one is seen at two points, a robot state per unit to time 6,
human states from time 5 at two points or empty, and the discarding, the weak and the strong
factory with two of the three update policies (to keep the run short; with the third, `keep one`,
in `MCFactories` it passes as well). By time 5 a robot may have gone round or branched, and time 6
awakens what was promoted at 5. No purge happens within the bound: `history` has it.
`ReuseEquivalent` compares, for every waiting job that reuses, the search with barriers to the
search of all samples, and asks that what the barriers cover is free of collisions.
`BarriersOrdered`, `PathsMatchTraces`, `StrongNeverFails` and `NotificationInRange` are what the
bisection, the paths, the assertions and the unsigned arithmetic of the notification rely on.
`strong_reuse` has times to 5 with human states from 2, which lets the robot go another way than
the trace of a job between two awakenings; such jobs are left out of `ReuseEquivalent` (`astray`),
and under the weak equivalence those whose mode at the start has been left and entered again.

**`daemon`**: command lines of up to 4 of 9 words (short and long names, values, a value of another
option, an unknown word, the help, which is never accepted); messages of all types and one that
cannot be read back, a document of another program with a point that is not seen, up to 3 messages,
a library that holds 1; each broker, access configured or not. Four words let an option
be given twice, the case in which `SettingsAsAsked` matters. Three messages can be before, between
and after the subscription and the destruction.

**Deadlock** is not checked anywhere: every instance stops when its bounded messages have run out or
its program has ended; where an end is owed, a liveness property says so.

## 4. Fairness

Liveness is stated where the code's scheduling gives it, with weak fairness only:

- `WorkerPool`: every step of a worker, the notification that follows an enqueue of the receiver, and
  the destructor once it has started. The operating system runs threads that can run. Messages,
  the destruction and spurious wakeups are owed by nobody.
- `Sender`: the notification that follows a `put`, the thread, the destructor once started.
- `MemoryBroker`: the threads of the subscribers and a started join. Puts, clears, constructions and
  destructions are owed by nobody. `DestructorEnds` holds because puts are bounded: the
  subscriber's inner loop looks at the exit promise only when it has read the list to its end, so a
  publisher that never pauses can keep the destructor waiting.
- `Daemon`: the owner's steps of construction and of destruction once started (`Main`), and the
  thread (`Thread`): the consumer waits for a message for 1 ms at most, and callbacks are taken to
  end. Publishing, the broker's answers, the beginning of destruction and the command line are owed
  by nobody. `DestructorEnds` needs no bound on messages here: the flag is read after every
  message.

A mutex is acquired by a step that is enabled while it is free. Weak fairness does not promise it to
a particular thread; no liveness property here needs that.

## 5. The proofs

`tlapm` proves the following for every value of the constants. The only assumptions are those named
in the modules: `NoOneAssumption`; `WorkersAssumption` and `LifecycleAssumption`, that threads and
humans are finitely many and that the names of the queues are not names of workers;
`DistanceAssumption`, the triangle inequality; `InputsAssumption`, that what a program publishes is
what it can have constructed; `BoundsAssumption` and the like, that bounds are natural numbers.
`ReceivedInOrderHolds`, `RobotOfPairRegisteredHolds`, `StrongNeverFailsHolds` and
`NotificationInRangeHolds` state hypotheses more, described below.

| Module | Theorems |
|---|---|
| `WorkerPoolProofs` | `Invariance`, `TypeCorrect`, `Reservations`, `DequeueIsSafe`, `JobsTakenOnce`, `ProcessingIsExact`, `JoinIsQuiet`, `PoolImplementsJobPool` |
| `JobLifecycleProofs` | `Invariance`, `TypeCorrect`, `NeverOrphanedHolds`, `OnePrimaryHolds`, `RunOnceHolds`, `SafeWithoutRemovalHolds`, `PairsSoundHolds` |
| `RegistrationProofs` | `Invariance`, `TypeCorrect`, `EachPairOnceHolds`, `PromotionSafeHolds`, `RobotOfPairRegisteredHolds` |
| `DeliveryProofs` | of the sender `Invariance`, `TypeCorrect`, `DequeueIsSafe`, `SentInOrder`, `SenderImplementsChannel`; of the memory broker `MemoryInvariance`, `MemoryTypeCorrect`, `NeverBackwardsHolds`, `NoneSkippedHolds` |
| `JobRegistryProofs` | `Invariance`, `SearchesAgree`, `PointersStayValid`, `RegistryIsAtomic` |
| `DaemonProofs` | `UsesLiveAlways`, `SubTypeCorrect`, `ReceivedInOrderHolds`, `SettingsAsAskedHolds` |
| `PartsProofs` | of barriers `CheckedSampleIsClear`, `CheckKeepsNearing`, `CheckEndsAtSample`, `ReuseElementIsLast`; of segments `MergingIsUnordered`, `CapsuleContainsPoints`, `IntersectsIffNoDistance`, `CapsuleTriangle`, `SphereTriangle`; of modes `LessThanIsStrictOrder`, `KeysAreEqualModes`; of the robot's history `HistoryInvariance`, `HistoryTypeCorrect`, `TracesMatchPresencesHolds`, `SamplesCoverHolds`, `NextModesAreSuccessors`, `NextModesExistHolds`; of its readers `AnswersStableHolds`, `HeldIsSnapshotHolds` |
| `LookAheadProofs` | `JobsInvariance`, `LookAheadTypeCorrect`, `BarriersOrderedHolds`, `PathsMatchTracesHolds`, `SoundInvariance`, `StrongNeverFailsHolds`, `NotificationInRangeHolds` |

**Jobs.** The inductive invariant of `JobLifecycle` has five parts, of which all but `Typed` are
claimed until callbacks overlap. A presentation between its steps is part of them: the pair is
pending while the human is not registered yet (`Presented`), and nothing is promoted then, since
without an overlap no state callback runs.

- `Typed`: besides `TypeOK`, that lists are lists of jobs, that a worker has a job exactly while it
  is not idle, and which of the receiver's local lists can be in use at which of its statements.
- `Owned`: pairs, jobs and registrations belong to humans that were promoted, or removed since; what
  is being filtered belongs to humans that are registered or have just been removed.
- `Timely`, while nobody has been removed: a job's human has an instance at the job's time, unless a
  purge has taken it, and all its instances are later then.
- `Alive`: from every path that is registered there is a job at or beyond it, in a queue, with a
  worker, or in a list of the receiver; with the discarding factory, a primary job for every promoted
  human. `NeverOrphaned` alone is not inductive, because a worker may drop a next job on
  account of a registration: what matters is that somebody else has a job beyond it. `Sure` are
  the jobs that are not about to be dropped in this way.
- `Separate`: `Rooted`, a job to be run has a beginning of its path registered; `Apart`, between two
  jobs of which one continues the other a path is registered that tells them apart; of two places
  (`Counted`: both queues, the receiver's lists, each worker) no two jobs are the same. `RunOnce`
  follows.

A step that moves a job from one place to another (`Takes`, `Leaves`, `Passes`, `Spawns`,
`Enqueues` in the proofs) is shown to keep the two last parts once and for all; each action is then
one of these. Paths are compared by their prefixes; the lemmas about them are at the beginning of the
module.

**Pairs.** `EachPairOnce` speaks of the time between callbacks only. `Exact` says what holds at each
of their places: pairs at hand are those pending or, in a loop, those kept and those left; the pairs
of a body that is being pushed are there as far as its loop has come; those of removed humans are
there until they have been filtered. `RobotOfPairRegisteredHolds` is about overlapping callbacks too,
under the condition `RobotsFirst`.

**Worker pool.** The invariants are not inductive by themselves. `DequeueSafe` needs that a worker
at the dequeue has a reservation (`HoldsWhere`) and that reservations are backed by jobs
(`ReservationsBacked`). That in turn needs that the job seen by `can_reserve` is still free at
`reserve` (`StillFree`), which holds because both are inside the predicate and only one worker is
there (`Critical`, `MutexHeld`). A worker that leaves the wait without a reservation leaves because
of `_stop`. `ProcessingExact` counts a set of workers; the lemmas `Enters` and `Leaves` turn a change
of a worker's place into a change of a cardinality. The refinement follows with `TakenOnce` and
`JobWhere`: a dequeue is `Start`, an enqueue is `Submit`, the end of a job is `End`, every other step
stutters.

**Sender.** `Control` says that the thread, the only consumer, finds at the dequeue what its
predicate saw, although it reserves outside of it. `InOrder` is inductive with it, and puts what is
published, what is being published and what is queued into one sequence, that of the notifications
accepted: every publication is then the next step of the channel.

**Job registry.** `Rooted` (trees belong to entries, nodes to trees) and `Returned` complete the
stated invariants. `EntriesIncrease` is inductive because an entry is appended, under the registry's
mutex, for a timestamp above the last one only. `OneEntry` follows, hence that the entry a thread
holds is the one its timestamp denotes (`TreeIsCurrent`), and the step that decides the answer
of a call is the step of the atomic registry.

**Memory broker.** `AheadOf` relates what a subscriber has got to what it can still read, which
makes `NeverBackwards` inductive even with clears. `Lossless` adds, until the first clear, that the
content is everything put and that a subscriber's index counts what it has got since its
construction.

**Program with a subscriber.** `UsesLive` needs to know how far construction and destruction have
come at each place of the program: `Places`, in parts for the two brokers. With Kafka the join of
the thread stands between the end of its loop and the deletion; with MQTT the library ends the
thread. That a callback finds its thread registered needs the start protocol of `Thread` with Kafka
and the first message with MQTT.

**Messages.** `Ordered` says that what is received is what is read from the documents of the topic
since the beginning of the subscription, none left out and none twice; a document that ended the
program has been passed but not received. `MadeBack` says for each type of message that what is
read from the document of a message is that message. The filter of unseen points is given by the rank
of each point among those seen (`SeenPoints`): a message's own points are all kept, and the lemma
`SeenAll` is a matter of cardinalities instead of an induction. For documents of other programs the
theorem has the hypothesis `ForeignAsRead`, that they mean what is read from them: no code says what
else they could mean. TLC checks the property with one such document whose meaning is given.

**Command line.** `Parsed` says of the part of the line that has been read what `SettingsAsAsked`
says of all of it: the words are pairs, the settings to be processed are those of the names read,
each once, and the scheduler is the last one read. The argument rests on two facts, that no word
names two settings (`NamesApart`) and that a name stands at an odd place (`ConsumedPair`).

**Robot history.** `HistoryInv` says of a history that has not been emptied by the purge:

- `Linked`: each presence begins when and in the mode in which the one before ended; only the first
  one of a history has no mode, and it has no length either.
- `Follow`: there is one trace per presence, of the time of its end, and its modes are those of
  the presences up to it.
- `Growing`: the later of two entries of a mode is at least as long.
- `Covered`: at the end of each presence its mode has an entry that is as long as the presence.
- `Buffered`: the buffer is no shorter than the last entry of the present mode, and has the sample of
  the latest time.

The purge cuts presences and traces in two loops of their own, which look at different fields
(`src/state.cpp:188-193`). They stop at the same index (`PurgeKeeps`): the times differ for the
first entry of a history only, and its presence, having no length, is older than the retention
whenever something is cut. The reduction of the traces then takes as many modes from the front of
each trace as presences have been removed (`TracesReduced`). `TracesMatchPresences` also says that
there is a trace at all times since the first change of mode that is kept; before that time the
search in `mode_trace` reads in front of the list. `SamplesCover` needs the padding: what is stored
when a mode is left is as long as the presence (`Padded`), even if messages were rare.

**Readers of the history.** `AnswersStableHolds` goes by the step of `acquire`. The invariant has
what holds between two of them: before the receiver writes anything the history is that of
`HistoryInv`, and each step adds its part to it. A time of the past is held by exactly one presence
(`Holder`), which stays the one found when the present mode becomes a past one, and every entry
that is added is later than it. `HeldIsSnapshotHolds`: entries are added at the end only, with
later times than any that was asked for. That the steps implement the single one
(`ImplementsHistory`) is model-checked.

**Next modes.** `NextModesAreSuccessors`: the rounds of `next_modes` (`src/mode.cpp:214-256`) keep
the occurrences of the last mode that agree with the end of the trace for `k` modes (`Agreeing`),
until none would be left; what remains are the occurrences that agree for longest (`Longest`), and
`Successors` is defined by these. For `NextModesExist` one fact of the history is needed: a mode
that can be looked ahead from has been left before, so that it occurs in the trace of the present
and is not its last mode (`TraceEnds`, from `HistoryInv`). The modes that then follow have occurred
themselves, which gives them next modes in turn (`FollowedTrace`).

**Loops.** The rounds of `next_modes`, the search of the samples, the awakening of the sleeping
jobs and the bisection are recursive functions. The provers cannot instantiate an induction over an
operator, so the lemma `Recursion` (and, of the rounds, `RoundsAre`) goes by a least index: of all
lengths for which no function obeys the equation with values in the sets given, the least one could
be extended from the one before. The sets say what the loop keeps: `SearchedTo` of the search,
`Wakings` of the awakening (`AwokenKeeps`). `EntriesAt` and `InOrder` choose the entry of a rank;
that there is exactly one is a matter of cardinalities (`PlacesRanked`). `ReuseElementIsLast` says,
of the bisection with its four early answers, that with barriers in order of distance it is the
search for the last one farther than the distance, and that it stays within the list even if they
are not.

**Jobs of a pair.** `BarriersOrdered` and the types are not inductive: what a reset makes of ranges
depends on where they began, and what a path may add depends on how long the trace is. `JobsInv`, the
invariant of `JobsInvariance`, says of every job that is in a queue (`FitJobs`) that its barriers are
`Chained`, in order within a section and across the sections, with ranges that begin no later than
their first bound (`RangeFits`); that no barrier reaches beyond the trace (`Within`), and that the
path's positions increase and are positions of the trace (`PathFits`). A job that waits has a human
sample that is not empty, and the robot's history obeys `HistoryInv`.
Each operation is shown to keep this, by lemmas in the order of the code:

- The search checks the samples of the last mode in order (`SearchedTo`): before the sample `n` all
  barriers end before it, so that a new or an extended one ends at it, under any of the three
  policies. That the search begins after the last barrier is what `FirstNotCovered` is for.
- The next jobs have a longer trace, and a node at a position one beyond those of the path.
- `Reset` trims the ranges to the upper mode (`Shortened`), drops outdated barriers and shifts what
  is left (`Scaled`): barriers stay in order also if a range loses its beginning, and reach no
  further than the trace that is left after `Reduced`. Here `lower` may lie anywhere in the trace
  and `upper` before it, as with the strong equivalence.
- Awakening applies these to one sleeping job after the other; what has been kept and moved so far is
  in `Wakings`.

No hypothesis is made about the distances but `DistanceAssumption`, about messages none but the
bounds, and purges may happen at any time: a lookup that has lost its entry sets `failure`, and no
job is changed by it.

**Paths of waiting jobs.** That no two waiting jobs of a time have the same path needs another
invariant, `PathsInv`, and other reasons with and without reuse. With reuse every waiting job has a
beginning of its path registered (`Rooted`), and if of two jobs of a time the path of one begins
that of the other, then a longer beginning of the other's path is registered (`ApartFrom`). A job
that is awakened is moved only if no beginning of its path is registered, and so cannot be one of
these; a job that a worker adds has either a path not registered or the path of the job it
replaces. Without reuse nothing is registered. Only a job that has always gone on to the first of
its next modes (`IsPrimary`) is awakened, there is one of them at most, and it has started no
earlier than any other job (`Leads`), so that the new job it becomes is alone at its time. This is
the same argument as in `JobLifecycle`, whose abstraction of awakening and branching by
nondeterminism is thereby justified for the paths.

**What a job finds.** `StrongNeverFailsHolds` and `NotificationInRangeHolds` relate a job to the
history, which goes on while the job waits or sleeps. Both hold as long as nothing has been purged
(`Unpurged`: the first presence, of no mode, is still there), the first one if moreover no two
states of a robot have the same time (`0 \notin Gaps`). The conditions are needed: without the
first TLC violates both, without the second `StrongNeverFails` (section 6). Their common invariant
is `SoundInv`. With the strong equivalence the snapshot of a job is its initial time, and every
mode of its trace has been left by then (`Founded`), hence has samples in it; of a job that waits
the first mode is that of its initial time, which has been looked ahead from (`Ahead`). Then the
search has samples, the sample of the initial time is among them, there are next modes, and an
awakening finds what it reduces. With any factory, the longest time that has been spent in the
first mode, as the snapshot sees it, is no less than the one spent since the mode was entered
(`Reaches`). That is what a lookup has checked, and what keeps it is that presences are only added
(`Prolonged`): the longest time grows (`RangesWiden`), and the entry of the mode at a time is found
later or where it was (`EntryProlonged`; of several presences that end at a time the last one
counts). `SoundInv` says nothing of a failed program: `Assured`, which is all of the conditions,
excludes it.

**Reuse.** The argument in three parts. `CapsuleTriangle` and `SphereTriangle`: the distances obey
the triangle inequality. `CheckedSampleIsClear`, by `BarrierClears`: a robot sample that was
checked is clear of every human sample nearer to the section's than its last barrier.
`CheckKeepsNearing` and `CheckEndsAtSample`: the check keeps the order that the bisection of
`_reuse_element` relies on, and never covers more than was checked. `ReuseElementIsLast` and
`BarriersOrderedHolds`: the bisection finds what it is for, since the order it needs is there in
every reachable state. That reset and reuse put these parts together rightly is `ReuseEquivalent`,
model-checked.

**Geometry.** A sample is the same in whatever order its points come (`MergingIsUnordered`) and its
capsule has all of them (`CapsuleContainsPoints`). A capsule is not monotone: another point moves
the centre, and parts of the old capsule may be outside the new one. `IntersectsIffNoDistance` says
that the test of the bounding boxes before the distance hides no collision, so that a discarding job
(`intersects`) and a reusing one (distance 0) mean the same.

**Modes.** `LessThanIsStrictOrder`: irreflexive and transitive. The least place at which two modes
differ is taken from the well-foundedness of strict inclusion of finite sets. `KeysAreEqualModes`:
neither is less than the other exactly if they are equal.

**Model-checked only.** Liveness, that is `NextJobsTaken`, `NotifiedIsSent`, `Delivered` and
`DestructorEnds`: the provers know neither fairness nor ENABLED. `ReuseEquivalent`, which compares a
job with what another factory would have made of it: beyond the parts above
its proof would need that the samples a barrier covers are the same ones after a reset, only shifted.

## 6. What was found

Each of these has a run that shows it; the finding in `PROJECT.json` quotes the line of the
repository that it contradicts.

1. `pool_stop`: `~Runtime` sets `_stop` and notifies without `_availability_mutex`
   (`src/runtime.cpp:212`). A worker that has found `_stop` false and not yet joined the wait set is
   never woken, and the join blocks.
2. `strong_reuse`: the strong equivalence excludes from reuse the modes of the trace that lie before
   the present one and occur again (`src/lookahead_job_factory.cpp:135`), but not those that the
   robot has been through on another way, or round a whole cycle, between two awakenings: a
   collision is missed.

These are shown by properties that are defined in the modules. Each is violated under the constants
given, the others as in the configuration of the module's run:

3. `PurgeLeavesPresence` (`RobotHistory`): a robot that stays in one mode for longer than the
   retention loses all of its presences and traces (`src/state.cpp:188-195`); the handler reads the
   first of no traces, and `earliest_time` (`src/runtime_io.cpp:115`) fails what
   `src/state.cpp:182` asserts. By `OnlyStillRobotEmptied` it happens in no other way.
4. `NoSleepingJobOfRemoved` (`JobLifecycle`; `Humans = {h1}`, `Workers = {w1}`, `Factories =
   {"strong"}`, `Timeout = 1`, `InOrder = TRUE`, `Retentions = {9}`, `Times = {1, 2, 3}`):
   `has_human` and the enqueueing into the sleeping queue (`src/runtime.cpp:199-202`) are not one
   step. A removal in between leaves a sleeping job of an unknown human; awakening it throws at
   `src/body_registry.cpp:169`.
5. `TimestampInRegistry` (`JobLifecycle`; as before with `Humans = {h1, h2}`, `Timeout = 3`,
   `MaxDepth = 0`): pairs of two humans can be promoted at decreasing timestamps, at which the
   search in `src/lookahead_job_registry.cpp:126` fails.
6. `PairFields` (`Registration`; `Humans = {h1}`, `Robots = {r1}`, `Overlap = FALSE`,
   `RobotsFirst = FALSE`, `MaxPairs = 2`): a robot presented after a human is stored as the human of
   the pair (`src/runtime_io.cpp:45`).
7. `NoPairLost` (`Registration`; as before with `Overlap = TRUE`, `RobotsFirst = TRUE`): the
   presentation callback pushes pairs without `_pairs_mux`; the promotion overwrites them
   (`src/runtime_io.cpp:44,144`).
8. `StartsFromBeginning` (`MemoryBroker`; `Subscribers = {s1}`, `MaxMessages = 2`): `_next_index`
   starts at the end of the content, not at its beginning (`include/memory.hpp:90,94`).
9. `NotificationInRange` (`LookAhead`; as in `LookAhead_reuse.cfg`, with `Retention = 3` and
   `MaxTime = 8`): a purge between the creation of a job and its processing takes the only presence
   in the job's starting mode. The range of its samples is then 0 to 0, and the difference to the
   sample index, being unsigned, wraps (`src/runtime.cpp:175-176`). Without purges it does not, by
   `NotificationInRangeHolds`.
10. `NoFreedRead` (`HistoryReaders`): `samples` returns a reference into the vector of a mode's
    entries and releases the mutex (`src/state.cpp:333-336`); the robot leaves the mode, the entry
    stored (`src/state.cpp:250`) does not fit and the vector is moved; the worker then copies from
    what has been freed (`src/lookahead_job.cpp:160,195`). `include/state.hpp:202` calls it "A
    wrapper class for a snapshot of the history at a given time".

The same windows have consequences that have no run of their own:

- A job enqueued by the receiver between a worker's predicate and its wait is not taken until the
  next notification. The same holds of a `put` of the sender, whose destructor can also miss its
  thread (`src/runtime_io.cpp:223-226`). The sender deletes its publisher before it joins
  the thread, which may be about to publish.
- When a presentation and the first state of one human overlap, both push the pair; the second
  promotion then fails "Tried to create job already registered"
  (`src/lookahead_job_factory.cpp:89`), or, with the discarding factory, makes a second primary
  job. The promotion may also examine a pair before its human is in the registry. `Registration`
  and `JobLifecycle` have these steps with `Overlap = TRUE`, and their properties exclude them by
  `~overlapped`.
- Without an overlap, the creation of a job can be refused for a human that was removed and returns
  when the latest instance has a timestamp at which its pair was promoted before, and for a timestamp
  that is older than one registered (5). `PromotionSafe` says that nothing else fails.
- The registration of a job with an empty sample can fail, although
  `src/lookahead_job_factory.cpp:121` says "Will always be satisfied"; the job is kept all the
  same, so nothing is lost.
- A purge may remove the instance at which a job sleeps, whose awakening then fails
  (`src/state.cpp:98`), and, with no mode trace in the retention, all the mode traces of the robot
  (`src/state.cpp:195`).
- `operad` asks `BrokerAccessManager` for an access that nothing has configured
  (`src/operad.cpp:40`), and ends by an assertion; the manager does not know Kafka.
- With MQTT the loop is stopped by force, which may end a callback midway (`include/mqtt.hpp:131`);
  the first message's registration writes through a pointer to a `const` object.
- Messages put before the broker has answered a subscription are not received; a publisher that is
  destroyed drops what its library still holds after 10 s (Kafka) or at once (MQTT).
- A notification without a collision mode is serialised without the member that the deserialiser
  reads unconditionally (`src/serialisation.cpp:180`, `src/deserialisation.cpp:84`).
- The scheduler is set as soon as it is read, even if the line is refused later
  (`src/command_line_interface.cpp:245`), and its repetition is not noticed.
- Under the weak equivalence a job keeps its old snapshot, in which a mode it comes to may have no
  samples or next modes, so that an assertion fails (`src/lookahead_job_factory.cpp:45,146`,
  `src/state.cpp:412`): `StrongNeverFails` is stated of the strong one, and `SafeWithoutRemoval` has
  it among the causes it names.
- Trailing empty samples keep the test "the mode is fully covered"
  (`src/lookahead_job_factory.cpp:157`) from being true; the search then begins one mode earlier
  than it need.
- Nothing in `acquire` (`src/state.cpp:220`) keeps a robot from two states of one time and
  different modes. A job that begins at that time then has a mode with no presence at it, and an
  assertion of `src/state.cpp` fails: with gaps `{0, 1}` `StrongNeverFails` is violated. It is also
  with `Retention = 3`, by a purge (3).
- `set_concurrency(0)`, or a machine that reports no hardware threads, leaves no workers.

## 7. What is not modelled

- `RuntimeConfiguration`: setters with a precondition each, of which the assumptions on retention and
  period are what matters here.
- Distances of segments in space, medians and averages of points, square roots: real arithmetic.
  `Segments` has the same definitions along one axis, where they are exact. Rounding in the division
  of a time by the time of a sample (`src/state.cpp:374,403`) is left out by whole units.
- Likelihoods of next modes: carried along, and no decision depends on them.
- Layout of JSON text, the help text of the command line, logging.
- Counters for tests (`_num_processed`, `_num_state_messages_received`...) and
  `_oldest_history_time`: read by getters only.
- `clear` of the memory broker concurrent with an access to the list, a data race whose outcomes
  include memory corruption: `Clear` is one step. The same holds of `_stopped` in `kafka.hpp:138`
  and of `Runtime::_stop`, which are taken to be seen in the end.
- Several segments of a body and several robots in `LookAhead`: their jobs share the queues and the
  registry, which `JobLifecycle` and `JobRegistry` have.
- Failures of the client libraries, reconnection and retries: the code has none.
- Partitions and offsets of Kafka: a publisher puts into partition 0 (`include/kafka.hpp:73`), a
  subscriber reads the partition and from the offset that it was constructed with (`:113,119`).
  `Subscription` has them at their defaults, partition 0 and the end of the topic; a subscriber of
  another partition would receive nothing, one from the beginning also what was put before.
- Messages of a robot with other than its number of points, which end the program
  (`src/state.cpp:231`).

## 8. What is left

- The theorem that reuse misses no collision (`ReuseEquivalent`), from the lemmas of barriers, of
  `Reset` and of the bisection that are proved: a waiting job's barriers would have to be related to
  the collisions of all its paths so far.
- Several segments in `LookAhead`, with the registry of `JobRegistry` in place of the sets of paths.
