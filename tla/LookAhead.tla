-------------------------------- MODULE LookAhead ------------------------------
(***************************************************************************)
(* What the jobs of a pair of segments compute: a job searches the samples    *)
(* of the last mode of its trace for a collision with its human sample, goes  *)
(* on to the next modes, sleeps, and is awakened by a newer human sample     *)
(* with what it may reuse (lookahead_job.cpp, lookahead_job_factory.cpp).    *)
(* RobotHistory gives the samples, Barriers what is reused, JobPaths the     *)
(* paths; JobLifecycle has the queues and the threads in detail.             *)
(*                                                                         *)
(* A message is handled in two steps, between which workers run: its state   *)
(* is acquired, then jobs are awakened and the pair is promoted.  A search   *)
(* is one step: by AnswersStable of HistoryReaders no step of acquiring a    *)
(* state changes what it sees.  Trace positions and samples count from 0.            *)
(***************************************************************************)
EXTENDS RobotHistory, Barriers, JobPaths, ModeValues

CONSTANTS
    NoSample,       \* an empty human sample
    ValueOf,        \* the variables of a mode and their values
    Factories,      \* the job factories to choose from
    FirstHuman,     \* bound: the time of the first human state
    MaxInstances    \* bound: the human states

ASSUME LookAheadAssumption ==
    /\ NoSample \notin HumanSamples /\ FirstHuman \in Nat
    /\ RobotSamples = (SUBSET Points) \ {{}}
    /\ ValueOf \in [Modes \cup {NoMode} -> ModeValue]
    /\ \A m \in Modes \cup {NoMode} : ValueOf[m] = EmptyMode <=> m = NoMode
    /\ \A m1, m2 \in Modes : CanCompare(ValueOf[m1], ValueOf[m2])
    /\ \A m1, m2 \in Modes : ValueOf[m1] = ValueOf[m2] => m1 = m2
    /\ Factories \subseteq
           [equivalence : {"discard", "weak", "strong"}, policy : Policies]

VARIABLES
    factory,        \* the factory of the configuration, which does not change
    instances,      \* the human history
    pending,        \* whether the pair has still to be promoted
    waiting,        \* _waiting_jobs
    sleeping,       \* _sleeping_jobs
    registered,     \* the times and paths in the job registry
    handling        \* whether a message is between its two steps

jobVars == <<pending, waiting, sleeping, registered>>
vars == <<history, factory, instances, jobVars, handling>>

\* The fields of ReuseLookAheadJob.  since and astray are not of the code: the
\* time from which the barriers were valid, and whether the robot has gone
\* elsewhere since than the trace up to where it was found again (Strays).
Job == [initial : 0..MaxTime, snapshot : 0..MaxTime, human : HumanSamples \cup {NoSample},
        trace : Seq(Modes), path : Seq(Node), sections : Seq(Section),
        since : 0..MaxTime, astray : BOOLEAN]

NewJob(t, sample) ==
    [initial |-> t, snapshot |-> t, human |-> sample, trace |-> <<ModeAt(t)>>,
     path |-> <<>>, sections |-> <<>>, since |-> t, astray |-> FALSE]

Reuse == factory.equivalence # "discard"
Strong == factory.equivalence = "strong"

Init ==
    /\ HistoryInit
    /\ factory \in Factories
    /\ instances = <<>> /\ pending = TRUE
    /\ waiting = <<>> /\ sleeping = <<>> /\ registered = {}
    /\ handling = FALSE

-----------------------------------------------------------------------------
(* The search: earliest_collision_index.                                    *)

\* checked_sample_index, and its assertions.
HasIndex(m, t, s) ==
    HasSamplesAt(m, s) /\ HasEntry(m, t) /\ SampleIndex(m, t) < NumSamples(m, s)

Mode(j) == Last(j.trace)
Position(j) == Len(j.trace) - 1
BackAtStart(j) == Len(j.trace) > 1 /\ Mode(j) = Head(j.trace)
Start(j) == SampleIndex(Head(j.trace), j.initial)

\* Mutant: the samples of the present mode are searched from the first.
FirstOfAll(j) == 0

\* The samples that lie ahead, from the present on until the robot would be
\* back where it is.
First(j) == IF Len(j.trace) = 1 THEN Start(j) ELSE 0
Final(j) == IF BackAtStart(j) THEN Start(j) - 1 ELSE NumSamples(Mode(j), j.snapshot) - 1

CanSearch(j) ==
    /\ HasSamplesAt(Mode(j), j.snapshot)
    /\ Mode(j) = Head(j.trace) => HasIndex(Mode(j), j.initial, j.snapshot)

Sample(j, i) == Samples(Mode(j), j.snapshot)[i + 1]
Hits(j, i) == Sample(j, i) # {} /\ RobotDistance[j.human][Sample(j, i)] = 0

\* DiscardLookAheadJob: all of the samples; -1 if there is no collision.
DiscardHit(j) ==
    LET hits == {i \in First(j)..Final(j) : Hits(j, i)}
    IN  IF hits = {} THEN -1 ELSE CHOOSE i \in hits : \A k \in hits : i <= k

\* One past what the barriers cover.
FromBarrier(j) == MaxSample(LastBarrier(j.sections).range) + 1

FirstNotCovered(j) ==
    IF j.sections = <<>> \/ LastUpperTrace(j.sections) # Position(j)
       \/ FromBarrier(j) < First(j)
    THEN First(j) ELSE FromBarrier(j)

\* One step of the loop of ReuseLookAheadJob: the sample i, unless one has hit.
SearchSample(j, s, i) ==
    LET index == [trace |-> Position(j), sample |-> i]
    IN  IF s.hit >= 0 \/ Sample(j, i) = {} THEN s
        ELSE [ok |-> s.ok /\ CanCheckSequence(factory.policy, s.sections, j.human,
                                              Sample(j, i), index),
              hit |-> IF Free(s.sections, j.human, Sample(j, i)) THEN -1 ELSE i,
              sections |-> CheckSequence(factory.policy, s.sections, j.human, Sample(j, i), index)]

\* The samples that no barrier covers, with their barriers.
ReuseSearch(j) ==
    LET first == FirstNotCovered(j)
        count == IF Final(j) < first THEN 0 ELSE Final(j) - first + 1
        searched[n \in 0..count] ==
            IF n = 0 THEN [ok |-> TRUE, hit |-> -1, sections |-> j.sections]
            ELSE SearchSample(j, searched[n - 1], first + n - 1)
    IN  searched[count]

Search(j) ==
    IF Reuse THEN ReuseSearch(j)
    ELSE [ok |-> TRUE, hit |-> DiscardHit(j), sections |-> j.sections]

-----------------------------------------------------------------------------
(* Going on to the next modes: create_next.                                 *)

FullTrace(j) == Merge(TraceAt(j.initial), j.trace)

CanGoOn(j) ==
    HasLooped(j.trace) \/
        (HasTrace(j.initial) /\ TraceAt(j.initial) # <<>> /\ NextModes(FullTrace(j)) # {})

\* The order of the modes as keys of a map.
Before(m1, m2) == LessThan(ValueOf[m1], ValueOf[m2])
InOrder(modes) ==
    [k \in 1..Cardinality(modes) |->
        CHOOSE m \in modes : Cardinality({q \in modes : Before(q, m)}) = k - 1]

\* The job going on to each of some modes: it branches if they are several.
Branch(j, next) ==
    [k \in 1..Len(next) |->
        [j EXCEPT !.trace = Append(@, next[k]),
                  !.path = IF Len(next) = 1 THEN @ ELSE Add(@, k - 1, Len(j.trace))]]

NextJobs(j) ==
    IF HasLooped(j.trace) THEN <<>>
    ELSE Branch(j, InOrder(NextModes(FullTrace(j))))

HasRegistered(j) == Reuse /\ <<j.initial, Priorities(j.path)>> \in registered

\* Mutant: the registry accepts every path.
AcceptAll(reg, j) == TRUE

Acceptable(reg, j) == \A p \in Prefixes(Priorities(j.path)) : <<j.initial, p>> \notin reg
Register(reg, jobs) == reg \cup {<<j.initial, Priorities(j.path)>> : j \in ToSet(jobs)}

\* A worker takes a job; the one who has taken it first may be the last to end.
Process ==
    \E k \in 1..Len(waiting) :
        LET j == waiting[k]
            search == Search(j)
            others == RemoveAt(waiting, k)
            slept == Append(sleeping, [j EXCEPT !.sections = search.sections])
            searched == [j EXCEPT !.sections = search.sections]
            fails == \/ ~CanSearch(j)
                     \/ ~search.ok
                     \/ IF search.hit >= 0 THEN ~HasIndex(Head(j.trace), j.initial, j.snapshot)
                        ELSE ~CanGoOn(j)
            next == NextJobs(searched)
        IN  /\ ~failure
            /\ IF fails
               THEN failure' = TRUE /\ UNCHANGED <<waiting, sleeping>>
               ELSE /\ failure' = FALSE
                    /\ IF search.hit >= 0 \/ next = <<>>
                       THEN waiting' = others /\ sleeping' = slept
                       ELSE /\ waiting' = others \o EntriesAt(next,
                                   {i \in 1..Len(next) : Len(next) = 1 \/ ~HasRegistered(next[i])})
                            /\ UNCHANGED sleeping
            /\ UNCHANGED <<presences, states, latestMode, latestTime, buffer, traces,
                           factory, instances, pending, registered, handling>>

-----------------------------------------------------------------------------
(* Awakening.                                                               *)

HasInstance == \E i \in 1..Len(instances) : instances[i].time <= latestTime
Latest == instances[SelectLastInSeq(instances, LAMBDA i : i.time <= latestTime)]

\* The last position of the trace that may be reused: under the strong
\* equivalence, before a mode that the robot has gone through meanwhile.
ResetUpper(j, lower) ==
    LET again == {BackwardIndex(j.trace, j.trace[i]) - 2 :
                     i \in {k \in 1..lower : BackwardIndex(j.trace, j.trace[k]) > k}}
        uppers == IF Strong THEN again \cup {Position(j)} ELSE {Position(j)}
    IN  CHOOSE n \in uppers : \A k \in uppers : n <= k

\* The job at the time t and in the mode of the robot, with the barriers that
\* hold for the human sample h.
Lower(j, t) == ForwardIndex(j.trace, ModeAt(t)) - 1
SnapshotOf(j, t) == IF Strong THEN t ELSE j.snapshot
LeftSince(j, t) ==
    {presences[k].mode :
        k \in {i \in 1..Len(presences) : j.since < presences[i].to /\ presences[i].to <= t}}

\* The robot has come back to where it was or, if the snapshot is a new one, has
\* left modes that are not those of the trace before the one it is in.
Strays(j, t) ==
    LET passed == {j.trace[i] : i \in 1..Lower(j, t)}
    IN  IF Strong THEN ~(LeftSince(j, t) \subseteq passed)
        ELSE passed = {} /\ LeftSince(j, t) # {}

Resume(j, t, h) ==
    [j EXCEPT !.initial = t, !.snapshot = SnapshotOf(j, t), !.human = h,
              !.sections = Reset(@, h, Lower(j, t), ResetUpper(j, Lower(j, t)),
                                 SampleIndex(ModeAt(t), t)),
              !.since = t, !.astray = @ \/ Strays(j, t)]

\* The last position the barriers reach, and whether they cover all of it.
CoversAll(resumed, m) ==
    MaxSample(LastBarrier(resumed.sections).range) = NumSamples(m, resumed.snapshot) - 1

UpperOf(j, resumed, t) ==
    LET covered == Lower(j, t) + LastUpperTrace(resumed.sections)
    IN  IF CoversAll(resumed, j.trace[covered + 1]) THEN covered + 1 ELSE covered

Reduced(j, resumed, upper, t) ==
    [resumed EXCEPT
        !.trace = ReduceBetween(@, Lower(j, t) + 1, IF upper < Len(@) THEN upper + 1 ELSE upper),
        !.path = ReducePath(@, Lower(j, t), upper)]

\* A job whose whole trace is covered goes on to the next modes, if any.
GoOn(reduced, whole) ==
    CASE ~whole -> [kept |-> <<>>, moved |-> <<reduced>>]
      [] whole /\ HasLooped(reduced.trace) -> [kept |-> <<reduced>>, moved |-> <<>>]
      [] OTHER -> [kept |-> <<>>, moved |-> NextJobs(reduced)]

CanResume(j, resumed, t) ==
    Lower(j, t) >= 0 =>
        /\ HasIndex(ModeAt(t), t, SnapshotOf(j, t))
        /\ resumed.sections # <<>> =>
              /\ HasSamplesAt(j.trace[Lower(j, t) + LastUpperTrace(resumed.sections) + 1],
                              SnapshotOf(j, t))
              /\ CanReduce(j.trace, Lower(j, t) + 1, UpperOf(j, resumed, t) + 1)
              /\ UpperOf(j, resumed, t) = Len(j.trace) =>
                    CanGoOn(Reduced(j, resumed, Len(j.trace), t))

\* awaken with a reusing factory: DIFFERENT, or COMPLETED without next jobs.
Reawaken(j, resumed, t, h) ==
    IF Lower(j, t) < 0 \/ resumed.sections = <<>>
    THEN [kept |-> <<>>, moved |-> <<NewJob(t, h)>>]
    ELSE GoOn(Reduced(j, resumed, UpperOf(j, resumed, t), t),
              UpperOf(j, resumed, t) = Len(j.trace))

\* UNCOMPUTABLE: the job waits for another human sample with all it has.
Postpone(j, t) == [j EXCEPT !.initial = t, !.snapshot = IF Reuse THEN SnapshotOf(j, t) ELSE t]

IsPrimary(path) == \A i \in 1..Len(path) : path[i].priority = 0

\* What the jobs awakened are to the queues and to the registry.
Accepted(acc, woken) ==
    EntriesAt(woken.moved,
              {i \in 1..Len(woken.moved) : Acceptable(acc.registered, woken.moved[i])})
Take(acc, woken) ==
    [acc EXCEPT !.kept = @ \o woken.kept, !.moved = @ \o Accepted(acc, woken),
                !.registered = Register(@, Accepted(acc, woken))]

AwakenReusing(acc, j, resumed, t, h) ==
    IF CanResume(j, resumed, t) THEN Take(acc, Reawaken(j, resumed, t, h))
    ELSE [acc EXCEPT !.failed = TRUE]

\* What awakening the next sleeping job adds to the jobs kept and moved.
Awaken(acc, j) ==
    LET t == Latest.time
        h == Latest.sample
        due == j.initial < t /\ CanLookAhead(j.snapshot, t)
    IN  CASE ~due -> [acc EXCEPT !.kept = Append(@, j)]
          [] due /\ h = NoSample ->
                 [acc EXCEPT !.kept = Append(@, Postpone(j, t)),
                             !.registered = IF Reuse THEN Register(@, <<Postpone(j, t)>>) ELSE @]
          [] due /\ h # NoSample /\ ~Reuse ->
                 [acc EXCEPT !.moved = IF IsPrimary(j.path) THEN Append(@, NewJob(t, h)) ELSE @]
          [] OTHER -> AwakenReusing(acc, j, Resume(j, t, h), t, h)

\* What awakening the sleeping jobs in turn makes of them.
Awoken ==
    LET awoken[n \in 0..Len(sleeping)] ==
            IF n = 0
            THEN [kept |-> <<>>, moved |-> <<>>, registered |-> registered, failed |-> FALSE]
            ELSE Awaken(awoken[n - 1], sleeping[n])
    IN  awoken[Len(sleeping)]

\* The sleeping jobs are awakened, then the pair is promoted.
Handle ==
    LET promoted == pending /\ HasInstance /\ CanLookAhead(Latest.time, Latest.time)
        new == IF promoted THEN <<NewJob(Latest.time, Latest.sample)>> ELSE <<>>
        empty == promoted /\ Latest.sample = NoSample
    IN  /\ ~failure /\ handling
        /\ handling' = FALSE
        /\ \E woken \in {Awoken} :
              /\ failure' = woken.failed
              /\ sleeping' = woken.kept \o (IF empty THEN new ELSE <<>>)
              /\ waiting' = waiting \o woken.moved \o (IF empty THEN <<>> ELSE new)
              /\ registered' = IF Reuse THEN Register(woken.registered, new) ELSE registered
        /\ pending' = (pending /\ ~promoted)
        /\ UNCHANGED <<presences, states, latestMode, latestTime, buffer, traces,
                       factory, instances>>

-----------------------------------------------------------------------------
(* Messages.                                                                *)

RobotState ==
    /\ ~handling
    /\ HistoryNext
    /\ handling' = TRUE
    /\ UNCHANGED <<factory, instances, jobVars>>

\* A human state is acquired if it is later than the last one.
HumanState ==
    \E t \in FirstHuman..latestTime, h \in HumanSamples \cup {NoSample} :
        /\ ~failure /\ ~handling
        /\ Len(instances) < MaxInstances
        /\ instances # <<>> => Last(instances).time < t
        /\ instances' = Append(instances, [time |-> t, sample |-> h])
        /\ handling' = TRUE
        /\ UNCHANGED <<history, factory, jobVars>>

Next == RobotState \/ HumanState \/ Handle \/ Process

Spec == Init /\ [][Next]_vars
-----------------------------------------------------------------------------
(* The variables keep their types: instances are in order of time, and every *)
(* job has a trace (state.hpp:98, lookahead_job.hpp:185-197).                *)
TypeOK ==
    /\ HistoryTypeOK
    /\ factory \in Factories
    /\ instances \in Seq([time : 0..MaxTime, sample : HumanSamples \cup {NoSample}])
    /\ pending \in BOOLEAN /\ handling \in BOOLEAN
    /\ waiting \in Seq(Job) /\ sleeping \in Seq(Job)
    /\ \A j \in ToSet(waiting \o sleeping) : j.trace # <<>> /\ j.initial <= latestTime
    /\ registered \subseteq (0..MaxTime) \X Seq(Nat)

\* The samples that a job takes for free of collisions because of its barriers
\* are so in its snapshot.
CoveredFree(j) ==
    j.sections # <<>> =>
        \A n \in 0..LastUpperTrace(j.sections) :
            LET samples == Samples(j.trace[n + 1], j.snapshot)
                first == IF n = 0 THEN Start(j) ELSE 0
                last == IF n = LastUpperTrace(j.sections)
                        THEN MaxSample(LastBarrier(j.sections).range) ELSE Len(samples) - 1
            IN  \A i \in first..last :
                    samples[i + 1] # {} => RobotDistance[j.human][samples[i + 1]] > 0

Equivalent(j) == CanSearch(j) => CoveredFree(j) /\ Search(j).hit = DiscardHit(j)

(* Reusing is as good as discarding: of a job that waits, what the barriers  *)
(* cover is free of collisions, and the search of what they do not finds     *)
(* what a search of all of the samples would (lookahead_job.cpp:157-218,     *)
(* lookahead_job_factory.cpp:98-185, barrier.cpp:134-178).  Left out are     *)
(* jobs for which the robot has gone elsewhere than along their trace since  *)
(* their barriers were made: StrongEquivalent.                              *)
ReuseEquivalent ==
    \A j \in ToSet(waiting) : Reuse /\ ~j.astray => Equivalent(j)

(* "STRONG: prediction results are strictly equivalent to those obtained     *)
(* when not using reusal" (lookahead_job.hpp:202).                          *)
StrongEquivalent == \A j \in ToSet(waiting) : Strong => Equivalent(j)

(* The barriers of a job are in order: within a section each is nearer than  *)
(* the one before, and each begins after the end of the one before, across   *)
(* the sections too, which the bisection of _reuse_element, the trimming and *)
(* the precondition of update rely on (barrier.cpp:134-178,                  *)
(* trace_sample_range.cpp:49).                                              *)
BarriersOrdered ==
    \A j \in ToSet(waiting \o sleeping) :
        /\ \A section \in ToSet(j.sections) :
              section.barriers # <<>> /\ Nearing(section.barriers) /\ Follows(section.barriers)
        /\ \A k, n \in 1..Len(j.sections) : k < n =>
              \A b \in ToSet(j.sections[k].barriers), c \in ToSet(j.sections[n].barriers) :
                  EndsBefore(b.range, c.range.initial)
        /\ LastUpperTrace(j.sections) <= Position(j)

(* A job's path tells where its trace branched: at positions that increase   *)
(* and are those of its trace, so that adding to it never fails its          *)
(* assertions (lookahead_job.cpp:40-42), and no two jobs of a time that wait *)
(* have the same path (lookahead_job_registry.hpp:103-105).                 *)
PathsMatchTraces ==
    /\ \A j \in ToSet(waiting \o sleeping) : \A k \in 1..Len(j.path) :
          /\ j.path[k].position \in 1..Position(j)
          /\ k > 1 => j.path[k - 1].position < j.path[k].position
    /\ \A i, k \in 1..Len(waiting) :
          waiting[i].initial = waiting[k].initial
              /\ Priorities(waiting[i].path) = Priorities(waiting[k].path) => i = k

(* With the strong equivalence no assertion on the way of a job fails: there *)
(* are samples and next modes in its snapshot, the sample of its initial     *)
(* time is among them, ranges are updated forward (lookahead_job.cpp:197,    *)
(* lookahead_job_factory.cpp:45, 146, state.cpp:413).                       *)
StrongNeverFails == Strong => ~failure

(* The interval of a notification never goes below zero, its bounds being    *)
(* unsigned: the range of the samples in the starting mode reaches as far as *)
(* the sample of the initial time, which has been looked up before and is    *)
(* one of the snapshot's (runtime.cpp:170-178).  A program that has failed   *)
(* notifies nothing.                                                        *)
NotificationInRange ==
    ~failure => \A j \in ToSet(waiting) :
        CanSearch(j) /\ Search(j).hit >= 0
            /\ HasIndex(Head(j.trace), j.initial, j.snapshot) =>
                IF Len(j.trace) = 1 THEN Search(j).hit >= Start(j)
                ELSE RangeUpper(PresencesIn(Head(j.trace), j.snapshot)) >= Start(j)
=============================================================================
