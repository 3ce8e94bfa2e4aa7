------------------------------ MODULE RobotHistory -----------------------------
(***************************************************************************)
(* RobotStateHistory and its snapshots (state.cpp), for one robot whose      *)
(* segments are sampled together: one segment stands for all of them.  A     *)
(* sample is the set of the points that have been merged into it.  Acquire   *)
(* is the whole handling of a robot state, with the purge of old history     *)
(* that the receiver makes after it, in one step, and samples are read by     *)
(* value: HistoryReaders has the steps of acquire, the references that       *)
(* workers hold across them, and that the steps add up to Acquire.  A message *)
(* has a point for each keypoint of the robot, as acquire asserts            *)
(* (state.cpp:231): a robot's own messages do.                              *)
(*                                                                         *)
(* Times are multiples of a unit, Step of which are the time of a sample.    *)
(***************************************************************************)
EXTENDS ModeTraces, Integers

CONSTANTS
    Modes,      \* the modes of the robot
    NoMode,     \* the empty mode
    FirstModes, \* bound: the modes that the robot may start in
    Places,     \* the points where the robot's segment may be seen, by mode
    Step,       \* 1000 / message_frequency
    MaxTime,    \* bound on the timestamps
    Gaps,       \* the times there may be between two messages
    Retention,  \* _history_retention
    Period      \* _history_purge_period

ASSUME ModesAssumption == NoMode \notin Modes
ASSUME TimesAssumption ==
    /\ Step \in Nat \ {0} /\ MaxTime \in Nat /\ Gaps \subseteq Nat
    /\ Retention \in Nat /\ Period \in Nat /\ Period < Retention

VARIABLES
    presences,  \* _mode_presences; the first one of a history is of NoMode
    states,     \* _mode_states: by mode, the samples from a time on
    latestMode, \* _latest_mode
    latestTime, \* _latest_time
    buffer,     \* _current_mode_states_buffer
    traces,     \* _mode_traces: the traces from a time on
    failure     \* whether a precondition threw, out of the receiver's thread

history == <<presences, states, latestMode, latestTime, buffer, traces, failure>>

Points == UNION {Places[m] : m \in Modes}

Presence == [mode : Modes \cup {NoMode}, exit : Modes, from : 0..MaxTime, to : 0..MaxTime]

HistoryInit ==
    /\ presences = <<>>
    /\ states = [m \in Modes |-> <<>>]
    /\ latestMode = NoMode
    /\ latestTime = 0
    /\ buffer = <<>>
    /\ traces = <<[time |-> 0, trace |-> <<>>]>>
    /\ failure = FALSE

-----------------------------------------------------------------------------
(* What a snapshot at time s answers.                                       *)

\* Mutant: an entry is seen from the time after its own.
LastBefore(entries, s) == SelectLastInSeq(entries, LAMBDA e : e.time < s)

\* The index of the last entry that is not later than s, 0 if all are.
LastUpTo(entries, s) == SelectLastInSeq(entries, LAMBDA e : e.time <= s)

HasSamplesAt(m, s) == LastUpTo(states[m], s) > 0

Samples(m, s) == states[m][LastUpTo(states[m], s)].samples
NumSamples(m, s) == Len(Samples(m, s))
ModesWithSamples(s) == {m \in Modes : HasSamplesAt(m, s)}

HasTrace(s) == LastUpTo(traces, s) > 0
TraceAt(s) == traces[LastUpTo(traces, s)].trace

\* Those of a mode that has been left by the time of the snapshot.
PresencesIn(m, s) ==
    {k \in 1..Len(presences) : presences[k].mode = m /\ presences[k].to <= s}
PresencesBetween(m, target, s) == {k \in PresencesIn(m, s) : presences[k].exit = target}
PresencesInto(m, s) ==
    {k \in 1..Len(presences) : presences[k].exit = m /\ presences[k].to <= s}

NumSamplesWithin(k) == (presences[k].to - presences[k].from) \div Step
RangeLower(ks) ==
    IF ks = {} THEN 0 ELSE CHOOSE n \in {NumSamplesWithin(k) : k \in ks} :
        \A k \in ks : n <= NumSamplesWithin(k)
RangeUpper(ks) ==
    IF ks = {} THEN 0 ELSE CHOOSE n \in {NumSamplesWithin(k) : k \in ks} :
        \A k \in ks : n >= NumSamplesWithin(k)

ModeAt(t) ==
    LET k == SelectInSeq(presences, LAMBDA p : p.from <= t /\ t < p.to)
    IN  IF k = 0 THEN latestMode ELSE presences[k].mode

\* The presence that holds t; the first of the deque is not looked at.
HoldsPresence(p, m, t) == p.mode = m /\ p.from <= t /\ t < p.to
HasEntry(m, t) ==
    \/ t >= Last(presences).to
    \/ \E k \in 2..Len(presences) : HoldsPresence(presences[k], m, t)
EntryTime(m, t) ==
    IF t >= Last(presences).to THEN Last(presences).to
    ELSE presences[SelectLastInSeq(presences, LAMBDA p : HoldsPresence(p, m, t))].from
SampleIndex(m, t) == (t - EntryTime(m, t)) \div Step

\* A presence of the mode, entered before the snapshot, that ended before t.
LeftBefore(m, s, t) ==
    \E k \in 1..Len(presences) :
        /\ presences[k].mode = m /\ t > presences[k].to
        /\ \A j \in 1..k : presences[j].from < s

\* Mutant: the length of the presences is not compared.
CanLookAheadPast(s, t) ==
    LET m == ModeAt(t)
    IN  t <= latestTime /\ m # NoMode /\ HasSamplesAt(m, t) /\ LeftBefore(m, s, t)

\* can_look_ahead, whose search for the presence of t may fail its assertion.
CanLookAhead(s, t) ==
    LET m == ModeAt(t)
    IN  /\ t <= latestTime
        /\ m # NoMode /\ HasSamplesAt(m, t)
        /\ HasEntry(m, t)
        /\ t - EntryTime(m, t) < Step * RangeUpper(PresencesIn(m, s))
        /\ LeftBefore(m, s, t)

-----------------------------------------------------------------------------
(* Acquiring a state.                                                       *)

Repeat(sample, n) == [i \in 1..(IF n > 0 THEN n ELSE 0) |-> sample]

\* Mutant: the history of a mode ends with the last sample received in it.
PadNothing(samples, elapsed) == samples

\* The last sample stands for those missing when the mode is left.
Pad(samples, elapsed) ==
    IF elapsed > Step * Len(samples)
    THEN samples \o Repeat(Last(samples), (elapsed \div Step) - (Len(samples) - 1))
    ELSE samples

\* The sample of p at index; with no history index is the end of the buffer.
AddSample(samples, p, index, missing) ==
    LET extended == IF missing > 0
                    THEN samples \o Repeat(Last(samples), missing - 1) \o <<{}>>
                    ELSE samples
    IN  [extended EXCEPT ![index] = @ \cup {p}]

\* The mode that is left ends the trace.
TraceLeaving(m, t) ==
    IF latestMode = NoMode THEN traces
    ELSE Append(traces, [time |-> t, trace |-> Append(Last(traces).trace, latestMode)])

PresenceLeft(m, t) ==
    [mode |-> latestMode, exit |-> m,
     from |-> IF presences = <<>> THEN t ELSE Last(presences).to, to |-> t]

\* What the history is after the change of mode, if there is one.
Entered(m, t) ==
    IF m = latestMode
    THEN [presences |-> presences, states |-> states, buffer |-> buffer, traces |-> traces]
    ELSE LET left == IF latestMode = NoMode THEN states
                     ELSE [states EXCEPT ![latestMode] = Append(@, [time |-> t,
                            samples |-> Pad(buffer, t - EntryTime(latestMode, t))])]
         IN  [presences |-> Append(presences, PresenceLeft(m, t)),
              states |-> left,
              buffer |-> IF left[m] = <<>> THEN <<>> ELSE Last(left[m]).samples,
              traces |-> TraceLeaving(m, t)]

\* What is left after removing from the front until the entry k, or all.
KeepFrom(entries, k) == IF k = 0 THEN <<>> ELSE SubSeq(entries, k, Len(entries))

\* Every trace keeps as many modes as there are sizes of traces up to it.
ReduceTraces(ts) ==
    LET size(k) == Len(ts[k].trace)
        desired(k) == Cardinality({size(j) : j \in 1..k})
    IN  [k \in 1..Len(ts) |-> [ts[k] EXCEPT !.trace =
            ReduceBetween(@, size(k) - desired(k) + 1, size(k))]]

\* remove_older_than, in the handler of a state at time t.
PurgeDue(t, ps) == t - Head(ps).from > Retention + Period
KeptPresences(t, ps) == KeepFrom(ps, SelectInSeq(ps, LAMBDA p : p.to >= t - Retention))
\* Mutant: what ended at the bound itself is removed too.
KeptTracesAfter(t, ts) == KeepFrom(ts, SelectInSeq(ts, LAMBDA e : e.time > t - Retention))

KeptTraces(t, ts) == KeepFrom(ts, SelectInSeq(ts, LAMBDA e : e.time >= t - Retention))

Purge(t, ps, ts) ==
    IF ~PurgeDue(t, ps)
    THEN presences' = ps /\ traces' = ts /\ failure' = FALSE
    ELSE /\ presences' = KeptPresences(t, ps)
         /\ traces' = ReduceTraces(KeptTraces(t, ts))
         /\ failure' = (KeptPresences(t, ps) = <<>> \/ KeptTraces(t, ts) = <<>>)

\* The buffer of the latest mode with a state at p; with no history the sample
\* is the next one of the buffer.
Sampled(ps, st, buf, m, p, t) ==
    LET index == (t - Last(ps).to) \div Step
        stored == IF st[m] = <<>> THEN 0 ELSE Len(Last(st[m]).samples)
    IN  IF stored = 0 THEN AddSample(buf, p, Len(buf) + 1, 1)
        ELSE AddSample(buf, p, index + 1, index - (stored - 1))

Acquire(m, p, t) ==
    LET e == Entered(m, t)
    IN  /\ ~failure
        /\ states' = e.states
        /\ buffer' = Sampled(e.presences, e.states, e.buffer, m, p, t)
        /\ latestMode' = m
        /\ latestTime' = t
        /\ Purge(t, e.presences, e.traces)

\* The broker delivers the states of a robot in order.
HistoryNext ==
    \E m \in Modes : \E p \in Places[m], gap \in Gaps :
        /\ latestMode = NoMode => m \in FirstModes
        /\ latestTime + gap <= MaxTime
        /\ Acquire(m, p, latestTime + gap)

HistorySpec == HistoryInit /\ [][HistoryNext]_history
-----------------------------------------------------------------------------
(* The variables keep their types: the presences are intervals, samples are *)
(* sets of points, and the traces and states are appended in order of time  *)
(* (state.hpp:186-196).                                                     *)
HistoryTypeOK ==
    /\ presences \in Seq(Presence)
    /\ \A k \in 1..Len(presences) : presences[k].from <= presences[k].to
    /\ states \in [Modes -> Seq([time : 0..MaxTime, samples : Seq(SUBSET Points)])]
    /\ latestMode \in Modes \cup {NoMode}
    /\ latestTime \in 0..MaxTime
    /\ buffer \in Seq(SUBSET Points)
    /\ traces \in Seq([time : 0..MaxTime, trace : Seq(Modes)])
    /\ failure \in BOOLEAN

(* The times of the history that can be asked for: since the first change of *)
(* mode that is kept.                                                       *)
Past == IF failure \/ presences = <<>> THEN {} ELSE Head(presences).to..latestTime

(* What a snapshot at s, and a job that starts then, see of the history.     *)
ObservedAt(s) ==
    [mode |-> ModeAt(s),
     index |-> SampleIndex(ModeAt(s), s),
     ahead |-> CanLookAhead(s, s),
     trace |-> TraceAt(s),
     samples |-> [m \in ModesWithSamples(s) |-> Samples(m, s)],
     ranges |-> [m \in Modes |-> <<RangeLower(PresencesIn(m, s)), RangeUpper(PresencesIn(m, s))>>],
     exits |-> [m \in Modes |-> PresencesInto(m, s)]]

(* The trace of a snapshot is the path the robot has taken: the modes that   *)
(* it has left by then, in order, each entered at the time and from the mode *)
(* the one before was left, also after the purge has cut both; there is a    *)
(* trace at every time of the past, so that mode_trace finds one (state.cpp: *)
(* 186-203, 317-325, 341-349).                                              *)
TracesMatchPresences ==
    LET left(s) == {k \in 1..Len(presences) : presences[k].mode # NoMode /\ presences[k].to <= s}
        rank(s, k) == Cardinality({j \in left(s) : j <= k})
    IN  /\ \A k \in 1..(Len(presences) - 1) :
              /\ presences[k].exit = presences[k + 1].mode
              /\ presences[k].to = presences[k + 1].from
        /\ presences # <<>> => Last(presences).exit = latestMode
        /\ \A s \in Past :
              /\ HasTrace(s) /\ Len(TraceAt(s)) = Cardinality(left(s))
              /\ \A k \in left(s) : TraceAt(s)[rank(s, k)] = presences[k].mode

(* A look-ahead always has where to go: when the robot can be looked ahead   *)
(* at a time, the modes that may follow the one at that time, and those that *)
(* follow them, are never none (the assertion of                            *)
(* lookahead_job_factory.cpp:45), and they are the modes that followed when  *)
(* the past agreed with the present for longest (mode.cpp:214-256).         *)
NextModesExist ==
    \A s \in Past : CanLookAhead(s, s) =>
        LET full == Merge(TraceAt(s), <<ModeAt(s)>>)
        IN  /\ TraceAt(s) # <<>>
            /\ NextModes(full) # {} /\ NextModes(full) = Successors(full)
            /\ \A m \in NextModes(full) : NextModes(Append(full, m)) # {}

(* The samples of a snapshot reach as far as the presences it counts, so     *)
(* that a time that can be looked ahead has its sample there (the assertion  *)
(* of state.cpp:413), and the buffer that of the latest state (state.cpp:286).*)
SamplesCover ==
    /\ \A s \in Past : \A m \in ModesWithSamples(s) :
          NumSamples(m, s) >= RangeUpper(PresencesIn(m, s))
    /\ \A s \in Past, t \in Past : s <= t /\ CanLookAhead(s, t) =>
          SampleIndex(ModeAt(t), t) < NumSamples(ModeAt(t), s)
    /\ latestMode # NoMode /\ ~failure /\ states[latestMode] # <<>> =>
          SampleIndex(latestMode, latestTime) < Len(buffer)

(* A purge takes the last presence or trace, which the precondition of       *)
(* state.cpp:182 and the front of state.cpp:195 rely on, only from a robot   *)
(* that has stayed in one mode for longer than the retention: as long as it  *)
(* changes modes within it, both are left.                                  *)
OnlyStillRobotEmptied ==
    [][failure' => /\ latestMode' = latestMode
                   /\ latestTime' - Last(presences).to > Retention]_history

(* The purge leaves the history a presence: OPERA_PRECONDITION(not           *)
(* _mode_presences.empty()) of state.cpp:182, which the handler evaluates    *)
(* after it (runtime_io.cpp:115).                                           *)
PurgeLeavesPresence == ~failure
=============================================================================
