-------------------------------- MODULE Barriers -------------------------------
(***************************************************************************)
(* The barriers that let a job reuse what another human sample has shown      *)
(* (barrier.cpp, trace_sample_range.cpp).  A barrier says that no robot       *)
(* sample of its range is nearer than its distance to the human sample of    *)
(* its section; a sequence is made of sections, whose ranges follow.         *)
(*                                                                         *)
(* Trace and sample indices count from 0, as in the code.  The geometry is   *)
(* what the barriers need of it: how near a robot sample is to a human        *)
(* sample (minimum_human_robot_distance) and how far a human sample is from  *)
(* another (maximum_human_human_distance), with the triangle inequality.     *)
(***************************************************************************)
EXTENDS Integers, Sequences, SequencesExt, Choosing

CONSTANTS
    HumanSamples,   \* samples of a human segment, none of them empty
    RobotSamples,   \* samples of a robot segment, none of them empty
    RobotDistance,  \* minimum_human_robot_distance
    HumanDistance   \* maximum_human_human_distance, from the first to the other

ASSUME DistanceAssumption ==
    /\ RobotDistance \in [HumanSamples -> [RobotSamples -> Nat]]
    /\ HumanDistance \in [HumanSamples -> [HumanSamples -> Nat]]
    /\ \A h1, h2 \in HumanSamples, r \in RobotSamples :
           RobotDistance[h1][r] <= HumanDistance[h1][h2] + RobotDistance[h2][r]

Index == [trace : Nat, sample : Nat]
TraceSampleRange == [initial : Index, bounds : Seq(Nat)]
Barrier == [distance : Nat, range : TraceSampleRange]
Section == [human : HumanSamples, barriers : Seq(Barrier)]

-----------------------------------------------------------------------------
(* TraceSampleRange.                                                        *)

RangeAt(index) == [initial |-> index, bounds |-> <<index.sample>>]
MaxTrace(range) == range.initial.trace + Len(range.bounds) - 1
MaxSample(range) == Last(range.bounds)

\* update: the sample must come after the last one.
CanUpdate(range, sample) == sample > MaxSample(range)
Update(range, sample) == [range EXCEPT !.bounds[Len(range.bounds)] = sample]

\* increase_trace_index, for an index of a later mode.  The loop compares with
\* the maximum it has itself increased, and makes half of the steps.
Increase(range, trace) ==
    [range EXCEPT !.bounds = @ \o [i \in 1..((trace - MaxTrace(range) + 1) \div 2) |-> 0]]

TrimDown(range, bound) ==
    [range EXCEPT !.bounds = SubSeq(@, 1, bound - range.initial.trace + 1)]

\* Mutant: a range that begins before the amount is scaled like the others.
ScaleAll(range, amount) == [range EXCEPT !.initial.trace = @ - amount]

ScaleDown(range, amount) ==
    IF range.initial.trace < amount
    THEN [initial |-> [trace |-> 0, sample |-> 0],
          bounds |-> SubSeq(range.bounds, amount - range.initial.trace + 1, Len(range.bounds))]
    ELSE [range EXCEPT !.initial.trace = @ - amount]

-----------------------------------------------------------------------------
(* Sections.                                                                *)

NewSection(h) == [human |-> h, barriers |-> <<>>]

SectionCollides(section) ==
    section.barriers # <<>> /\ Last(section.barriers).distance = 0

\* Mutant: a sample as near as the last barrier begins another one.
NotFarther(section, r) ==
    \/ section.barriers = <<>>
    \/ RobotDistance[section.human][r] <= Last(section.barriers).distance

Nearer(section, r) ==
    \/ section.barriers = <<>>
    \/ RobotDistance[section.human][r] < Last(section.barriers).distance

\* check_and_update: whether the update's precondition holds, and its result.
CanCheck(section, r, index) ==
    SectionCollides(section) \/ Nearer(section, r)
        \/ index.trace > MaxTrace(Last(section.barriers).range)
        \/ CanUpdate(Last(section.barriers).range, index.sample)

UpdateWith(barrier, index) ==
    IF index.trace > MaxTrace(barrier.range)
    THEN [barrier EXCEPT !.range = Increase(@, index.trace)]
    ELSE [barrier EXCEPT !.range = Update(@, index.sample)]

Check(section, r, index) ==
    IF SectionCollides(section) THEN section
    ELSE [section EXCEPT !.barriers =
            IF Nearer(section, r)
            THEN Append(@, [distance |-> RobotDistance[section.human][r], range |-> RangeAt(index)])
            ELSE Append(Front(@), UpdateWith(Last(@), index))]

\* Mutant: the distance of the humans may equal that of the barrier.
ReuseEqual(barriers, distance) ==
    SelectLastInSeq(barriers, LAMBDA b : distance <= b.distance)

\* _reuse_element: the last barrier farther than distance, by bisection; 0 if
\* there is none.
ReuseElement(barriers, distance) ==
    LET n == Len(barriers)
        bisect[bounds \in (1..n) \X (1..n)] ==
            LET lower == bounds[1]
                upper == bounds[2]
                middle == (lower + upper) \div 2
            IN  IF upper <= lower + 1 THEN middle
                ELSE IF distance >= barriers[middle].distance THEN bisect[<<lower, middle>>]
                ELSE bisect[<<middle, upper>>]
    IN  IF n = 0 \/ distance >= barriers[1].distance THEN 0
        ELSE IF distance < barriers[n].distance THEN n
        ELSE bisect[<<1, n>>]

\* _trim_down_trace_index_ranges_to.
Trim(barriers, bound) ==
    LET kept == SubSeq(barriers, 1,
                       SelectLastInSeq(barriers, LAMBDA b : b.range.initial.trace <= bound))
    IN  IF kept = <<>> \/ MaxTrace(Last(kept).range) <= bound THEN kept
        ELSE [kept EXCEPT ![Len(kept)].range = TrimDown(@, bound)]

Outdated(barrier, lower, sample) ==
    \/ MaxTrace(barrier.range) < lower
    \/ MaxTrace(barrier.range) = lower /\ MaxSample(barrier.range) < sample

DropOutdated(barriers, lower, sample) ==
    LET first == SelectInSeq(barriers, LAMBDA b : ~Outdated(b, lower, sample))
    IN  IF first = 0 THEN <<>> ELSE SubSeq(barriers, first, Len(barriers))

ResetSection(section, h, lower, upper, sample) ==
    LET trimmed == Trim(section.barriers, upper)
        reuse == ReuseElement(trimmed, HumanDistance[section.human][h])
        recent == DropOutdated(SubSeq(trimmed, 1, reuse), lower, sample)
    IN  [section EXCEPT !.barriers =
            [i \in 1..Len(recent) |-> [recent[i] EXCEPT !.range = ScaleDown(@, lower)]]]

-----------------------------------------------------------------------------
(* Sequences of sections.                                                   *)

LastBarrier(sections) == Last(Last(sections).barriers)

LastUpperTrace(sections) ==
    IF sections = <<>> \/ Last(sections).barriers = <<>> THEN 0
    ELSE MaxTrace(LastBarrier(sections).range)

ReplaceLast(sections, section) == Append(Front(sections), section)

\* Whether a policy finds the sample r free for the human sample h: a section of
\* the same h that collides is not asked again.
Free(sections, h, r) ==
    /\ RobotDistance[h][r] > 0
    /\ sections = <<>> \/ Last(sections).human # h \/ ~SectionCollides(Last(sections))

\* The update policies: the sequence after checking the sample r at index.
KeepOne(sections, h, r, index) ==
    ReplaceLast(sections, Check(Last(sections), r, index))

AddWhenDifferent(sections, h, r, index) ==
    IF Last(sections).human = h THEN ReplaceLast(sections, Check(Last(sections), r, index))
    ELSE IF SectionCollides(Last(sections)) THEN sections
    ELSE Append(sections, Check(NewSection(h), r, index))

\* A section that the update makes collide is cut, and another one begins.
AddWhenNecessary(sections, h, r, index) ==
    LET checked == Check(Last(sections), r, index)
        cut == [checked EXCEPT !.barriers = Front(@)]
    IN  IF Last(sections).human = h THEN ReplaceLast(sections, checked)
        ELSE IF SectionCollides(Last(sections)) THEN sections
        ELSE IF RobotDistance[checked.human][r] > 0 THEN ReplaceLast(sections, checked)
        ELSE ReplaceLast(sections, cut) \o <<Check(NewSection(h), r, index)>>

Policies == {"keep one", "different", "necessary"}

Policy(policy, sections, h, r, index) ==
    CASE policy = "keep one"  -> KeepOne(sections, h, r, index)
      [] policy = "different" -> AddWhenDifferent(sections, h, r, index)
      [] policy = "necessary" -> AddWhenNecessary(sections, h, r, index)

\* check_and_update of the sequence.
CheckSequence(policy, sections, h, r, index) ==
    LET begun == IF sections = <<>> THEN <<NewSection(h)>> ELSE sections
        checked == Policy(policy, begun, h, r, index)
    IN  IF Last(checked).barriers = <<>> THEN Front(checked) ELSE checked

\* The section whose check this is, for its precondition.
CanCheckSequence(policy, sections, h, r, index) ==
    \/ sections = <<>>
    \/ policy = "different" /\ Last(sections).human # h
    \/ CanCheck(Last(sections), r, index)

\* reset: the sections after one that has lost barriers are dropped.
Reset(sections, h, lower, upper, sample) ==
    LET reset(k) == ResetSection(sections[k], h, lower, upper, sample)
        shrunk == {k \in 1..Len(sections) :
                       Len(reset(k).barriers) < Len(sections[k].barriers)}
        kept == {n \in 0..Len(sections) : \A k \in shrunk : n <= k}
        size == CHOOSE n \in kept : \A k \in kept : k <= n
    IN  EntriesAt([k \in 1..size |-> reset(k)], {k \in 1..size : reset(k).barriers # <<>>})
-----------------------------------------------------------------------------
(* What barriers in order are.                                              *)

\* A range has a bound for every mode and ends before the index.
EndsBefore(range, index) ==
    /\ range.bounds # <<>>
    /\ \/ MaxTrace(range) < index.trace
       \/ MaxTrace(range) = index.trace /\ MaxSample(range) < index.sample

\* Every barrier is nearer than those before, and begins after their end.
Nearing(barriers) ==
    \A i, k \in 1..Len(barriers) : i < k => barriers[i].distance > barriers[k].distance
Follows(barriers) ==
    /\ Last(barriers).range.bounds # <<>>
    /\ \A i, k \in 1..Len(barriers) : i < k =>
          EndsBefore(barriers[i].range, barriers[k].range.initial)
=============================================================================
