----------------------------- MODULE LookAheadProofs ----------------------------
(***************************************************************************)
(* Proofs about the jobs of a pair (LookAhead): the searches and the barriers *)
(* they leave, the branches of a job and their paths, the invariants of the   *)
(* jobs, and that none fails while its snapshot is kept, on top of what       *)
(* PartsProofs shows of barriers and of the history of the robot.            *)
(***************************************************************************)
EXTENDS LookAhead, PartsProofs

-----------------------------------------------------------------------------
(* The search of a job keeps its barriers in order.                         *)

\* The barriers do not reach beyond a position.
Within(sections, p) ==
    \A k \in 1..Len(sections) : \A i \in 1..Len(sections[k].barriers) :
        MaxTrace(sections[k].barriers[i].range) <= p

\* The nodes of a path are at increasing positions that are not beyond p.
PathFits(path, p) ==
    \A k \in 1..Len(path) :
        /\ path[k].position \in 1..p
        /\ k > 1 => path[k - 1].position < path[k].position

\* What holds of each job, besides its type.
FitJobs == {j \in Job : /\ j.trace # <<>> /\ j.initial <= latestTime
                        /\ Chained(j.sections) /\ Within(j.sections, Position(j))
                        /\ PathFits(j.path, Position(j))}

LEMMA JobFields ==
    ASSUME NEW j \in Job
    PROVE  /\ j.initial \in 0..MaxTime /\ j.initial \in Nat
           /\ j.snapshot \in 0..MaxTime /\ j.snapshot \in Nat
           /\ j.human \in HumanSamples \cup {NoSample}
           /\ j.trace \in Seq(Modes) /\ Len(j.trace) \in Nat
           /\ j.path \in Seq(Node) /\ j.sections \in Seq(Section)
           /\ j.since \in 0..MaxTime /\ j.astray \in BOOLEAN
           /\ j.trace # <<>> =>
                 /\ Len(j.trace) >= 1 /\ Position(j) \in Nat /\ Mode(j) \in Modes
                 /\ Head(j.trace) \in Modes /\ Head(j.trace) = j.trace[1]
                 /\ Mode(j) = j.trace[Len(j.trace)]
  <1>1. /\ j.initial \in 0..MaxTime /\ j.snapshot \in 0..MaxTime
        /\ j.human \in HumanSamples \cup {NoSample}
        /\ j.trace \in Seq(Modes) /\ j.path \in Seq(Node) /\ j.sections \in Seq(Section)
        /\ j.since \in 0..MaxTime /\ j.astray \in BOOLEAN
    BY DEF Job
  <1>2. j.initial \in Nat /\ j.snapshot \in Nat
    BY <1>1, TimesAssumption
  <1>3. ASSUME j.trace # <<>>
        PROVE  /\ Len(j.trace) \in Nat /\ Len(j.trace) >= 1 /\ Mode(j) \in Modes
               /\ Head(j.trace) \in Modes /\ Head(j.trace) = j.trace[1]
               /\ Mode(j) = j.trace[Len(j.trace)]
    BY <1>1, <1>3 DEF Mode, Last
  <1>4. j.trace # <<>> => Position(j) \in Nat
    BY <1>3 DEF Position
  <1> QED
    BY <1>1, <1>2, <1>3, <1>4

\* A job with other sections.
LEMMA JobWithSections ==
    ASSUME NEW j \in FitJobs, NEW q \in Seq(Section), Chained(q), Within(q, Position(j))
    PROVE  LET c == [j EXCEPT !.sections = q]
           IN  c \in FitJobs /\ c.human = j.human /\ c.trace = j.trace /\ c.initial = j.initial
                 /\ c.path = j.path /\ c.snapshot = j.snapshot
  <1>1. j \in Job
    BY DEF FitJobs
  <1>2. PICK c : c = [j EXCEPT !.sections = q]
    OBVIOUS
  <1>3. /\ c \in Job /\ c.human = j.human /\ c.trace = j.trace /\ c.initial = j.initial
        /\ c.path = j.path /\ c.snapshot = j.snapshot /\ c.sections = q
    BY <1>1, <1>2 DEF Job
  <1>4. c \in FitJobs
    BY <1>3 DEF FitJobs, Position
  <1> QED
    BY <1>2, <1>3, <1>4

\* The last barrier reaches farthest.
LEMMA LastBarrierIs ==
    ASSUME NEW sections \in Seq(Section), Chained(sections), sections # <<>>
    PROVE  /\ LastBarrier(sections) \in Barrier
           /\ LastBarrier(sections).range \in TraceSampleRange
           /\ RangeFits(LastBarrier(sections).range)
           /\ LastUpperTrace(sections) = MaxTrace(LastBarrier(sections).range)
           /\ LastUpperTrace(sections) \in Nat
           /\ \E k \in 1..Len(sections) : \E i \in 1..Len(sections[k].barriers) :
                 LastBarrier(sections) = sections[k].barriers[i]
           /\ \A k \in 1..Len(sections) : \A i \in 1..Len(sections[k].barriers) :
                 LET range == sections[k].barriers[i].range
                 IN  /\ MaxTrace(range) <= LastUpperTrace(sections)
                     /\ MaxTrace(range) = LastUpperTrace(sections) =>
                           MaxSample(range) <= MaxSample(LastBarrier(sections).range)
  <1> DEFINE n == Len(sections)
             b == sections[n].barriers
             m == Len(b)
             last == LastBarrier(sections)
  <1>1. n \in Nat /\ n \in 1..n /\ Last(sections) = sections[n]
    BY DEF Last
  <1>2. /\ Ordered(b) /\ b # <<>> /\ b \in Seq(Barrier) /\ m \in Nat /\ m \in 1..m
        /\ last = b[m]
    <2>1. Ordered(b) /\ b # <<>> /\ b \in Seq(Barrier)
      BY <1>1, SectionsAre DEF Chained, Ordered
    <2>2. m \in Nat /\ m \in 1..m
      BY <2>1
    <2>3. last = b[m]
      BY <1>1 DEF LastBarrier, Last
    <2> QED
      BY <2>1, <2>2, <2>3
  <1>3. /\ last \in Barrier /\ last.range \in TraceSampleRange /\ RangeFits(last.range)
        /\ LastUpperTrace(sections) = MaxTrace(last.range)
    <2>1. last \in Barrier /\ last.range \in TraceSampleRange /\ RangeFits(last.range)
      BY <1>2, BarrierFields DEF Ordered
    <2>2. LastUpperTrace(sections) = MaxTrace(last.range)
      BY <1>1, <1>2 DEF LastUpperTrace
    <2> QED
      BY <2>1, <2>2
  <1>4. LastUpperTrace(sections) \in Nat /\ MaxSample(last.range) \in Nat
    BY <1>3, RangeFields DEF RangeFits
  <1>5. \E k \in 1..n : \E i \in 1..Len(sections[k].barriers) : last = sections[k].barriers[i]
    BY <1>1, <1>2
  <1> HIDE DEF last
  <1>6. ASSUME NEW k \in 1..n, NEW i \in 1..Len(sections[k].barriers)
        PROVE  LET range == sections[k].barriers[i].range
               IN  /\ MaxTrace(range) <= LastUpperTrace(sections)
                   /\ MaxTrace(range) = LastUpperTrace(sections) =>
                         MaxSample(range) <= MaxSample(last.range)
    <2> DEFINE range == sections[k].barriers[i].range
    <2>1. range \in TraceSampleRange
      BY SectionsAre
    <2>2. CASE range = last.range
      BY <2>2, <1>3, <1>4
    <2>3. CASE EndsBefore(range, last.range.initial)
      <3>1. last.range.initial \in Index
        BY <1>3, RangeFields
      <3>2. /\ MaxTrace(range) <= MaxTrace(last.range)
            /\ MaxTrace(range) = MaxTrace(last.range) => MaxSample(range) < MaxSample(last.range)
        <4> HIDE DEF range
        <4> QED
          BY <3>1, <2>1, <2>3, <1>3, EndsEarlier
      <3>3. MaxTrace(range) \in Nat /\ MaxSample(range) \in Nat
        BY <2>1, <2>3, RangeFields DEF EndsBefore
      <3> HIDE DEF range
      <3>4. /\ MaxTrace(range) <= LastUpperTrace(sections)
            /\ MaxTrace(range) = LastUpperTrace(sections) => MaxSample(range) <= MaxSample(last.range)
        BY <3>2, <3>3, <1>3, <1>4
      <3> QED
        BY <3>4 DEF range
    <2>4. CASE k # n
      <3>1. k < n
        BY <2>4, <1>1
      <3>2. EndsBefore(range, last.range.initial)
        BY <3>1, <1>1, <1>2 DEF Chained
      <3> QED
        BY <3>2, <2>3
    <2>5. CASE k = n
      <3>1. range = b[i].range /\ i \in 1..m
        BY <2>5
      <3>2. i = m \/ i < m
        BY <3>1, <1>2
      <3>3. i < m => EndsBefore(b[i].range, b[m].range.initial)
        BY <3>1, <1>2 DEF Ordered
      <3> HIDE DEF range
      <3>4. range = last.range \/ EndsBefore(range, last.range.initial)
        BY <3>1, <3>2, <3>3, <1>2
      <3> QED
        BY <3>4, <2>2, <2>3 DEF range
    <2> QED
      BY <2>4, <2>5
  <1> HIDE DEF n
  <1>7. \A k \in 1..n : \A i \in 1..Len(sections[k].barriers) :
           LET range == sections[k].barriers[i].range
           IN  /\ MaxTrace(range) <= LastUpperTrace(sections)
               /\ MaxTrace(range) = LastUpperTrace(sections) => MaxSample(range) <= MaxSample(last.range)
    BY <1>6
  <1> QED
    BY <1>3, <1>4, <1>5, <1>7 DEF last, n

\* Where the search begins the barriers have all ended.
LEMMA CoveredEnds ==
    ASSUME NEW j \in FitJobs, First(j) \in Nat
    PROVE  /\ FirstNotCovered(j) \in Nat /\ First(j) <= FirstNotCovered(j)
           /\ Done(j.sections, [trace |-> Position(j), sample |-> FirstNotCovered(j)])
  <1> DEFINE s == j.sections
             first == FirstNotCovered(j)
             p == Position(j)
             index == [trace |-> p, sample |-> first]
  <1>1. s \in Seq(Section) /\ Chained(s) /\ Within(s, p) /\ p \in Nat
    BY JobFields DEF FitJobs
  <1>2. CASE s = <<>>
    <2>1. first = First(j) /\ Len(s) = 0
      BY <1>2 DEF FirstNotCovered
    <2>2. Done(s, index)
      BY <2>1 DEF Done
    <2> HIDE DEF first
    <2> QED
      BY <2>1, <2>2 DEF first
  <1>3. CASE s # <<>>
    <2> DEFINE last == LastBarrier(s).range
    <2>1. /\ last \in TraceSampleRange /\ RangeFits(last) /\ LastUpperTrace(s) = MaxTrace(last)
          /\ MaxTrace(last) \in Nat /\ MaxSample(last) \in Nat /\ MaxTrace(last) <= p
      <3>1. /\ last \in TraceSampleRange /\ RangeFits(last) /\ LastUpperTrace(s) = MaxTrace(last)
            /\ \E k \in 1..Len(s) : \E i \in 1..Len(s[k].barriers) : LastBarrier(s) = s[k].barriers[i]
        BY <1>1, <1>3, LastBarrierIs
      <3>2. MaxTrace(last) \in Nat /\ MaxSample(last) \in Nat
        BY <3>1, RangeFields DEF RangeFits
      <3>3. MaxTrace(last) <= p
        BY <3>1, <1>1 DEF Within
      <3> QED
        BY <3>1, <3>2, <3>3
    <2>2. FromBarrier(j) = MaxSample(last) + 1
      BY DEF FromBarrier
    <2>3. /\ first \in Nat /\ First(j) <= first
          /\ MaxTrace(last) = p => MaxSample(last) < first
      <3> HIDE DEF last
      <3>1. first = IF MaxTrace(last) # p \/ MaxSample(last) + 1 < First(j)
                    THEN First(j) ELSE MaxSample(last) + 1
        BY <1>3, <2>1, <2>2 DEF FirstNotCovered
      <3> HIDE DEF first
      <3> QED
        BY <3>1, <2>1
    <2> HIDE DEF first
    <2>4. index.trace = p /\ index.sample = first
      OBVIOUS
    <2>5. ASSUME NEW k \in 1..Len(s), NEW i \in 1..Len(s[k].barriers)
          PROVE  EndsBefore(s[k].barriers[i].range, index)
      <3> DEFINE range == s[k].barriers[i].range
      <3>1. /\ range \in TraceSampleRange /\ MaxTrace(range) <= MaxTrace(last)
            /\ MaxTrace(range) = MaxTrace(last) => MaxSample(range) <= MaxSample(last)
        BY <1>1, <1>3, <2>1, SectionsAre, LastBarrierIs
      <3>2. RangeFits(range)
        BY <1>1 DEF Chained, Ordered
      <3> HIDE DEF range, last, index, p
      <3>3. range.bounds # <<>> /\ MaxTrace(range) \in Nat /\ MaxSample(range) \in Nat
        BY <3>1, <3>2, RangeFields DEF RangeFits
      <3>4. MaxTrace(range) < p \/ (MaxTrace(range) = p /\ MaxSample(range) < first)
        BY <3>1, <3>3, <2>1, <2>3, <1>1
      <3> QED
        BY <3>3, <3>4, <2>4 DEF EndsBefore, range
    <2> HIDE DEF index
    <2>6. Done(s, index)
      BY <2>5 DEF Done, AllEnd
    <2> QED
      BY <2>3, <2>6 DEF first, index
  <1> QED
    BY <1>2, <1>3

\* What a state of the history tells of the samples of a search.
LEMMA SamplesOfSearch ==
    ASSUME HistoryInv, ~failure, NEW j \in FitJobs, CanSearch(j)
    PROVE  /\ Seen /\ First(j) \in Nat
           /\ NumSamples(Mode(j), j.snapshot) \in Nat
           /\ Final(j) \in Int /\ Final(j) < NumSamples(Mode(j), j.snapshot)
           /\ \A i \in 1..NumSamples(Mode(j), j.snapshot) :
                 Samples(Mode(j), j.snapshot)[i] \in SUBSET Points
  <1> DEFINE m == Mode(j)
             s == j.snapshot
             E == states[m]
             K == LastUpTo(E, s)
  <1>1. /\ j \in Job /\ j.trace # <<>> /\ m \in Modes /\ s \in Nat /\ j.initial \in Nat
        /\ Len(j.trace) \in Nat /\ Len(j.trace) >= 1
        /\ Head(j.trace) = j.trace[1] /\ m = j.trace[Len(j.trace)]
    BY JobFields DEF FitJobs
  <1>2. HistoryTypeOK /\ HasSamplesAt(m, s)
    BY DEF HistoryInv, CanSearch
  <1>3. /\ E \in Seq(SampleEntry) /\ Len(E) \in Nat
        /\ \A i \in 1..Len(E) : /\ E[i].samples \in Seq(SUBSET Points)
                                /\ Len(E[i].samples) \in Nat
    BY <1>1, <1>2, Times, StatesAre
  <1>4. K \in 1..Len(E)
    <2>1. K \in 0..Len(E) /\ K > 0
      BY <1>1, <1>2, <1>3, LastUpToIs DEF HasSamplesAt
    <2> HIDE DEF K
    <2> QED
      BY <2>1, <1>3
  <1>5. Seen
    <2>1. ~Fresh
      <3> SUFFICES ASSUME Fresh PROVE FALSE
        OBVIOUS
      <3>1. E = <<>>
        BY <1>1 DEF Fresh
      <3>2. Len(E) = 0
        BY <3>1
      <3> HIDE DEF E
      <3> QED
        BY <3>2, <1>4
    <2> QED
      BY <2>1 DEF HistoryInv
  <1>6. NumSamples(m, s) \in Nat /\ NumSamples(m, s) = Len(Samples(m, s))
        /\ Samples(m, s) \in Seq(SUBSET Points)
    BY <1>3, <1>4 DEF NumSamples, Samples
  <1> HIDE DEF K, E
  <1>7. ASSUME m = Head(j.trace)
        PROVE  Start(j) \in Nat /\ Start(j) < NumSamples(m, s)
    <2>1. HasEntry(m, j.initial) /\ SampleIndex(m, j.initial) < NumSamples(m, s)
      BY <1>7 DEF CanSearch, HasIndex
    <2>2. EntryTime(m, j.initial) \in Nat /\ EntryTime(m, j.initial) <= j.initial
      BY <1>1, <1>2, <1>5, <2>1, EntryIsEarlier
    <2>3. j.initial - EntryTime(m, j.initial) \in Nat
      BY <1>1, <2>2
    <2>4. SampleIndex(m, j.initial) \in Nat
      BY <2>3, Divides DEF SampleIndex
    <2> QED
      BY <1>7, <2>1, <2>4 DEF Start
  <1>8. First(j) \in Nat
    <2>1. CASE Len(j.trace) = 1
      BY <2>1, <1>1, <1>7 DEF First
    <2>2. CASE Len(j.trace) # 1
      BY <2>2 DEF First
    <2> QED
      BY <2>1, <2>2
  <1>9. Final(j) \in Int /\ Final(j) < NumSamples(m, s)
    <2>1. CASE BackAtStart(j)
      <3>1. Start(j) \in Nat /\ Start(j) < NumSamples(m, s)
        BY <2>1, <1>7 DEF BackAtStart
      <3>2. Final(j) = Start(j) - 1
        BY <2>1 DEF Final
      <3> QED
        BY <3>1, <3>2, <1>6
    <2>2. CASE ~BackAtStart(j)
      <3>1. Final(j) = NumSamples(m, s) - 1
        BY <2>2 DEF Final
      <3> HIDE DEF m, s
      <3> QED
        BY <3>1, <1>6
    <2> QED
      BY <2>1, <2>2
  <1>10. \A i \in 1..NumSamples(m, s) : Samples(m, s)[i] \in SUBSET Points
    BY <1>6
  <1> QED
    BY <1>5, <1>6, <1>7, <1>8, <1>9, <1>10

\* What a search has found up to the sample before n.
SearchedTo(j, n) ==
    [ok : {TRUE}, hit : {-1} \cup {i \in Nat : First(j) <= i},
     sections : {q \in Seq(Section) :
        Chained(q) /\ Done(q, [trace |-> Position(j), sample |-> n])}]

\* f gives what the search has found after each of the samples from first.
Searches(f, j, first, count) ==
    f = [n \in 0..count |->
           IF n = 0 THEN [ok |-> TRUE, hit |-> -1, sections |-> j.sections]
           ELSE SearchSample(j, f[n - 1], first + n - 1)]

\* Where all barriers have ended, the precondition of update holds.
LEMMA CheckIsPossible ==
    ASSUME NEW sections \in Seq(Section), Chained(sections), NEW index \in Index,
           Done(sections, index), NEW policy, NEW h, NEW r
    PROVE  CanCheckSequence(policy, sections, h, r, index)
  <1>1. CASE sections = <<>>
    BY <1>1 DEF CanCheckSequence
  <1>2. CASE sections # <<>>
    <2> DEFINE last == LastBarrier(sections).range
    <2>1. /\ last \in TraceSampleRange /\ RangeFits(last)
          /\ \E k \in 1..Len(sections) : \E i \in 1..Len(sections[k].barriers) :
                LastBarrier(sections) = sections[k].barriers[i]
      BY <1>2, LastBarrierIs
    <2>2. EndsBefore(last, index)
      BY <2>1 DEF Done, AllEnd
    <2>3. /\ MaxTrace(last) \in Nat /\ MaxSample(last) \in Nat
          /\ index.trace \in Nat /\ index.sample \in Nat
      BY <2>1, RangeFields DEF RangeFits, Index
    <2>4. index.trace > MaxTrace(last) \/ CanUpdate(last, index.sample)
      <3> HIDE DEF last
      <3> QED
        BY <2>2, <2>3 DEF EndsBefore, CanUpdate
    <2>5. last = Last(Last(sections).barriers).range
      BY DEF LastBarrier
    <2> HIDE DEF last
    <2> QED
      BY <2>4, <2>5 DEF CanCheckSequence, CanCheck
  <1> QED
    BY <1>1, <1>2

LEMMA SearchSampleOrders ==
    ASSUME NEW j \in FitJobs, j.human \in HumanSamples, factory \in Factories,
           NEW n \in Nat, First(j) <= n, Sample(j, n) \in SUBSET Points,
           NEW s \in SearchedTo(j, n)
    PROVE  SearchSample(j, s, n) \in SearchedTo(j, n + 1)
  <1> DEFINE r == Sample(j, n)
             p == Position(j)
             index == [trace |-> p, sample |-> n]
             next == [trace |-> p, sample |-> n + 1]
  <1>1. /\ s.ok = TRUE /\ s.hit \in {-1} \cup {i \in Nat : First(j) <= i}
        /\ s.sections \in Seq(Section)
        /\ Chained(s.sections) /\ Done(s.sections, index)
        /\ s = [ok |-> s.ok, hit |-> s.hit, sections |-> s.sections]
    BY DEF SearchedTo
  <1>2. p \in Nat /\ index \in Index /\ next \in Index /\ index.trace = next.trace
        /\ index.sample = n /\ next.sample = n + 1 /\ index.sample < next.sample
    <2>1. p \in Nat
      BY JobFields DEF FitJobs
    <2> QED
      BY <2>1 DEF Index
  <1>3. factory.policy \in Policies
    BY LookAheadAssumption
  <1> HIDE DEF index, next
  <1>4. Done(s.sections, next)
    <2>1. ASSUME NEW k \in 1..Len(s.sections), NEW i \in 1..Len(s.sections[k].barriers)
          PROVE  EndsBefore(s.sections[k].barriers[i].range, next)
      <3>1. EndsBefore(s.sections[k].barriers[i].range, index)
        BY <1>1 DEF Done, AllEnd
      <3>2. s.sections[k].barriers[i].range \in TraceSampleRange
        BY <1>1, SectionsAre
      <3>3. index.sample <= next.sample
        BY <1>2
      <3> QED
        BY <1>2, <3>1, <3>2, <3>3, EndsLater
    <2> QED
      BY <2>1 DEF Done, AllEnd
  <1>5. CASE s.hit >= 0 \/ r = {}
    <2>1. SearchSample(j, s, n) = s
      BY <1>5 DEF SearchSample
    <2> QED
      BY <2>1, <1>1, <1>4 DEF SearchedTo, next
  <1>6. CASE ~(s.hit >= 0 \/ r = {})
    <2> DEFINE checked == CheckSequence(factory.policy, s.sections, j.human, r, index)
    <2>1. r \in RobotSamples
      BY <1>6, LookAheadAssumption
    <2>2. checked \in Seq(Section) /\ Chained(checked) /\ Done(checked, next)
      <3> HIDE DEF r
      <3> QED
        BY <1>1, <1>2, <1>3, <2>1, SequenceOrders
    <2>3. CanCheckSequence(factory.policy, s.sections, j.human, r, index)
      BY <1>1, <1>2, CheckIsPossible
    <2>4. PICK hit \in {-1} \cup {i \in Nat : First(j) <= i} :
              hit = IF Free(s.sections, j.human, r) THEN -1 ELSE n
      OBVIOUS
    <2>5. SearchSample(j, s, n) = [ok |-> TRUE, hit |-> hit, sections |-> checked]
      BY <1>1, <1>6, <2>3, <2>4 DEF SearchSample, index
    <2> HIDE DEF checked
    <2> QED
      BY <2>2, <2>5 DEF SearchedTo, next
  <1> QED
    BY <1>5, <1>6

\* A search keeps the barriers in order and within the trace of its job.
LEMMA SearchKeeps ==
    ASSUME HistoryInv, ~failure, factory \in Factories, NEW j \in FitJobs,
           j.human \in HumanSamples, CanSearch(j)
    PROVE  /\ LET c == [j EXCEPT !.sections = Search(j).sections]
              IN  c \in FitJobs /\ c.human = j.human /\ c.trace = j.trace /\ c.initial = j.initial
                    /\ c.path = j.path /\ c.snapshot = j.snapshot
           /\ Search(j).ok /\ First(j) \in Nat
           /\ Search(j).hit >= 0 => First(j) <= Search(j).hit
  <1> DEFINE p == Position(j)
             first == FirstNotCovered(j)
             count == IF Final(j) < first THEN 0 ELSE Final(j) - first + 1
             F == CHOOSE f : Searches(f, j, first, count)
             S == [n \in 0..count |-> SearchedTo(j, first + n)]
             start == [ok |-> TRUE, hit |-> -1, sections |-> j.sections]
             step == [n \in 1..count |-> [x \in S[n - 1] |-> SearchSample(j, x, first + n - 1)]]
  <1>1. /\ j.sections \in Seq(Section) /\ Chained(j.sections) /\ Within(j.sections, p)
        /\ p \in Nat
    BY JobFields DEF FitJobs
  <1>2. /\ First(j) \in Nat /\ Final(j) \in Int /\ NumSamples(Mode(j), j.snapshot) \in Nat
        /\ Final(j) < NumSamples(Mode(j), j.snapshot)
        /\ \A i \in 1..NumSamples(Mode(j), j.snapshot) :
              Samples(Mode(j), j.snapshot)[i] \in SUBSET Points
    BY SamplesOfSearch
  <1>3. /\ first \in Nat /\ First(j) <= first
        /\ Done(j.sections, [trace |-> p, sample |-> first])
    BY <1>2, CoveredEnds
  <1> HIDE DEF first
  <1>4. /\ count \in Nat
        /\ \A n \in 1..count : /\ first + n - 1 \in Nat /\ first + n - 1 <= Final(j)
                               /\ First(j) <= first + n - 1
                               /\ n - 1 \in 0..count /\ n \in 0..count /\ n # 0
                               /\ first + (n - 1) = first + n - 1 /\ first + n - 1 + 1 = first + n
    BY <1>2, <1>3
  <1> HIDE DEF count
  <1>5. ASSUME NEW n \in 1..count
        PROVE  Sample(j, first + n - 1) \in SUBSET Points
    <2> DEFINE i == first + n - 1
    <2>1. i \in Nat /\ i <= Final(j)
      BY <1>4
    <2> HIDE DEF i
    <2>2. i + 1 \in 1..NumSamples(Mode(j), j.snapshot)
      BY <2>1, <1>2
    <2> QED
      BY <2>2, <1>2 DEF Sample, i
  <1>6. ASSUME NEW n \in 1..count, NEW x \in SearchedTo(j, first + n - 1)
        PROVE  SearchSample(j, x, first + n - 1) \in SearchedTo(j, first + n)
    <2> DEFINE i == first + n - 1
    <2>1. i \in Nat /\ First(j) <= i /\ i + 1 = first + n /\ Sample(j, i) \in SUBSET Points
      BY <1>4, <1>5
    <2>2. SearchSample(j, x, i) \in SearchedTo(j, i + 1)
      <3> HIDE DEF i
      <3>1. x \in SearchedTo(j, i)
        BY DEF i
      <3> QED
        BY <2>1, <3>1, SearchSampleOrders
    <2> QED
      BY <2>1, <2>2
  <1>7. start \in SearchedTo(j, first)
    BY <1>1, <1>3 DEF SearchedTo
  <1> HIDE DEF start
  <1>8. start \in S[0] /\ \A n \in 1..count : S[n - 1] = SearchedTo(j, first + n - 1)
                                            /\ S[n] = SearchedTo(j, first + n)
    <2>1. first + 0 = first /\ 0 \in 0..count
      BY <1>3, <1>4
    <2>2. S[0] = SearchedTo(j, first)
      BY <2>1
    <2>3. \A n \in 1..count : S[n - 1] = SearchedTo(j, first + n - 1) /\ S[n] = SearchedTo(j, first + n)
      BY <1>4
    <2> HIDE DEF S
    <2> QED
      BY <1>7, <2>2, <2>3
  <1> HIDE DEF S
  <1>9. \A n \in 1..count : \A x \in S[n - 1] :
           step[n][x] = SearchSample(j, x, first + n - 1) /\ step[n][x] \in S[n]
    BY <1>6, <1>8
  <1> HIDE DEF step
  <1>10. PICK f : /\ f = [n \in 0..count |-> f[n]]
                  /\ \A n \in 0..count : /\ f[n] = IF n = 0 THEN start ELSE step[n][f[n - 1]]
                                         /\ f[n] \in S[n]
    <2>1. count \in Nat /\ start \in S[0]
      BY <1>4, <1>8
    <2>2. \A n \in 1..count : \A x \in S[n - 1] : step[n][x] \in S[n]
      BY <1>9
    <2> HIDE DEF F, p
    <2>3. PICK f : f = Iterated(count, S, start, step)
      OBVIOUS
    <2>4. Iterates(f, count, S, start, step)
      BY <2>1, <2>2, <2>3, Recursion
    <2> QED
      BY <2>4 DEF Iterates
  <1>11. Searches(f, j, first, count)
    <2>1. \A n \in 0..count : f[n] = IF n = 0 THEN start ELSE SearchSample(j, f[n - 1], first + n - 1)
      <3> TAKE n \in 0..count
      <3>1. f[n] = IF n = 0 THEN start ELSE step[n][f[n - 1]]
        BY <1>10
      <3>2. n # 0 => n \in 1..count /\ n - 1 \in 0..count
        BY <1>4
      <3> QED
        BY <3>1, <3>2, <1>9, <1>10
    <2>2. f = [n \in 0..count |-> f[n]]
      BY <1>10
    <2>3. PICK g : g = f
      OBVIOUS
    <2>4. g = [n \in 0..count |-> IF n = 0 THEN start ELSE SearchSample(j, g[n - 1], first + n - 1)]
      BY <2>1, <2>2, <2>3
    <2> QED
      BY <2>3, <2>4 DEF Searches, start
  <1>12. Searches(F, j, first, count)
    BY <1>11
  <1>13. ReuseSearch(j) = F[count]
    BY DEF ReuseSearch, Searches, first, count
  <1> HIDE DEF F
  <1>14. \A n \in 0..count : F[n] = IF n = 0 THEN start ELSE SearchSample(j, F[n - 1], first + n - 1)
    BY <1>12 DEF Searches, start
  <1> DEFINE P == [n \in 0..count |-> F[n] \in S[n]]
  <1>15. P[0]
    <2>1. 0 \in 0..count
      BY <1>4
    <2> QED
      BY <2>1, <1>8, <1>14
  <1>16. ASSUME NEW n \in 1..count, P[n - 1]
         PROVE  P[n]
    <2>1. n \in 0..count /\ n - 1 \in 0..count /\ n # 0
      BY <1>4
    <2>2. F[n - 1] \in S[n - 1] /\ F[n] = SearchSample(j, F[n - 1], first + n - 1)
      BY <2>1, <1>14, <1>16
    <2>3. F[n] \in S[n]
      BY <2>2, <1>9
    <2> QED
      BY <2>1, <2>3
  <1>17. \A n \in 0..count : P[n]
    <2> HIDE DEF P
    <2> QED
      BY <1>4, <1>15, <1>16, CountingUp
  <1>18. ReuseSearch(j) \in SearchedTo(j, first + count)
    <2>1. count \in 0..count
      BY <1>4
    <2> QED
      BY <2>1, <1>13, <1>17 DEF S
  <1>19. Search(j).sections \in Seq(Section) /\ Chained(Search(j).sections)
         /\ Within(Search(j).sections, p)
    <2>1. CASE ~Reuse
      <3>1. Search(j).sections = j.sections
        BY <2>1 DEF Search
      <3> QED
        BY <3>1, <1>1
    <2>2. CASE Reuse
      <3> DEFINE q == ReuseSearch(j).sections
                 index == [trace |-> p, sample |-> first + count]
      <3>1. q \in Seq(Section) /\ Chained(q) /\ Done(q, index)
        BY <1>18 DEF SearchedTo
      <3>2. index \in Index /\ index.trace = p
        BY <1>1, <1>3, <1>4 DEF Index
      <3> HIDE DEF q, index
      <3>3. ASSUME NEW k \in 1..Len(q), NEW i \in 1..Len(q[k].barriers)
            PROVE  MaxTrace(q[k].barriers[i].range) <= p
        <4> DEFINE range == q[k].barriers[i].range
        <4>1. range \in TraceSampleRange
          BY <3>1, SectionsAre
        <4>2. EndsBefore(range, index)
          BY <3>1 DEF Done, AllEnd
        <4> HIDE DEF range, p
        <4>3. MaxTrace(range) \in Nat
          BY <4>1, <4>2, RangeFields DEF EndsBefore
        <4>4. MaxTrace(range) <= p
          BY <4>2, <4>3, <3>2, <1>1 DEF EndsBefore
        <4> QED
          BY <4>4 DEF range
      <3>4. Within(q, p)
        BY <3>3 DEF Within
      <3>5. Search(j).sections = q
        BY <2>2 DEF Search, q
      <3> QED
        BY <3>1, <3>4, <3>5
    <2> QED
      BY <2>1, <2>2
  <1> DEFINE new == Search(j).sections
  <1>20. new \in Seq(Section) /\ Chained(new) /\ Within(new, Position(j))
    BY <1>19
  <1> HIDE DEF new
  <1>21. LET c == [j EXCEPT !.sections = new]
         IN  c \in FitJobs /\ c.human = j.human /\ c.trace = j.trace /\ c.initial = j.initial
               /\ c.path = j.path /\ c.snapshot = j.snapshot
    BY <1>20, JobWithSections
  <1>22. Search(j).ok /\ (Search(j).hit >= 0 => First(j) <= Search(j).hit)
    <2>1. CASE Reuse
      <3>1. /\ ReuseSearch(j).ok = TRUE
            /\ ReuseSearch(j).hit \in {-1} \cup {i \in Nat : First(j) <= i}
        BY <1>18 DEF SearchedTo
      <3>2. Search(j) = ReuseSearch(j)
        BY <2>1 DEF Search
      <3> QED
        BY <3>1, <3>2
    <2>2. CASE ~Reuse
      <3> DEFINE hits == {i \in First(j)..Final(j) : Hits(j, i)}
      <3>1. Search(j).ok = TRUE /\ Search(j).hit = DiscardHit(j)
        BY <2>2 DEF Search
      <3>2. CASE hits = {}
        BY <3>1, <3>2 DEF DiscardHit
      <3>3. CASE hits # {}
        <4>1. hits \subseteq Nat
          BY <1>2
        <4>2. PICK n \in hits : \A i \in hits : ~(i < n)
          <5> HIDE DEF hits
          <5> QED
            BY <4>1, <3>3, LeastOf
        <4>3. DiscardHit(j) = CHOOSE i \in hits : \A k \in hits : i <= k
          BY <3>3 DEF DiscardHit
        <4>4. \A k \in hits : n <= k
          BY <4>1, <4>2
        <4>5. DiscardHit(j) \in hits
          <5> HIDE DEF hits
          <5> QED
            BY <4>3, <4>4
        <4> QED
          BY <3>1, <4>5, <1>2
      <3> QED
        BY <3>2, <3>3
    <2> QED
      BY <2>1, <2>2
  <1> QED
    BY <1>2, <1>21, <1>22 DEF new

-----------------------------------------------------------------------------
(* What remains of the barriers of a job that is awakened.                  *)

\* A part of a sequence.
LEMMA PartOf ==
    ASSUME NEW S, NEW q \in Seq(S), NEW n \in Nat, NEW first \in 1..(n + 1), n <= Len(q)
    PROVE  /\ SubSeq(q, first, n) \in Seq(S) /\ Len(SubSeq(q, first, n)) = n - first + 1
           /\ \A i \in 1..(n - first + 1) :
                 i + (first - 1) \in 1..n /\ SubSeq(q, first, n)[i] = q[i + (first - 1)]
  <1>1. PICK u : u = SubSeq(q, first, n)
    OBVIOUS
  <1>2. /\ first \in Int /\ n \in Int /\ Len(q) \in Nat
        /\ \A i \in first..n : i \in 1..Len(q)
    OBVIOUS
  <1>3. \A i \in first..n : q[i] \in S
    BY <1>2
  <1>4. /\ u \in Seq(S) /\ Len(u) = (IF first <= n THEN n - first + 1 ELSE 0)
        /\ \A i \in 1..(n - first + 1) : u[i] = q[first + i - 1]
    BY <1>1, <1>2, <1>3, SubSeqProperties
  <1>5. (IF first <= n THEN n - first + 1 ELSE 0) = n - first + 1
    OBVIOUS
  <1>6. \A i \in 1..(n - first + 1) : i + (first - 1) \in 1..n /\ first + i - 1 = i + (first - 1)
    OBVIOUS
  <1> QED
    BY <1>1, <1>4, <1>5, <1>6

LEMMA BeginningOf ==
    ASSUME NEW S, NEW q \in Seq(S), NEW k \in 0..Len(q)
    PROVE  /\ SubSeq(q, 1, k) \in Seq(S) /\ Len(SubSeq(q, 1, k)) = k /\ k \in Nat
           /\ \A i \in 1..k : SubSeq(q, 1, k)[i] = q[i] /\ i \in 1..Len(q)
  <1>1. /\ k \in Nat /\ 1 \in 1..(k + 1) /\ k - 1 + 1 = k /\ k <= Len(q)
        /\ \A i \in 1..k : i + (1 - 1) = i /\ i \in 1..Len(q)
    OBVIOUS
  <1> QED
    BY <1>1, PartOf

LEMMA EndOf ==
    ASSUME NEW S, NEW q \in Seq(S), NEW first \in 1..(Len(q) + 1)
    PROVE  /\ SubSeq(q, first, Len(q)) \in Seq(S)
           /\ Len(SubSeq(q, first, Len(q))) = Len(q) - first + 1
           /\ \A i \in 1..(Len(q) - first + 1) : SubSeq(q, first, Len(q))[i] = q[i + (first - 1)]
  BY PartOf

\* The greatest of some numbers up to N.
LEMMA GreatestOf ==
    ASSUME NEW N \in Nat, NEW T, T \subseteq 0..N, T # {}
    PROVE  \E n \in T : \A k \in T : k <= n
  <1> DEFINE U == {N - k : k \in T}
  <1>1. U \subseteq Nat /\ U # {}
    <2>1. \A k \in T : N - k \in Nat
      OBVIOUS
    <2> QED
      BY <2>1
  <1>2. PICK u \in U : \A i \in U : ~(i < u)
    BY <1>1, LeastOf
  <1>3. PICK n \in T : u = N - n
    BY <1>2
  <1>4. ASSUME NEW k \in T
        PROVE  k <= n
    <2>1. ~(N - k < N - n)
      BY <1>2, <1>3
    <2> QED
      BY <2>1
  <1> QED
    BY <1>4

\* A range that has been cut at its end, or not.
Shortened(cut, range) ==
    /\ cut \in TraceSampleRange /\ RangeFits(cut) /\ cut.initial = range.initial
    /\ cut = range \/ MaxTrace(cut) < MaxTrace(range)

LEMMA TrimmedRange ==
    ASSUME NEW range \in TraceSampleRange, RangeFits(range), NEW bound \in Nat,
           range.initial.trace <= bound, bound < MaxTrace(range)
    PROVE  Shortened(TrimDown(range, bound), range)
  <1> DEFINE n == bound - range.initial.trace + 1
             q == range.bounds
             u == SubSeq(q, 1, n)
             cut == [initial |-> range.initial, bounds |-> u]
  <1>1. /\ q \in Seq(Nat) /\ Len(q) \in Nat /\ range.initial.trace \in Nat
        /\ MaxTrace(range) = range.initial.trace + Len(q) - 1 /\ MaxTrace(range) \in Nat
        /\ q[1] >= range.initial.sample
    BY RangeFields DEF RangeFits
  <1>2. n \in Nat /\ n >= 1 /\ n <= Len(q) /\ 1 \in 1..(n + 1) /\ n - 1 + 1 = n
    <2>1. \A a, l, b \in Nat : a <= b /\ b < a + l - 1 =>
             /\ b - a + 1 \in Nat /\ b - a + 1 >= 1 /\ b - a + 1 <= l
             /\ 1 \in 1..(b - a + 1 + 1) /\ b - a + 1 - 1 + 1 = b - a + 1
      OBVIOUS
    <2>2. bound < range.initial.trace + Len(q) - 1
      BY <1>1
    <2>3. PICK a \in Nat : a = range.initial.trace
      BY <1>1
    <2>4. PICK l \in Nat : l = Len(q)
      BY <1>1
    <2>5. a <= bound /\ bound < a + l - 1 /\ n = bound - a + 1
      BY <2>2, <2>3, <2>4
    <2> HIDE DEF n, u, cut, q
    <2> QED
      BY <2>1, <2>4, <2>5
  <1>3. /\ u \in Seq(Nat) /\ Len(u) = n
        /\ \A i \in 1..n : u[i] = q[i + (1 - 1)]
    <2> HIDE DEF n, q
    <2> QED
      BY <1>1, <1>2, PartOf
  <1>4. u[1] = q[1] /\ u # <<>>
    <2> HIDE DEF n, u, q
    <2>1. 1 \in 1..n /\ 1 + (1 - 1) = 1
      BY <1>2
    <2>2. u[1] = q[1]
      BY <1>3, <2>1
    <2>3. u # <<>>
      BY <1>2, <1>3
    <2> QED
      BY <2>2, <2>3
  <1>5. TrimDown(range, bound) = cut /\ cut \in TraceSampleRange
    BY <1>3, Replaced DEF TrimDown
  <1>6. cut.initial = range.initial /\ cut.bounds = u
    OBVIOUS
  <1> HIDE DEF cut, u
  <1>7. MaxTrace(cut) = bound
    <2>1. MaxTrace(cut) = range.initial.trace + n - 1
      BY <1>3, <1>6 DEF MaxTrace
    <2> QED
      BY <2>1, <1>1
  <1>8. RangeFits(cut)
    BY <1>1, <1>4, <1>6 DEF RangeFits
  <1> QED
    BY <1>5, <1>6, <1>7, <1>8 DEF Shortened

\* A range that has been cut and whose positions count from a later one.
Scaled(scaled, range, amount) ==
    /\ scaled \in TraceSampleRange /\ RangeFits(scaled)
    /\ range.initial.trace >= amount =>
          /\ scaled.initial.trace = range.initial.trace - amount
          /\ scaled.initial.sample = range.initial.sample
    /\ \/ MaxTrace(scaled) + amount < MaxTrace(range)
       \/ MaxTrace(scaled) + amount = MaxTrace(range) /\ MaxSample(scaled) = MaxSample(range)

LEMMA ScaledRange ==
    ASSUME NEW range \in TraceSampleRange, RangeFits(range), NEW amount \in Nat,
           MaxTrace(range) >= amount
    PROVE  LET scaled == ScaleDown(range, amount)
           IN  /\ Scaled(scaled, range, amount)
               /\ MaxTrace(scaled) + amount = MaxTrace(range) /\ MaxSample(scaled) = MaxSample(range)
  <1> DEFINE q == range.bounds
             scaled == ScaleDown(range, amount)
             from == range.initial.trace
  <1>1. /\ q \in Seq(Nat) /\ Len(q) \in Nat /\ from \in Nat /\ range.initial.sample \in Nat
        /\ MaxTrace(range) = from + Len(q) - 1 /\ MaxTrace(range) \in Nat
        /\ MaxSample(range) = q[Len(q)] /\ MaxSample(range) \in Nat /\ q # <<>> /\ Len(q) >= 1
        /\ q[1] >= range.initial.sample /\ range.initial \in Index
    BY RangeFields DEF RangeFits
  <1>2. CASE from < amount
    <2> DEFINE first == amount - from + 1
               u == SubSeq(q, first, Len(q))
               m == Len(q) - first + 1
    <2>1. first \in 1..(Len(q) + 1) /\ m \in Nat /\ m >= 1 /\ m + (first - 1) = Len(q)
          /\ m - 1 + amount = MaxTrace(range)
      <3>1. \A a, l, x \in Nat : l >= 1 /\ a < x /\ a + l - 1 >= x =>
               /\ x - a + 1 \in 1..(l + 1) /\ l - (x - a + 1) + 1 \in Nat
               /\ l - (x - a + 1) + 1 >= 1 /\ (l - (x - a + 1) + 1) + ((x - a + 1) - 1) = l
               /\ l - (x - a + 1) + 1 - 1 + x = a + l - 1
        OBVIOUS
      <3>2. from + Len(q) - 1 >= amount
        BY <1>1
      <3> HIDE DEF from, q, scaled
      <3> QED
        BY <1>1, <1>2, <3>1, <3>2
    <2>2. scaled = [initial |-> [trace |-> 0, sample |-> 0], bounds |-> u]
      BY <1>2 DEF ScaleDown
    <2>3. /\ u \in Seq(Nat) /\ Len(u) = m /\ \A i \in 1..m : u[i] = q[i + (first - 1)]
      <3> HIDE DEF first, q
      <3>1. q \in Seq(Nat) /\ first \in 1..(Len(q) + 1)
        BY <1>1, <2>1
      <3>2. /\ SubSeq(q, first, Len(q)) \in Seq(Nat)
            /\ Len(SubSeq(q, first, Len(q))) = Len(q) - first + 1
            /\ \A i \in 1..(Len(q) - first + 1) :
                  SubSeq(q, first, Len(q))[i] = q[i + (first - 1)]
        BY <3>1, EndOf, Zenon
      <3> QED
        BY <3>2, Zenon
    <2> HIDE DEF u
    <2>4. scaled \in TraceSampleRange
      BY <2>2, <2>3 DEF TraceSampleRange, Index
    <2>5. scaled.initial.trace = 0 /\ scaled.initial.sample = 0 /\ scaled.bounds = u
      BY <2>2
    <2> HIDE DEF scaled
    <2>6. MaxTrace(scaled) = m - 1 /\ MaxTrace(scaled) + amount = MaxTrace(range)
      <3>1. MaxTrace(scaled) = 0 + m - 1
        BY <2>3, <2>5 DEF MaxTrace
      <3> HIDE DEF m
      <3> QED
        BY <3>1, <2>1
    <2> HIDE DEF m, first
    <2>7. MaxSample(scaled) = MaxSample(range)
      <3>1. m \in 1..m
        BY <2>1
      <3>2. u[m] = q[Len(q)]
        BY <3>1, <2>1, <2>3
      <3> QED
        BY <3>2, <2>3, <2>5, <1>1 DEF MaxSample, Last
    <2>8. RangeFits(scaled)
      <3>1. u # <<>> /\ u[1] \in Nat
        BY <2>1, <2>3
      <3>2. u[1] >= 0
        BY <3>1
      <3> QED
        BY <3>1, <3>2, <2>5 DEF RangeFits
    <2>9. ~(range.initial.trace >= amount)
      BY <1>1, <1>2
    <2> QED
      BY <2>4, <2>6, <2>7, <2>8, <2>9 DEF Scaled, scaled
  <1>3. CASE ~(from < amount)
    <2>1. scaled = [initial |-> [trace |-> from - amount, sample |-> range.initial.sample], bounds |-> q]
      BY <1>3 DEF ScaleDown, TraceSampleRange, Index
    <2>2. from - amount \in Nat
      BY <1>1, <1>3
    <2>3. scaled \in TraceSampleRange
      BY <1>1, <2>1, <2>2 DEF TraceSampleRange, Index
    <2>4. /\ scaled.initial.trace = from - amount /\ scaled.initial.sample = range.initial.sample
          /\ scaled.bounds = q
      BY <2>1
    <2> HIDE DEF scaled
    <2>5. MaxTrace(scaled) + amount = MaxTrace(range)
      <3>1. MaxTrace(scaled) = (from - amount) + Len(q) - 1
        BY <2>4 DEF MaxTrace
      <3> QED
        BY <3>1, <1>1
    <2>6. MaxSample(scaled) = MaxSample(range)
      BY <2>4 DEF MaxSample
    <2>7. RangeFits(scaled)
      BY <2>4, <1>1 DEF RangeFits
    <2> QED
      BY <2>3, <2>4, <2>5, <2>6, <2>7 DEF Scaled, scaled
  <1> QED
    BY <1>2, <1>3

\* The order of ranges stays when they are cut and scaled.
LEMMA ScaledOrder ==
    ASSUME NEW first \in TraceSampleRange, RangeFits(first), NEW second \in TraceSampleRange,
           NEW amount \in Nat, NEW r1, Scaled(r1, first, amount), NEW r2, Scaled(r2, second, amount),
           EndsBefore(first, second.initial)
    PROVE  EndsBefore(r1, r2.initial)
  <1>1. /\ r1 \in TraceSampleRange /\ r1.bounds # <<>> /\ MaxTrace(r1) \in Nat /\ MaxSample(r1) \in Nat
        /\ first.bounds # <<>> /\ MaxTrace(first) \in Nat /\ MaxSample(first) \in Nat
        /\ second.initial.trace \in Nat /\ second.initial.sample \in Nat
    BY RangeFields DEF Scaled, RangeFits
  <1>2. \/ MaxTrace(first) < second.initial.trace
        \/ MaxTrace(first) = second.initial.trace /\ MaxSample(first) < second.initial.sample
    BY DEF EndsBefore
  <1>3. \/ MaxTrace(r1) + amount < MaxTrace(first)
        \/ MaxTrace(r1) + amount = MaxTrace(first) /\ MaxSample(r1) = MaxSample(first)
    BY DEF Scaled
  <1>4. second.initial.trace >= amount
    BY <1>1, <1>2, <1>3
  <1>5. r2.initial.trace = second.initial.trace - amount /\ r2.initial.sample = second.initial.sample
    BY <1>4 DEF Scaled
  <1>6. \/ MaxTrace(r1) < r2.initial.trace
        \/ MaxTrace(r1) = r2.initial.trace /\ MaxSample(r1) < r2.initial.sample
    <2>1. CASE MaxTrace(r1) + amount < MaxTrace(first)
      BY <2>1, <1>1, <1>2, <1>5
    <2>2. CASE MaxTrace(r1) + amount = MaxTrace(first) /\ MaxSample(r1) = MaxSample(first)
      BY <2>2, <1>1, <1>2, <1>5
    <2> QED
      BY <1>3, <2>1, <2>2
  <1> QED
    BY <1>1, <1>6 DEF EndsBefore

LEMMA TrimmedBarriers ==
    ASSUME NEW b \in Seq(Barrier), b = <<>> \/ Ordered(b), NEW bound \in Nat
    PROVE  /\ Trim(b, bound) \in Seq(Barrier) /\ Len(Trim(b, bound)) \in 0..Len(b)
           /\ \A i \in 1..Len(Trim(b, bound)) :
                 /\ Trim(b, bound)[i].distance = b[i].distance
                 /\ Shortened(Trim(b, bound)[i].range, b[i].range)
  <1>0. \A i \in 1..Len(b) : RangeFits(b[i].range)
    <2> TAKE i \in 1..Len(b)
    <2>1. CASE b = <<>>
      BY <2>1, EmptySeq
    <2>2. CASE Ordered(b)
      BY <2>2 DEF Ordered
    <2> QED
      BY <2>1, <2>2
  <1> DEFINE n == Len(b)
             I == {i \in 1..n : b[i].range.initial.trace <= bound}
             K == IF I # {} THEN Max(I) ELSE 0
             kept == SubSeq(b, 1, K)
             cut == TrimDown(kept[K].range, bound)
             new == [kept[K] EXCEPT !.range = cut]
  <1>1. /\ n \in Nat
        /\ \A i \in 1..n : b[i] \in Barrier /\ b[i].range \in TraceSampleRange /\ RangeFits(b[i].range)
    BY <1>0, BarrierFields
  <1>2. K \in 0..n /\ (K > 0 => b[K].range.initial.trace <= bound)
    <2>1. I \subseteq 1..n /\ \A k \in I : b[k].range.initial.trace <= bound
      OBVIOUS
    <2>2. K = IF I # {} THEN Max(I) ELSE 0
      OBVIOUS
    <2> HIDE DEF K, I, n
    <2>3. CASE I # {}
      <3>1. K \in I
        BY <2>1, <2>2, <2>3, <1>1, MaxIs
      <3> QED
        BY <2>1, <3>1, <1>1
    <2>4. CASE I = {}
      <3>1. K = 0
        BY <2>2, <2>4
      <3> QED
        BY <3>1, <1>1
    <2> QED
      BY <2>3, <2>4
  <1>3. SelectLastInSeq(b, LAMBDA c : c.range.initial.trace <= bound) = K
    BY DEF SelectLastInSeq
  <1> HIDE DEF K, n
  <1>4. /\ kept \in Seq(Barrier) /\ Len(kept) = K /\ K \in Nat
        /\ \A i \in 1..K : kept[i] = b[i] /\ i \in 1..n
    <2>1. K \in 0..Len(b)
      BY <1>2 DEF n
    <2>2. /\ SubSeq(b, 1, K) \in Seq(Barrier) /\ Len(SubSeq(b, 1, K)) = K /\ K \in Nat
          /\ \A i \in 1..K : SubSeq(b, 1, K)[i] = b[i] /\ i \in 1..Len(b)
      BY <2>1, BeginningOf, Zenon
    <2> QED
      BY <2>2, Zenon DEF n
  <1> HIDE DEF kept
  <1>5. Trim(b, bound) =
            IF kept = <<>> \/ MaxTrace(Last(kept).range) <= bound THEN kept
            ELSE [kept EXCEPT ![Len(kept)].range = TrimDown(@, bound)]
    BY <1>3, Zenon DEF Trim, kept
  <1>6. \A range \in TraceSampleRange : RangeFits(range) => Shortened(range, range)
    BY DEF Shortened
  <1>7. CASE kept = <<>> \/ MaxTrace(Last(kept).range) <= bound
    <2>1. Trim(b, bound) = kept
      BY <1>5, <1>7
    <2>2. \A i \in 1..K : kept[i].distance = b[i].distance /\ Shortened(kept[i].range, b[i].range)
      BY <1>1, <1>4, <1>6
    <2>3. K \in 0..Len(b)
      BY <1>2 DEF n
    <2> QED
      BY <2>1, <2>2, <2>3, <1>4
  <1>8. CASE ~(kept = <<>> \/ MaxTrace(Last(kept).range) <= bound)
    <2>1. K >= 1 /\ K \in 1..K /\ kept[K] = b[K] /\ Last(kept) = b[K] /\ b[K] \in Barrier
          /\ RangeFits(b[K].range) /\ b[K].range \in TraceSampleRange /\ K \in 1..n
      <3>1. K # 0
        BY <1>4, <1>8
      <3>2. K \in 1..K
        BY <3>1, <1>4
      <3> QED
        BY <3>2, <1>1, <1>4 DEF Last
    <2>2. MaxTrace(b[K].range) \in Nat /\ bound < MaxTrace(b[K].range)
      <3>1. MaxTrace(b[K].range) \in Nat
        BY <2>1, RangeFields DEF RangeFits
      <3> QED
        BY <3>1, <2>1, <1>8
    <2>3. Shortened(cut, b[K].range)
      BY <2>1, <2>2, <1>2, TrimmedRange
    <2> HIDE DEF cut
    <2>4. new = [distance |-> b[K].distance, range |-> cut] /\ new \in Barrier
      <3>1. cut \in TraceSampleRange
        BY <2>3 DEF Shortened
      <3> QED
        BY <3>1, <2>1, Replaced
    <2>5. new.distance = b[K].distance /\ new.range = cut
      BY <2>4
    <2>6. Trim(b, bound) = [kept EXCEPT ![K] = new]
      BY <1>4, <1>5, <1>8 DEF cut
    <2> HIDE DEF new
    <2>7. PICK u : u = [kept EXCEPT ![K] = new]
      OBVIOUS
    <2>8. /\ u \in Seq(Barrier) /\ Len(u) = K
          /\ \A i \in 1..K : u[i] = IF i = K THEN new ELSE kept[i]
      BY <1>4, <2>1, <2>4, <2>7
    <2>9. \A i \in 1..K : u[i].distance = b[i].distance /\ Shortened(u[i].range, b[i].range)
      BY <1>1, <1>4, <1>6, <2>3, <2>5, <2>8
    <2> QED
      BY <1>2, <2>6, <2>7, <2>8, <2>9 DEF n
  <1> QED
    BY <1>7, <1>8

\* The barriers that are dropped are the first ones.
LEMMA RecentBarriers ==
    ASSUME NEW q \in Seq(Barrier), NEW lower \in Nat, NEW sample,
           \A i \in 1..Len(q) : MaxTrace(q[i].range) \in Nat,
           \A i, k \in 1..Len(q) : i < k => MaxTrace(q[i].range) <= MaxTrace(q[k].range)
    PROVE  LET recent == DropOutdated(q, lower, sample)
           IN  /\ recent \in Seq(Barrier)
               /\ \E d \in Nat : \A i \in 1..Len(recent) :
                     /\ i + d \in 1..Len(q) /\ recent[i] = q[i + d]
                     /\ MaxTrace(recent[i].range) >= lower
  <1> DEFINE n == Len(q)
             I == {i \in 1..n : ~Outdated(q[i], lower, sample)}
             K == IF I # {} THEN Min(I) ELSE 0
             u == SubSeq(q, K, n)
  <1>1. n \in Nat
    OBVIOUS
  <1>2. I # {} => Min(I) \in I
    <2>1. I \subseteq Nat
      OBVIOUS
    <2> HIDE DEF I
    <2> QED
      BY <2>1, MinIs
  <1>3. SelectInSeq(q, LAMBDA b : ~Outdated(b, lower, sample)) = K
    BY DEF SelectInSeq
  <1>4. CASE I = {}
    <2>1. DropOutdated(q, lower, sample) = <<>>
      BY <1>3, <1>4 DEF DropOutdated
    <2>2. <<>> \in Seq(Barrier) /\ Len(<<>>) = 0
      BY EmptySeq
    <2>3. 0 \in Nat /\ \A i \in 1..0 : FALSE
      OBVIOUS
    <2> QED
      BY <2>1, <2>2, <2>3
  <1>5. CASE I # {}
    <2>1. K = Min(I) /\ K \in I
      BY <1>2, <1>5
    <2>2. K \in 1..n /\ ~Outdated(q[K], lower, sample)
      <3> HIDE DEF K
      <3> QED
        BY <2>1
    <2> HIDE DEF K, n
    <2>3. DropOutdated(q, lower, sample) = u
      <3>1. K # 0
        BY <1>1, <2>2
      <3> QED
        BY <1>3, <3>1 DEF DropOutdated, n
    <2>4. /\ K \in 1..(n + 1) /\ n - K + 1 \in Nat /\ K - 1 \in Nat
          /\ \A i \in 1..(n - K + 1) : /\ i + (K - 1) \in 1..n
                                       /\ i + (K - 1) = K \/ K < i + (K - 1)
      BY <1>1, <2>2
    <2>5. /\ u \in Seq(Barrier) /\ Len(u) = n - K + 1
          /\ \A i \in 1..(n - K + 1) : u[i] = q[i + (K - 1)]
      BY <1>1, <2>4, PartOf DEF n
    <2> HIDE DEF u
    <2>6. MaxTrace(q[K].range) >= lower
      BY <2>2 DEF Outdated, n
    <2>7. ASSUME NEW i \in 1..(n - K + 1)
          PROVE  MaxTrace(u[i].range) >= lower
      <3> DEFINE k == i + (K - 1)
      <3>1. k \in 1..n /\ (k = K \/ K < k) /\ u[i] = q[k]
        BY <2>4, <2>5
      <3> HIDE DEF k
      <3>2. MaxTrace(q[K].range) <= MaxTrace(q[k].range)
        BY <3>1, <2>2 DEF n
      <3>3. MaxTrace(q[K].range) \in Nat /\ MaxTrace(q[k].range) \in Nat
        BY <3>1, <2>2 DEF n
      <3> QED
        BY <3>1, <3>2, <3>3, <2>6
    <2>8. \A i \in 1..Len(u) : /\ i + (K - 1) \in 1..n /\ u[i] = q[i + (K - 1)]
                               /\ MaxTrace(u[i].range) >= lower
      BY <2>4, <2>5, <2>7
    <2> QED
      BY <2>3, <2>4, <2>5, <2>8 DEF n
  <1> QED
    BY <1>4, <1>5

\* Each barrier that remains of a section is one of its barriers, d places on, cut and
\* scaled, and they are still in order.
LEMMA ResetBarriers ==
    ASSUME NEW s \in Section, s.barriers = <<>> \/ Ordered(s.barriers), NEW h \in HumanSamples,
           NEW lower \in Nat, NEW upper \in Nat, NEW sample
    PROVE  LET reset == ResetSection(s, h, lower, upper, sample)
           IN  /\ reset \in Section
               /\ \E d \in Nat : \A i \in 1..Len(reset.barriers) :
                     /\ i + d \in 1..Len(s.barriers)
                     /\ Scaled(reset.barriers[i].range, s.barriers[i + d].range, lower)
               /\ reset.barriers # <<>> => Ordered(reset.barriers)
  <1> DEFINE b == s.barriers
             n == Len(b)
             t == Trim(b, upper)
             reuse == ReuseElement(t, HumanDistance[s.human][h])
             q == SubSeq(t, 1, reuse)
             recent == DropOutdated(q, lower, sample)
             r == [i \in 1..Len(recent) |-> [recent[i] EXCEPT !.range = ScaleDown(@, lower)]]
  <1>1. /\ b \in Seq(Barrier) /\ n \in Nat /\ s.human \in HumanSamples
        /\ \A i \in 1..n : b[i].range \in TraceSampleRange
    <2>1. b \in Seq(Barrier) /\ s.human \in HumanSamples
      BY BarriersAreSequences
    <2> QED
      BY <2>1, BarrierFields
  <1>2. /\ \A i \in 1..n : RangeFits(b[i].range)
        /\ \A i, k \in 1..n : i < k => /\ EndsBefore(b[i].range, b[k].range.initial)
                                       /\ b[i].distance > b[k].distance
    <2>1. CASE b = <<>>
      <3>1. \A i \in 1..n : FALSE
        BY <2>1
      <3> QED
        BY <3>1
    <2>2. CASE Ordered(b)
      BY <2>2 DEF Ordered, Nearing
    <2> QED
      BY <2>1, <2>2
  <1>3. /\ t \in Seq(Barrier) /\ Len(t) \in 0..n /\ Len(t) \in Nat
        /\ \A i \in 1..Len(t) : /\ i \in 1..n /\ t[i].distance = b[i].distance
                                /\ Shortened(t[i].range, b[i].range)
    <2> HIDE DEF t
    <2>1. /\ t \in Seq(Barrier) /\ Len(t) \in 0..n
          /\ \A i \in 1..Len(t) : /\ t[i].distance = b[i].distance
                                  /\ Shortened(t[i].range, b[i].range)
      BY <1>1, TrimmedBarriers DEF t
    <2>2. Len(t) \in Nat /\ \A i \in 1..Len(t) : i \in 1..n
      BY <2>1, <1>1
    <2> QED
      BY <2>1, <2>2
  <1> HIDE DEF t, n, b
  <1>4. reuse \in 0..Len(t)
    <2>1. HumanDistance[s.human][h] \in Int
      BY <1>1, DistanceAssumption
    <2> QED
      BY <2>1, <1>3, ReuseElementIsLast
  <1> HIDE DEF reuse
  <1>5. /\ q \in Seq(Barrier) /\ Len(q) = reuse /\ reuse \in Nat
        /\ \A i \in 1..reuse : q[i] = t[i] /\ i \in 1..Len(t)
    <2>1. /\ reuse \in Nat /\ 1 \in 1..(reuse + 1) /\ reuse - 1 + 1 = reuse /\ reuse <= Len(t)
          /\ \A i \in 1..reuse : i + (1 - 1) = i /\ i \in 1..Len(t)
      BY <1>3, <1>4
    <2>2. /\ q \in Seq(Barrier) /\ Len(q) = reuse - 1 + 1
          /\ \A i \in 1..(reuse - 1 + 1) : q[i] = t[i + (1 - 1)]
      BY <1>3, <2>1, PartOf
    <2> QED
      BY <2>1, <2>2
  <1> HIDE DEF q
  <1>6. \A i \in 1..reuse : /\ i \in 1..n /\ q[i].distance = b[i].distance
                            /\ Shortened(q[i].range, b[i].range)
    BY <1>3, <1>5
  <1>7. \A i \in 1..reuse : MaxTrace(q[i].range) \in Nat /\ q[i].range.initial = b[i].range.initial
                            /\ MaxTrace(q[i].range) <= MaxTrace(b[i].range)
                            /\ MaxTrace(b[i].range) \in Nat /\ MaxSample(q[i].range) \in Nat
                            /\ b[i].range.initial.trace <= MaxTrace(q[i].range)
    <2> TAKE i \in 1..reuse
    <2>1. /\ q[i].range \in TraceSampleRange /\ q[i].range.bounds # <<>>
          /\ q[i].range.initial = b[i].range.initial
          /\ b[i].range \in TraceSampleRange /\ b[i].range.bounds # <<>>
          /\ (q[i].range = b[i].range \/ MaxTrace(q[i].range) < MaxTrace(b[i].range))
      BY <1>1, <1>2, <1>6 DEF Shortened, RangeFits
    <2>2. /\ MaxTrace(q[i].range) \in Nat /\ MaxTrace(b[i].range) \in Nat
          /\ q[i].range.initial.trace <= MaxTrace(q[i].range) /\ MaxSample(q[i].range) \in Nat
      BY <2>1, RangeFields
    <2> QED
      BY <2>1, <2>2
  <1>8. ASSUME NEW i \in 1..reuse, NEW k \in 1..reuse, i < k
        PROVE  MaxTrace(q[i].range) <= MaxTrace(q[k].range)
    <2>1. EndsBefore(b[i].range, b[k].range.initial) /\ b[k].range.initial.trace \in Nat
      <3>1. i \in 1..n /\ k \in 1..n
        BY <1>6
      <3> QED
        BY <3>1, <1>1, <1>2, <1>8, RangeFields
    <2>2. MaxTrace(b[i].range) <= b[k].range.initial.trace
      BY <2>1, <1>7 DEF EndsBefore
    <2> QED
      BY <2>1, <2>2, <1>7
  <1>9. /\ recent \in Seq(Barrier)
        /\ \E d \in Nat : \A i \in 1..Len(recent) :
              /\ i + d \in 1..Len(q) /\ recent[i] = q[i + d]
              /\ MaxTrace(recent[i].range) >= lower
    BY <1>5, <1>7, <1>8, RecentBarriers
  <1> HIDE DEF recent
  <1>10. PICK d \in Nat : \A i \in 1..Len(recent) :
              /\ i + d \in 1..reuse /\ recent[i] = q[i + d]
              /\ MaxTrace(recent[i].range) >= lower
    BY <1>5, <1>9
  <1> DEFINE m == Len(recent)
  <1>11. m \in Nat /\ \A i \in 1..m : recent[i] \in Barrier
    BY <1>9
  <1>12. ASSUME NEW i \in 1..m
         PROVE  /\ r[i] \in Barrier /\ r[i].distance = b[i + d].distance /\ i + d \in 1..n
                /\ Scaled(r[i].range, b[i + d].range, lower)
    <2> DEFINE c == recent[i]
               scaled == ScaleDown(c.range, lower)
    <2>1. /\ i + d \in 1..n /\ c \in Barrier /\ c.distance = b[i + d].distance
          /\ Shortened(c.range, b[i + d].range) /\ MaxTrace(c.range) >= lower
          /\ MaxTrace(c.range) \in Nat /\ MaxTrace(b[i + d].range) \in Nat
      BY <1>6, <1>7, <1>10, <1>11
    <2> HIDE DEF c
    <2>2. /\ Scaled(scaled, c.range, lower)
          /\ MaxTrace(scaled) + lower = MaxTrace(c.range) /\ MaxSample(scaled) = MaxSample(c.range)
      BY <2>1, ScaledRange DEF Shortened
    <2>3. r[i] = [c EXCEPT !.range = scaled]
      BY DEF c
    <2> HIDE DEF r, scaled
    <2>4. r[i] = [distance |-> c.distance, range |-> scaled] /\ r[i] \in Barrier
      BY <2>1, <2>2, <2>3, Replaced DEF Scaled
    <2>5. r[i].distance = b[i + d].distance /\ r[i].range = scaled
      BY <2>1, <2>4
    <2>6. Scaled(scaled, b[i + d].range, lower)
      <3>1. c.range.initial = b[i + d].range.initial
        BY <2>1 DEF Shortened
      <3>2. \/ MaxTrace(scaled) + lower < MaxTrace(b[i + d].range)
            \/ /\ MaxTrace(scaled) + lower = MaxTrace(b[i + d].range)
               /\ MaxSample(scaled) = MaxSample(b[i + d].range)
        BY <2>1, <2>2 DEF Shortened
      <3> QED
        BY <3>1, <3>2, <2>2 DEF Scaled
    <2> QED
      BY <2>1, <2>4, <2>5, <2>6
  <1>13. r \in Seq(Barrier) /\ Len(r) = m
    <2>1. PICK u : u = r
      OBVIOUS
    <2>2. u = [i \in 1..m |-> r[i]]
      BY <2>1
    <2> HIDE DEF r, m
    <2> QED
      BY <2>1, <2>2, <1>11, <1>12
  <1> HIDE DEF r, m
  <1>14. ASSUME NEW i \in 1..m, NEW k \in 1..m, i < k
         PROVE  EndsBefore(r[i].range, r[k].range.initial) /\ r[i].distance > r[k].distance
    <2>1. i + d \in 1..n /\ k + d \in 1..n /\ i + d < k + d
      BY <1>11, <1>12, <1>14
    <2>2. /\ EndsBefore(b[i + d].range, b[k + d].range.initial)
          /\ b[i + d].distance > b[k + d].distance
          /\ RangeFits(b[i + d].range) /\ b[i + d].range \in TraceSampleRange
          /\ b[k + d].range \in TraceSampleRange
      BY <2>1, <1>1, <1>2
    <2>3. Scaled(r[i].range, b[i + d].range, lower) /\ Scaled(r[k].range, b[k + d].range, lower)
      BY <1>12
    <2>4. EndsBefore(r[i].range, r[k].range.initial)
      BY <2>2, <2>3, ScaledOrder
    <2> QED
      BY <2>2, <2>4, <1>12
  <1>15. r # <<>> => Ordered(r)
    <2>1. \A i \in 1..m : RangeFits(r[i].range)
      BY <1>12 DEF Scaled
    <2> QED
      BY <2>1, <1>13, <1>14 DEF Ordered, Nearing
  <1>16. ResetSection(s, h, lower, upper, sample) = [s EXCEPT !.barriers = r]
    BY DEF ResetSection, r, recent, q, reuse, t, b
  <1>17. /\ [s EXCEPT !.barriers = r] \in Section /\ [s EXCEPT !.barriers = r].barriers = r
    BY <1>13, Replaced DEF Section
  <1>18. \A i \in 1..Len(r) : /\ i + d \in 1..Len(s.barriers)
                              /\ Scaled(r[i].range, s.barriers[i + d].range, lower)
    BY <1>12, <1>13 DEF n, b
  <1> QED
    BY <1>15, <1>16, <1>17, <1>18

\* What remains of the sections of a job is in order, and reaches no farther than before.
LEMMA ResetKeeps ==
    ASSUME NEW sections \in Seq(Section), Chained(sections), NEW h \in HumanSamples,
           NEW lower \in Nat, NEW upper \in Nat, NEW sample,
           NEW p \in Nat, Within(sections, p)
    PROVE  LET reset == Reset(sections, h, lower, upper, sample)
           IN  reset \in Seq(Section) /\ Chained(reset) /\ Within(reset, p - lower)
  <1> DEFINE N == Len(sections)
             reset(k) == ResetSection(sections[k], h, lower, upper, sample)
             shrunk == {k \in 1..N : Len(reset(k).barriers) < Len(sections[k].barriers)}
             kept == {n \in 0..N : \A k \in shrunk : n <= k}
             size == CHOOSE n \in kept : \A k \in kept : k <= n
             list == [k \in 1..size |-> reset(k)]
             places == {k \in 1..size : reset(k).barriers # <<>>}
             result == EntriesAt(list, places)
  <1>1. /\ N \in Nat
        /\ \A k \in 1..N : /\ sections[k] \in Section /\ Ordered(sections[k].barriers)
                           /\ \A i \in 1..Len(sections[k].barriers) :
                                 sections[k].barriers[i].range \in TraceSampleRange
    BY SectionsAre DEF Chained
  <1>2. ASSUME NEW k \in 1..N
        PROVE  /\ reset(k) \in Section
               /\ \E d \in Nat : \A i \in 1..Len(reset(k).barriers) :
                     /\ i + d \in 1..Len(sections[k].barriers)
                     /\ Scaled(reset(k).barriers[i].range, sections[k].barriers[i + d].range, lower)
               /\ reset(k).barriers # <<>> => Ordered(reset(k).barriers)
    <2>1. sections[k] \in Section /\ Ordered(sections[k].barriers)
      BY <1>1
    <2> QED
      BY <2>1, ResetBarriers
  <1>3. size \in 0..N
    <2>1. kept \subseteq 0..N /\ 0 \in kept
      BY <1>1
    <2>2. \E n \in kept : \A k \in kept : k <= n
      <3> HIDE DEF kept
      <3> QED
        BY <2>1, <1>1, GreatestOf
    <2> QED
      BY <2>1, <2>2
  <1>4. Reset(sections, h, lower, upper, sample) = result
    BY DEF Reset
  <1> HIDE DEF size, reset
  <1>5. /\ list \in Seq(Section) /\ Len(list) = size /\ size \in Nat
        /\ \A k \in 1..size : list[k] = reset(k) /\ k \in 1..N
    <2>1. size \in Nat /\ \A k \in 1..size : k \in 1..N
      BY <1>1, <1>3
    <2> QED
      BY <2>1, <1>2
  <1>6. places \subseteq 1..Len(list) /\ \A k \in places : k \in 1..size /\ reset(k).barriers # <<>>
    BY <1>5
  <1> HIDE DEF list, places
  <1> DEFINE c == Cardinality(places)
  <1>7. /\ c \in Nat /\ result \in Seq(Section) /\ Len(result) = c
        /\ \E at \in [1..c -> places] :
              /\ \A i \in 1..c : result[i] = list[at[i]]
              /\ \A i, k \in 1..c : i < k => at[i] < at[k]
    <2>1. list \in Seq(Section) /\ places \subseteq 1..Len(list)
      BY <1>5, <1>6
    <2> HIDE DEF N, shrunk, kept
    <2>2. /\ Cardinality(places) \in Nat /\ InPlace(places) \in [1..Cardinality(places) -> places]
          /\ EntriesAt(list, places) \in Seq(Section)
          /\ Len(EntriesAt(list, places)) = Cardinality(places)
      BY <2>1, ChosenEntries
    <2>3. \A i \in 1..Cardinality(places) : EntriesAt(list, places)[i] = list[InPlace(places)[i]]
      BY EntriesAre
    <2>4. \A i, k \in 1..Cardinality(places) : i < k => InPlace(places)[i] < InPlace(places)[k]
      BY <2>1, ChosenEntries
    <2> QED
      BY <2>2, <2>3, <2>4
  <1> HIDE DEF result, c
  <1>8. PICK at \in [1..c -> places] :
           /\ \A i \in 1..c : result[i] = list[at[i]]
           /\ \A i, k \in 1..c : i < k => at[i] < at[k]
    BY <1>7
  <1>9. \A i \in 1..c : /\ at[i] \in 1..N /\ result[i] = reset(at[i])
                        /\ Ordered(result[i].barriers)
    <2> TAKE i \in 1..c
    <2>1. PICK k \in places : k = at[i] /\ result[i] = list[k]
      BY <1>8
    <2>2. k \in 1..size /\ k \in 1..N /\ list[k] = reset(k) /\ reset(k).barriers # <<>>
      BY <1>5, <1>6
    <2> QED
      BY <1>2, <2>1, <2>2
  <1>10. ASSUME NEW i \in 1..c, NEW x \in 1..Len(result[i].barriers)
         PROVE  \E y \in 1..Len(sections[at[i]].barriers) :
                   Scaled(result[i].barriers[x].range, sections[at[i]].barriers[y].range, lower)
    BY <1>2, <1>9
  <1>11. ASSUME NEW i \in 1..c, NEW k \in 1..c, i < k,
                NEW x \in 1..Len(result[i].barriers), NEW z \in 1..Len(result[k].barriers)
         PROVE  EndsBefore(result[i].barriers[x].range, result[k].barriers[z].range.initial)
    <2>1. PICK y \in 1..Len(sections[at[i]].barriers) :
             Scaled(result[i].barriers[x].range, sections[at[i]].barriers[y].range, lower)
      BY <1>10
    <2>2. PICK w \in 1..Len(sections[at[k]].barriers) :
             Scaled(result[k].barriers[z].range, sections[at[k]].barriers[w].range, lower)
      BY <1>10
    <2>3. at[i] \in 1..N /\ at[k] \in 1..N /\ at[i] < at[k]
      BY <1>8, <1>9, <1>11
    <2>4. /\ EndsBefore(sections[at[i]].barriers[y].range, sections[at[k]].barriers[w].range.initial)
          /\ RangeFits(sections[at[i]].barriers[y].range)
      BY <2>3 DEF Chained, Ordered
    <2> DEFINE first == sections[at[i]].barriers[y].range
               second == sections[at[k]].barriers[w].range
               r1 == result[i].barriers[x].range
               r2 == result[k].barriers[z].range
    <2>5. first \in TraceSampleRange /\ second \in TraceSampleRange
      BY <2>3, <1>1
    <2>6. /\ RangeFits(first) /\ EndsBefore(first, second.initial)
          /\ Scaled(r1, first, lower) /\ Scaled(r2, second, lower)
      BY <2>1, <2>2, <2>4
    <2> HIDE DEF first, second, r1, r2, N, shrunk, kept
    <2>7. EndsBefore(r1, r2.initial)
      BY <2>5, <2>6, ScaledOrder
    <2> QED
      BY <2>7 DEF r1, r2
  <1>12. ASSUME NEW i \in 1..c, NEW x \in 1..Len(result[i].barriers)
         PROVE  MaxTrace(result[i].barriers[x].range) <= p - lower
    <2>1. PICK y \in 1..Len(sections[at[i]].barriers) :
             Scaled(result[i].barriers[x].range, sections[at[i]].barriers[y].range, lower)
      BY <1>10
    <2> DEFINE r == result[i].barriers[x].range
               range == sections[at[i]].barriers[y].range
    <2>2. MaxTrace(range) <= p /\ RangeFits(range) /\ range \in TraceSampleRange
      BY <1>1, <1>9 DEF Within, Ordered
    <2>3. r \in TraceSampleRange /\ RangeFits(r) /\ MaxTrace(r) + lower <= MaxTrace(range)
      <3>1. r \in TraceSampleRange /\ RangeFits(r)
        BY <2>1 DEF Scaled
      <3> HIDE DEF r, range
      <3>2. MaxTrace(r) \in Nat /\ MaxTrace(range) \in Nat
        BY <3>1, <2>2, RangeFields DEF RangeFits
      <3> QED
        BY <3>1, <3>2, <2>1 DEF Scaled, r, range
    <2> HIDE DEF r, range
    <2>4. MaxTrace(r) \in Nat /\ MaxTrace(range) \in Nat
      BY <2>2, <2>3, RangeFields DEF RangeFits
    <2>5. MaxTrace(r) <= p - lower
      BY <2>2, <2>3, <2>4
    <2> QED
      BY <2>5 DEF r
  <1> QED
    BY <1>4, <1>7, <1>9, <1>11, <1>12 DEF Chained, Within

-----------------------------------------------------------------------------
(* A job that is awakened starts later, with a part of its trace, path and     *)
(* barriers.                                                                *)

LEMMA IndexOf ==
    ASSUME NEW S, NEW trace \in Seq(S), NEW mode
    PROVE  /\ ForwardIndex(trace, mode) \in 0..Len(trace)
           /\ BackwardIndex(trace, mode) \in 0..Len(trace)
           /\ ForwardIndex(trace, mode) > 0 => trace[ForwardIndex(trace, mode)] = mode
  <1> DEFINE I == {i \in 1..Len(trace) : trace[i] = mode}
  <1>1. Len(trace) \in Nat /\ I \subseteq 1..Len(trace) /\ I \subseteq Nat
    OBVIOUS
  <1>2. /\ ForwardIndex(trace, mode) = IF I # {} THEN Min(I) ELSE 0
        /\ BackwardIndex(trace, mode) = IF I # {} THEN Max(I) ELSE 0
    BY DEF ForwardIndex, BackwardIndex, SelectInSeq, SelectLastInSeq
  <1> HIDE DEF I
  <1>3. I # {} => Min(I) \in I /\ Max(I) \in I
    BY <1>1, MinIs, MaxIs
  <1>4. CASE I = {}
    BY <1>1, <1>2, <1>4
  <1>5. CASE I # {}
    <2>1. /\ Min(I) \in 1..Len(trace) /\ Max(I) \in 1..Len(trace)
          /\ trace[Min(I)] = mode
      BY <1>1, <1>3, <1>5 DEF I
    <2>2. ForwardIndex(trace, mode) = Min(I) /\ BackwardIndex(trace, mode) = Max(I)
      BY <1>2, <1>5
    <2>3. PICK a, b : a = Min(I) /\ b = Max(I)
      OBVIOUS
    <2>4. a \in 0..Len(trace) /\ b \in 0..Len(trace)
      BY <2>1, <2>3, <1>1
    <2> QED
      BY <2>1, <2>2, <2>3, <2>4
  <1> QED
    BY <1>4, <1>5

LEMMA ResetUpperIs ==
    ASSUME NEW j \in FitJobs, NEW lower \in 0..Position(j)
    PROVE  ResetUpper(j, lower) \in Nat
  <1> DEFINE again == {BackwardIndex(j.trace, j.trace[i]) - 2 :
                          i \in {k \in 1..lower : BackwardIndex(j.trace, j.trace[k]) > k}}
             uppers == IF Strong THEN again \cup {Position(j)} ELSE {Position(j)}
  <1>1. j.trace \in Seq(Modes) /\ Position(j) \in Nat
    BY JobFields DEF FitJobs
  <1>2. again \subseteq Nat
    <2>1. ASSUME NEW i \in 1..lower, BackwardIndex(j.trace, j.trace[i]) > i
          PROVE  BackwardIndex(j.trace, j.trace[i]) - 2 \in Nat
      <3>1. BackwardIndex(j.trace, j.trace[i]) \in 0..Len(j.trace) /\ Len(j.trace) \in Nat
        BY <1>1, IndexOf
      <3> QED
        BY <3>1, <2>1
    <2> QED
      BY <2>1
  <1>3. uppers \subseteq Nat /\ uppers # {}
    BY <1>1, <1>2
  <1>4. ResetUpper(j, lower) = CHOOSE n \in uppers : \A k \in uppers : n <= k
    BY DEF ResetUpper
  <1> HIDE DEF uppers
  <1>5. PICK n \in uppers : \A k \in uppers : ~(k < n)
    BY <1>3, LeastOf
  <1>6. \A k \in uppers : n <= k
    BY <1>3, <1>5
  <1> QED
    BY <1>3, <1>4, <1>6

LEMMA ReducedPath ==
    ASSUME NEW path \in Seq(Node), NEW p \in Nat, PathFits(path, p),
           NEW lower \in Nat, NEW upper \in Nat, NEW position \in Nat,
           \A n \in 1..p : n <= upper => n - lower <= position
    PROVE  /\ ReducePath(path, lower, upper) \in Seq(Node)
           /\ PathFits(ReducePath(path, lower, upper), position)
  <1>0. /\ Len(path) \in Nat
        /\ \A i \in 1..Len(path) : /\ path[i] \in Node /\ path[i].position \in 1..p
                                   /\ i > 1 => path[i - 1].position < path[i].position
    BY DEF PathFits
  <1>n. \A e \in Node : e.position \in Nat /\ e.priority \in Nat
    BY DEF Node
  <1> DEFINE N == Len(path)
             I == {i \in 1..N : path[i].position <= upper}
             K == IF I # {} THEN Max(I) ELSE 0
             q == SubSeq(path, 1, K)
             places == {i \in 1..Len(q) : q[i].position > lower}
             kept == EntriesAt(q, places)
             reduced == [i \in 1..Len(kept) |-> [kept[i] EXCEPT !.position = @ - lower]]
  <1>1. /\ N \in Nat
        /\ \A i \in 1..N : /\ path[i] \in Node /\ path[i].position \in Nat
                           /\ path[i].priority \in Nat /\ path[i].position \in 1..p
                           /\ i > 1 => path[i - 1].position < path[i].position
    <2>1. N \in Nat /\ N = Len(path)
      BY <1>0
    <2> HIDE DEF I, N, K, q, places, kept, reduced
    <2>2. ASSUME NEW i \in 1..N
          PROVE  /\ path[i] \in Node /\ path[i].position \in 1..p
                 /\ i > 1 => path[i - 1].position < path[i].position
      BY <1>0, <2>1
    <2>3. ASSUME NEW i \in 1..N
          PROVE  path[i].position \in Nat /\ path[i].priority \in Nat
      BY <2>2, <1>n
    <2> QED
      BY <2>1, <2>2, <2>3
  <1>2. K \in 0..N /\ (K > 0 => path[K].position <= upper)
    <2>1. I \subseteq 1..N
      OBVIOUS
    <2>2. I # {} => Max(I) \in I
      <3> HIDE DEF I, N
      <3> QED
        BY <1>1, <2>1, MaxIs
    <2>3. CASE I # {}
      <3>1. K = Max(I) /\ K \in I
        BY <2>2, <2>3
      <3> HIDE DEF K
      <3> QED
        BY <3>1, <1>1
    <2>4. CASE I = {}
      <3>1. K = 0
        BY <2>4
      <3> HIDE DEF K
      <3> QED
        BY <3>1, <1>1
    <2> QED
      BY <2>3, <2>4
  <1>3. SelectLastInSeq(path, LAMBDA n : n.position <= upper) = K
    BY DEF SelectLastInSeq
  <1> HIDE DEF K, N
  <1>4. RemoveAfter(path, upper) = q
    BY <1>3 DEF RemoveAfter
  <1>5. /\ q \in Seq(Node) /\ Len(q) = K /\ K \in Nat
        /\ \A i \in 1..K : q[i] = path[i] /\ i \in 1..N
    <2>1. /\ K \in Nat /\ 1 \in 1..(K + 1) /\ K - 1 + 1 = K /\ K <= N
          /\ \A i \in 1..K : i + (1 - 1) = i /\ i \in 1..N
      BY <1>1, <1>2
    <2>2. /\ q \in Seq(Node) /\ Len(q) = K - 1 + 1
          /\ \A i \in 1..(K - 1 + 1) : q[i] = path[i + (1 - 1)]
      BY <2>1, PartOf DEF N
    <2> QED
      BY <2>1, <2>2
  <1> HIDE DEF q
  \* Positions increase from any node to any later one.
  <1>6. \A i, k \in 1..N : i < k => path[i].position < path[k].position
    <2> DEFINE P == [n \in 0..N |-> \A i \in 1..N : n \in 1..N /\ i < n =>
                                      path[i].position < path[n].position]
    <2>1. P[0]
      BY <1>1
    <2>2. ASSUME NEW n \in 1..N, P[n - 1]
          PROVE  P[n]
      <3>1. n \in 0..N /\ n - 1 \in 0..N
        BY <1>1
      <3>2. \A i \in 1..N : n - 1 \in 1..N /\ i < n - 1 => path[i].position < path[n - 1].position
        BY <2>2, <3>1
      <3>3. ASSUME NEW i \in 1..N, i < n
            PROVE  path[i].position < path[n].position
        <4>1. n - 1 \in 1..N /\ n > 1 /\ (i = n - 1 \/ i < n - 1)
          BY <1>1, <3>3
        <4>2. path[n - 1].position < path[n].position
          BY <4>1, <1>1
        <4>3. path[i].position \in Nat /\ path[n - 1].position \in Nat /\ path[n].position \in Nat
          BY <4>1, <1>1
        <4> QED
          BY <4>1, <4>2, <4>3, <3>2
      <3> QED
        BY <3>1, <3>3
    <2>3. \A n \in 0..N : P[n]
      <3> HIDE DEF P
      <3> QED
        BY <1>1, <2>1, <2>2, CountingUp
    <2>4. \A k \in 1..N : k \in 0..N
      BY <1>1
    <2> QED
      BY <2>3, <2>4
  <1>7. ASSUME NEW i \in 1..K
        PROVE  q[i].position <= upper
    <2>1. K \in 1..N /\ i \in 1..N /\ (i = K \/ i < K)
      BY <1>1, <1>2
    <2>2. path[K].position <= upper /\ path[i].position <= path[K].position
      BY <2>1, <1>1, <1>2, <1>6
    <2> QED
      BY <2>1, <2>2, <1>1, <1>5
  <1>8. places \subseteq 1..Len(q) /\ \A i \in places : i \in 1..K /\ q[i].position > lower
    BY <1>5
  <1> HIDE DEF places
  <1> DEFINE c == Cardinality(places)
             at == InPlace(places)
  <1>9. c \in Nat /\ kept \in Seq(Node) /\ Len(kept) = c /\ at \in [1..c -> places]
    BY <1>5, <1>8, ChosenEntries
  <1>10. \A i, k \in 1..c : i < k => at[i] < at[k]
    BY <1>5, <1>8, ChosenEntries
  <1>11. \A i \in 1..c : kept[i] = q[at[i]]
    BY EntriesAre
  <1> HIDE DEF c, at, kept
  <1>12. ASSUME NEW i \in 1..c
         PROVE  /\ kept[i] \in Node /\ kept[i] = path[at[i]] /\ at[i] \in 1..N
                /\ kept[i].position > lower /\ kept[i].position \in Nat
                /\ kept[i].position - lower <= position /\ kept[i].priority \in Nat
    <2>1. at[i] \in 1..K /\ kept[i] = q[at[i]] /\ q[at[i]].position > lower
      BY <1>8, <1>9, <1>11
    <2>2. q[at[i]] = path[at[i]] /\ at[i] \in 1..N /\ q[at[i]].position <= upper
      BY <2>1, <1>5, <1>7
    <2> QED
      BY <2>1, <2>2, <1>1
  <1>13. ASSUME NEW i \in 1..c
         PROVE  reduced[i] = [priority |-> kept[i].priority, position |-> kept[i].position - lower]
    BY <1>9, <1>12 DEF Node
  <1>14. \A i \in 1..c : reduced[i].position = kept[i].position - lower /\ reduced[i] \in Node
    <2> TAKE i \in 1..c
    <2>1. PICK a, b : a = kept[i].priority /\ b = kept[i].position - lower
      OBVIOUS
    <2>2. a \in Nat /\ b \in Nat
      <3> HIDE DEF reduced
      <3> QED
        BY <2>1, <1>9, <1>12
    <2>3. reduced[i] = [priority |-> a, position |-> b]
      BY <2>1, <1>13
    <2> HIDE DEF reduced
    <2> QED
      BY <2>1, <2>2, <2>3 DEF Node
  <1>15. reduced \in Seq(Node) /\ Len(reduced) = c
    <2>1. PICK u : u = reduced
      OBVIOUS
    <2>2. u = [i \in 1..c |-> u[i]]
      BY <2>1, <1>9
    <2>3. \A i \in 1..c : u[i] \in Node
      <3> HIDE DEF reduced
      <3> QED
        BY <2>1, <1>14
    <2> HIDE DEF reduced
    <2>4. u \in [1..c -> Node] /\ c \in Nat
      BY <2>2, <2>3, <1>9
    <2>5. u \in Seq(Node) /\ Len(u) = c
      BY <2>4
    <2> QED
      BY <2>1, <2>5
  <1>16. ReducePath(path, lower, upper) = reduced
    BY <1>4 DEF ReducePath, RemoveUpTo, kept, places
  <1> HIDE DEF reduced
  <1>17. ASSUME NEW i \in 1..c
         PROVE  /\ reduced[i].position \in 1..position
                /\ i > 1 => reduced[i - 1].position < reduced[i].position
    <2>1. reduced[i].position \in 1..position
      BY <1>12, <1>14
    <2>2. ASSUME i > 1
          PROVE  reduced[i - 1].position < reduced[i].position
      <3>1. i - 1 \in 1..c /\ i - 1 < i
        BY <1>9, <2>2
      <3>2. at[i - 1] < at[i]
        BY <3>1, <1>10
      <3>3. kept[i - 1].position < kept[i].position
        BY <3>1, <3>2, <1>6, <1>12
      <3> QED
        BY <3>1, <3>3, <1>12, <1>14
    <2> QED
      BY <2>1, <2>2
  <1> QED
    BY <1>15, <1>16, <1>17 DEF PathFits

-----------------------------------------------------------------------------
(* The jobs that go on to the next modes.                                   *)

LEMMA TraceIs ==
    ASSUME HistoryTypeOK, NEW s \in Nat, HasTrace(s)
    PROVE  TraceAt(s) \in Seq(Modes)
  <1>1. traces \in Seq(TraceEntry)
    BY Times
  <1>2. \A k \in 1..Len(traces) : traces[k].time \in Nat /\ traces[k].trace \in Seq(Modes)
    BY <1>1, TracesAre
  <1>3. LastUpTo(traces, s) \in 1..Len(traces)
    BY <1>1, <1>2, LastUpToIs DEF HasTrace
  <1> QED
    BY <1>2, <1>3 DEF TraceAt

LEMMA Merged ==
    ASSUME NEW S, NEW t1 \in Seq(S), NEW t2 \in Seq(S), t1 # <<>>, t2 # <<>>
    PROVE  Merge(t1, t2) \in Seq(S) /\ Merge(t1, t2) # <<>>
  <1>1. Front(t1) \in Seq(S)
    <2>1. Len(t1) \in Nat /\ Len(t1) >= 1
      OBVIOUS
    <2>2. Front(t1) = [i \in 1..(Len(t1) - 1) |-> t1[i]]
      BY DEF Front
    <2> QED
      BY <2>1, <2>2
  <1>2. PICK t \in Seq(S) : Merge(t1, t2) = t \o t2
    BY <1>1 DEF Merge
  <1>3. t \o t2 \in Seq(S) /\ Len(t \o t2) = Len(t) + Len(t2)
    OBVIOUS
  <1>4. Len(t2) \in Nat /\ Len(t2) > 0 /\ Len(t) \in Nat
    OBVIOUS
  <1>5. Len(t \o t2) # 0
    BY <1>3, <1>4
  <1>6. t \o t2 # <<>>
    BY <1>5, EmptySeq
  <1> QED
    BY <1>2, <1>3, <1>6

\* The modes are taken in the order of their values, each once.
LEMMA InOrderIs ==
    ASSUME NEW modes, modes \subseteq Modes, IsFiniteSet(modes)
    PROVE  /\ InOrder(modes) \in Seq(modes)
           /\ Len(InOrder(modes)) = Cardinality(modes) /\ Cardinality(modes) \in Nat
  <1> DEFINE below == [m \in modes |-> {q \in modes : Before(q, m)}]
             n == Cardinality(modes)
  <1>1. \A m \in modes : ValueOf[m] \in ModeValue /\ m \in Modes
    BY LookAheadAssumption
  <1>2. \A x \in modes : x \notin below[x]
    BY <1>1, LessThanIsStrictOrder DEF Before
  <1>3. ASSUME NEW x \in modes, NEW y \in modes, Before(x, y)
        PROVE  x \in below[y] /\ below[x] \subseteq below[y]
    <2>1. \A q \in modes : Before(q, x) => Before(q, y)
      BY <1>1, <1>3, LessThanIsStrictOrder DEF Before
    <2> QED
      BY <2>1, <1>3
  <1>4. ASSUME NEW x \in modes, NEW y \in modes, x # y
        PROVE  Before(x, y) \/ Before(y, x)
    <2>1. ValueOf[x] # ValueOf[y]
      BY <1>1, <1>4, LookAheadAssumption
    <2> QED
      BY <2>1, <1>1, KeysAreEqualModes DEF Before
  <1>5. \A x, y \in modes : x # y => \/ x \in below[y] /\ below[x] \subseteq below[y]
                                     \/ y \in below[x] /\ below[y] \subseteq below[x]
    <2> HIDE DEF below
    <2> QED
      BY <1>3, <1>4
  <1>6. below \in [modes -> SUBSET modes]
    OBVIOUS
  <1>7. \A x \in modes : Cardinality(below[x]) \in Nat
    BY FS_Subset, FS_CardinalityType
  <1>8. n \in Nat /\ \A k \in 1..n : \E x \in modes : Cardinality(below[x]) + 1 = k
    <2> HIDE DEF below
    <2> QED
      BY <1>2, <1>5, <1>6, Ranked
  <1>9. \A k \in 1..n : \E x \in modes : Cardinality(below[x]) = k - 1
    <2> HIDE DEF below
    <2> QED
      BY <1>7, <1>8
  <1>10. \A k \in 1..n : InOrder(modes)[k] \in modes
    <2> TAKE k \in 1..n
    <2>1. \E x \in modes : Cardinality({q \in modes : Before(q, x)}) = k - 1
      BY <1>9
    <2> QED
      BY <2>1 DEF InOrder
  <1>11. InOrder(modes) \in [1..n -> modes]
    <2> HIDE DEF below
    <2> QED
      BY <1>10 DEF InOrder
  <1> HIDE DEF n
  <1> QED
    BY <1>8, <1>11 DEF n

\* What the job of a branch is, and that it is as fit as the one it comes from.
LEMMA BranchFits ==
    ASSUME NEW j \in FitJobs, NEW next \in Seq(Modes)
    PROVE  LET jobs == Branch(j, next)
           IN  /\ jobs \in Seq(FitJobs) /\ Len(jobs) = Len(next)
               /\ \A k \in 1..Len(next) :
                     /\ jobs[k] \in FitJobs
                     /\ jobs[k].human = j.human /\ jobs[k].initial = j.initial
                     /\ jobs[k].snapshot = j.snapshot
                     /\ jobs[k].trace = Append(j.trace, next[k])
                     /\ jobs[k].path = IF Len(next) = 1 THEN j.path
                                       ELSE Add(j.path, k - 1, Len(j.trace))
  <1> DEFINE n == Len(next)
             jobs == Branch(j, next)
  <1>1. /\ j \in Job /\ j.trace # <<>> /\ j.initial <= latestTime
        /\ Chained(j.sections) /\ Within(j.sections, Position(j)) /\ PathFits(j.path, Position(j))
    BY DEF FitJobs
  <1>2. /\ j.trace \in Seq(Modes) /\ Len(j.trace) \in Nat /\ Len(j.trace) >= 1
        /\ Position(j) \in Nat /\ j.path \in Seq(Node) /\ j.sections \in Seq(Section)
    BY <1>1, JobFields
  <1>3. n \in Nat /\ \A k \in 1..n : next[k] \in Modes
    OBVIOUS
  <1>4. jobs = [k \in 1..n |-> [j EXCEPT !.trace = Append(@, next[k]),
                  !.path = IF n = 1 THEN @ ELSE Add(@, k - 1, Len(j.trace))]]
    BY DEF Branch
  <1> HIDE DEF n, jobs
  <1>5. ASSUME NEW k \in 1..n
        PROVE  /\ jobs[k] \in FitJobs
               /\ jobs[k].human = j.human /\ jobs[k].initial = j.initial
               /\ jobs[k].snapshot = j.snapshot /\ jobs[k].trace = Append(j.trace, next[k])
               /\ jobs[k].path = IF n = 1 THEN j.path ELSE Add(j.path, k - 1, Len(j.trace))
    <2>1. PICK trace : trace = Append(j.trace, next[k])
      OBVIOUS
    <2>2. trace \in Seq(Modes) /\ Len(trace) = Len(j.trace) + 1 /\ trace # <<>>
      <3>1. trace \in Seq(Modes) /\ Len(trace) = Len(j.trace) + 1
        BY <2>1, <1>2, <1>3
      <3>2. Len(trace) # 0
        BY <3>1, <1>2
      <3> QED
        BY <3>1, <3>2, EmptySeq
    <2>3. PICK path : path = IF n = 1 THEN j.path ELSE Add(j.path, k - 1, Len(j.trace))
      OBVIOUS
    <2>4. path \in Seq(Node) /\ PathFits(path, Position(j) + 1)
      <3>1. CASE n = 1
        <4>1. path = j.path
          BY <3>1, <2>3
        <4>2. \A q \in Seq(Node) : PathFits(q, Position(j)) => PathFits(q, Position(j) + 1)
          <5> TAKE q \in Seq(Node)
          <5>1. Position(j) \in Nat
            BY <1>2
          <5> QED
            BY <5>1 DEF PathFits
        <4> QED
          BY <4>1, <4>2, <1>1, <1>2
      <3>2. CASE n # 1
        <4>1. PICK a, b : a = k - 1 /\ b = Len(j.trace)
          OBVIOUS
        <4>2. a \in Nat /\ b \in Nat /\ b = Position(j) + 1
          BY <4>1, <1>2, <1>3 DEF Position
        <4>3. PICK node : node = [priority |-> a, position |-> b]
          OBVIOUS
        <4>4. node \in Node /\ node.position = b
          BY <4>2, <4>3 DEF Node
        <4>5. path = Append(j.path, node)
          BY <3>2, <4>1, <4>3, <2>3 DEF Add
        <4>6. /\ path \in Seq(Node) /\ Len(path) = Len(j.path) + 1 /\ Len(j.path) \in Nat
              /\ path[Len(j.path) + 1] = node
              /\ \A i \in 1..Len(j.path) : path[i] = j.path[i]
          BY <4>4, <4>5, <1>2
        <4>7. ASSUME NEW i \in 1..Len(path)
              PROVE  /\ path[i].position \in 1..(Position(j) + 1)
                     /\ i > 1 => path[i - 1].position < path[i].position
          <5>1. \A m \in 1..Len(j.path) : /\ j.path[m].position \in 1..Position(j)
                                          /\ m > 1 => j.path[m - 1].position < j.path[m].position
            BY <1>1 DEF PathFits
          <5>2. CASE i \in 1..Len(j.path)
            <6>1. i > 1 => i - 1 \in 1..Len(j.path)
              BY <5>2, <4>6
            <6>2. path[i] = j.path[i] /\ (i > 1 => path[i - 1] = j.path[i - 1])
              BY <5>2, <6>1, <4>6
            <6>3. path[i].position \in 1..Position(j)
              BY <6>2, <5>1, <5>2
            <6>4. i > 1 => path[i - 1].position < path[i].position
              BY <6>2, <5>1, <5>2
            <6> QED
              BY <6>3, <6>4, <1>2
          <5>3. CASE i = Len(j.path) + 1
            <6>1. path[i].position = Position(j) + 1
              BY <5>3, <4>2, <4>4, <4>6
            <6>2. i > 1 => i - 1 \in 1..Len(j.path)
              BY <5>3, <4>6
            <6>3. i > 1 => path[i - 1].position \in 1..Position(j)
              BY <6>2, <5>1, <4>6
            <6> QED
              BY <6>1, <6>3, <1>2
          <5> QED
            BY <5>2, <5>3, <4>6
        <4> QED
          BY <4>6, <4>7 DEF PathFits
      <3> QED
        BY <3>1, <3>2
    <2>5. PICK c : c = [j EXCEPT !.trace = trace, !.path = path]
      OBVIOUS
    <2>6. jobs[k] = c
      BY <2>1, <2>3, <2>5, <1>4 DEF Job
    <2>7. /\ c \in Job /\ c.human = j.human /\ c.initial = j.initial /\ c.trace = trace
          /\ c.path = path /\ c.sections = j.sections /\ c.snapshot = j.snapshot
      BY <2>2, <2>4, <2>5, <1>1 DEF Job
    <2>8. Position(c) = Position(j) + 1
      BY <2>2, <2>7, <1>2 DEF Position
    <2>9. Within(c.sections, Position(c))
      <3>1. \A m \in 1..Len(j.sections) : \A i \in 1..Len(j.sections[m].barriers) :
               /\ MaxTrace(j.sections[m].barriers[i].range) <= Position(j)
               /\ MaxTrace(j.sections[m].barriers[i].range) \in Int
        <4> TAKE m \in 1..Len(j.sections)
        <4> TAKE i \in 1..Len(j.sections[m].barriers)
        <4>1. j.sections[m].barriers[i].range \in TraceSampleRange
          BY <1>2, SectionsAre
        <4>2. \A range \in TraceSampleRange : MaxTrace(range) \in Int
          <5> TAKE range \in TraceSampleRange
          <5>1. range.initial.trace \in Nat /\ Len(range.bounds) \in Nat
            BY RangeFields
          <5>2. \A a, b \in Nat : a + b - 1 \in Int
            OBVIOUS
          <5> QED
            BY <5>1, <5>2 DEF MaxTrace
        <4>3. MaxTrace(j.sections[m].barriers[i].range) \in Int
          BY <4>1, <4>2
        <4> QED
          BY <4>3, <1>1 DEF Within
      <3> QED
        BY <3>1, <2>7, <2>8, <1>2 DEF Within
    <2> QED
      BY <2>1, <2>2, <2>3, <2>4, <2>6, <2>7, <2>8, <2>9, <1>1 DEF FitJobs
  <1>6. jobs \in Seq(FitJobs) /\ Len(jobs) = n
    <2>1. jobs = [k \in 1..n |-> jobs[k]]
      BY <1>4
    <2>2. jobs \in [1..n -> FitJobs]
      BY <2>1, <1>5
    <2> QED
      BY <2>2, <1>3
  <1> QED
    BY <1>5, <1>6 DEF n, jobs

LEMMA NextJobsFit ==
    ASSUME HistoryTypeOK, NEW j \in FitJobs, CanGoOn(j)
    PROVE  LET jobs == NextJobs(j)
           IN  /\ jobs \in Seq(FitJobs)
               /\ \A k \in 1..Len(jobs) :
                     /\ jobs[k].human = j.human /\ jobs[k].initial = j.initial
                     /\ jobs[k].snapshot = j.snapshot
                     /\ \E m \in NextModes(FullTrace(j)) : jobs[k].trace = Append(j.trace, m)
                     /\ jobs[k].path = IF Len(jobs) = 1 THEN j.path
                                       ELSE Add(j.path, k - 1, Len(j.trace))
  <1>1. CASE HasLooped(j.trace)
    <2>1. NextJobs(j) = <<>>
      BY <1>1 DEF NextJobs
    <2>2. Len(<<>>) = 0
      BY EmptySeq
    <2>3. <<>> \in Seq(FitJobs)
      BY EmptySeq
    <2>4. \A k \in 1..0 : FALSE
      OBVIOUS
    <2> QED
      BY <2>1, <2>2, <2>3, <2>4
  <1>2. CASE ~HasLooped(j.trace)
    <2>1. j.trace \in Seq(Modes) /\ j.trace # <<>> /\ j.initial \in Nat
      BY JobFields DEF FitJobs
    <2>2. HasTrace(j.initial) /\ TraceAt(j.initial) # <<>>
      BY <1>2 DEF CanGoOn
    <2> DEFINE full == FullTrace(j)
               modes == NextModes(full)
    <2>3. full \in Seq(Modes) /\ full # <<>>
      BY <2>1, <2>2, TraceIs, Merged DEF FullTrace
    <2>4. \A m \in modes : \E i \in Occurrences(full) : m = full[i + 1]
      <3> HIDE DEF full
      <3> QED
        BY <2>3, NextModesAreSuccessors
    <2>5. modes \subseteq {full[i] : i \in 1..Len(full)} /\ modes \subseteq Modes
      <3> HIDE DEF modes, full
      <3>1. \A i \in Occurrences(full) : i + 1 \in 1..Len(full)
        BY <2>3 DEF Occurrences
      <3> QED
        BY <2>3, <2>4, <3>1
    <2>6. IsFiniteSet(modes)
      <3> HIDE DEF modes, full
      <3>1. Len(full) \in Nat
        BY <2>3
      <3>2. IsFiniteSet(1..Len(full))
        BY <3>1, FS_Interval
      <3>3. PICK N : N = 1..Len(full)
        OBVIOUS
      <3> DEFINE f == [i \in N |-> full[i]]
      <3>4. IsFiniteSet(N) /\ f \in [N -> Modes]
        BY <3>2, <3>3, <2>3
      <3>5. \A t \in modes : \E i \in N : f[i] = t
        BY <2>5, <3>3
      <3> DEFINE R == {f[i] : i \in N}
      <3>6. f \in Surjection(N, R)
        BY <3>4 DEF Surjection
      <3>7. IsFiniteSet(R)
        <4> HIDE DEF f, R
        <4> QED
          BY <3>4, <3>6, FS_Surjection
      <3> QED
        BY <3>5, <3>7, FS_Subset
    <2>7. PICK next \in Seq(Modes) :
             next = InOrder(modes) /\ \A k \in 1..Len(next) : next[k] \in modes
      <3>1. InOrder(modes) \in Seq(modes)
        BY <2>5, <2>6, InOrderIs
      <3> HIDE DEF modes
      <3> QED
        BY <3>1, <2>5
    <2>8. NextJobs(j) = Branch(j, next)
      BY <1>2, <2>7 DEF NextJobs
    <2>9. \A k \in 1..Len(next) : next[k] \in NextModes(FullTrace(j))
      BY <2>7
    <2> HIDE DEF modes, full
    <2>10. PICK jobs : jobs = Branch(j, next)
      OBVIOUS
    <2>11. /\ jobs \in Seq(FitJobs) /\ Len(jobs) = Len(next)
           /\ \A k \in 1..Len(next) :
                 /\ jobs[k].human = j.human /\ jobs[k].initial = j.initial
                 /\ jobs[k].snapshot = j.snapshot /\ jobs[k].trace = Append(j.trace, next[k])
                 /\ jobs[k].path = IF Len(next) = 1 THEN j.path
                                   ELSE Add(j.path, k - 1, Len(j.trace))
      BY <2>10, BranchFits
    <2>12. \A k \in 1..Len(jobs) :
              \E m \in NextModes(FullTrace(j)) : jobs[k].trace = Append(j.trace, m)
      BY <2>9, <2>11
    <2>13. NextJobs(j) = jobs
      BY <2>8, <2>10
    <2> QED
      BY <2>11, <2>12, <2>13
  <1> QED
    BY <1>1, <1>2

-----------------------------------------------------------------------------
(* A job that is awakened.                                                  *)

\* The jobs that wait for a worker have a human sample to search against.
WaitingJobs == {j \in FitJobs : j.human \in HumanSamples}

LEMMA LowerIs ==
    ASSUME NEW j \in FitJobs, NEW t
    PROVE  /\ Lower(j, t) \in (-1)..Position(j)
           /\ Lower(j, t) >= 0 => /\ Lower(j, t) \in 0..Position(j) /\ Lower(j, t) \in Nat
                                 /\ j.trace[Lower(j, t) + 1] = ModeAt(t)
  <1>1. j.trace \in Seq(Modes) /\ Len(j.trace) \in Nat /\ Position(j) = Len(j.trace) - 1
    BY JobFields DEF FitJobs, Position
  <1>2. /\ ForwardIndex(j.trace, ModeAt(t)) \in 0..Len(j.trace)
        /\ ForwardIndex(j.trace, ModeAt(t)) > 0 =>
              j.trace[ForwardIndex(j.trace, ModeAt(t))] = ModeAt(t)
    BY <1>1, IndexOf
  <1>3. PICK f, l : f = ForwardIndex(j.trace, ModeAt(t)) /\ l = Len(j.trace)
    OBVIOUS
  <1>4. Lower(j, t) = f - 1 /\ Position(j) = l - 1 /\ l \in Nat /\ f \in 0..l
    BY <1>1, <1>2, <1>3 DEF Lower
  <1>5. Lower(j, t) >= 0 => f > 0 /\ Lower(j, t) + 1 = f
    BY <1>4
  <1> QED
    BY <1>2, <1>3, <1>4, <1>5

LEMMA ResumeIs ==
    ASSUME NEW j \in FitJobs, NEW t \in 0..MaxTime, NEW h \in HumanSamples, Lower(j, t) >= 0
    PROVE  LET c == Resume(j, t, h)
           IN  /\ c \in Job /\ c.initial = t /\ c.human = h /\ c.trace = j.trace /\ c.path = j.path
               /\ c.snapshot = SnapshotOf(j, t)
               /\ Chained(c.sections) /\ Within(c.sections, Position(j) - Lower(j, t))
  <1> DEFINE lower == Lower(j, t)
             sections == Reset(j.sections, h, lower, ResetUpper(j, lower), SampleIndex(ModeAt(t), t))
             astray == j.astray \/ Strays(j, t)
             snapshot == SnapshotOf(j, t)
  <1>1. /\ j \in Job /\ j.sections \in Seq(Section) /\ Chained(j.sections)
        /\ Within(j.sections, Position(j)) /\ Position(j) \in Nat
    BY JobFields DEF FitJobs
  <1>2. lower \in 0..Position(j) /\ lower \in Nat
    BY LowerIs
  <1>3. ResetUpper(j, lower) \in Nat
    <2> HIDE DEF lower
    <2> QED
      BY <1>2, ResetUpperIs
  <1>4. /\ sections \in Seq(Section) /\ Chained(sections)
        /\ Within(sections, Position(j) - lower)
    <2> HIDE DEF lower
    <2> QED
      BY <1>1, <1>2, <1>3, ResetKeeps
  <1>5. snapshot \in 0..MaxTime
    BY <1>1 DEF SnapshotOf, Job
  <1>6. astray \in BOOLEAN
    <2>1. Strays(j, t) \in BOOLEAN
      BY DEF Strays
    <2> QED
      BY <1>1, <2>1 DEF Job
  <1>7. Resume(j, t, h) = [j EXCEPT !.initial = t, !.snapshot = snapshot, !.human = h,
                                    !.sections = sections, !.since = t, !.astray = astray]
    BY <1>1 DEF Resume, Job
  <1> HIDE DEF sections, astray, snapshot
  <1>8. PICK c : c = Resume(j, t, h)
    OBVIOUS
  <1>9. /\ c \in Job /\ c.initial = t /\ c.human = h /\ c.trace = j.trace /\ c.path = j.path
        /\ c.sections = sections /\ c.snapshot = snapshot
    <2>1. j \in Job /\ sections \in Seq(Section) /\ snapshot \in 0..MaxTime /\ astray \in BOOLEAN
      BY <1>1, <1>4, <1>5, <1>6
    <2>2. c = [j EXCEPT !.initial = t, !.snapshot = snapshot, !.human = h,
                        !.sections = sections, !.since = t, !.astray = astray]
      BY <1>7, <1>8
    <2>3. PICK q, a, s : q = sections /\ a = astray /\ s = snapshot
      OBVIOUS
    <2>4. q \in Seq(Section) /\ a \in BOOLEAN /\ s \in 0..MaxTime
      BY <2>1, <2>3
    <2>5. c = [j EXCEPT !.initial = t, !.snapshot = s, !.human = h,
                        !.sections = q, !.since = t, !.astray = a]
      BY <2>2, <2>3, Zenon
    <2>6. /\ c \in Job /\ c.initial = t /\ c.human = h /\ c.trace = j.trace
          /\ c.path = j.path /\ c.sections = q /\ c.snapshot = s
      <3>1. PICK T, N, Q : T = Seq(Modes) /\ N = Seq(Node) /\ Q = Seq(Section)
        OBVIOUS
      <3>2. Job = [initial : 0..MaxTime, snapshot : 0..MaxTime, human : HumanSamples \cup {NoSample},
                   trace : T, path : N, sections : Q, since : 0..MaxTime, astray : BOOLEAN]
        BY <3>1 DEF Job
      <3>3. q \in Q /\ h \in HumanSamples \cup {NoSample}
        BY <2>4, <3>1
      <3> QED
        BY <2>1, <2>4, <2>5, <3>2, <3>3
    <2> QED
      BY <2>3, <2>6
  <1>10. c.snapshot = SnapshotOf(j, t)
    BY <1>9 DEF snapshot
  <1>11. Chained(c.sections) /\ Within(c.sections, Position(j) - lower)
    BY <1>4, <1>9
  <1> QED
    BY <1>8, <1>9, <1>10, <1>11

LEMMA ReducedFits ==
    ASSUME NEW j \in FitJobs, NEW t \in 0..MaxTime, t <= latestTime, NEW h \in HumanSamples,
           Lower(j, t) >= 0, Resume(j, t, h).sections # <<>>
    PROVE  /\ LET c == Reduced(j, Resume(j, t, h), UpperOf(j, Resume(j, t, h), t), t)
              IN  /\ c \in WaitingJobs /\ c.human = h /\ c.initial = t
                  /\ c.snapshot = SnapshotOf(j, t) /\ Head(c.trace) = ModeAt(t)
                  /\ \A i \in 1..Len(c.trace) : \E k \in 1..Len(j.trace) : c.trace[i] = j.trace[k]
           /\ Lower(j, t) + LastUpperTrace(Resume(j, t, h).sections) + 1 \in 1..Len(j.trace)
           /\ CanReduce(j.trace, Lower(j, t) + 1, UpperOf(j, Resume(j, t, h), t) + 1)
  <1>1. PICK r : r = Resume(j, t, h)
    OBVIOUS
  <1>2. /\ r \in Job /\ r.initial = t /\ r.human = h /\ r.trace = j.trace /\ r.path = j.path
        /\ r.snapshot = SnapshotOf(j, t)
        /\ Chained(r.sections) /\ Within(r.sections, Position(j) - Lower(j, t)) /\ r.sections # <<>>
    BY <1>1, ResumeIs
  <1>3. /\ j.trace \in Seq(Modes) /\ Position(j) \in Nat /\ Len(j.trace) = Position(j) + 1
        /\ j.path \in Seq(Node) /\ PathFits(j.path, Position(j)) /\ r.sections \in Seq(Section)
    BY <1>2, JobFields DEF FitJobs, Position
  <1>4. PICK lower, reach, p : lower = Lower(j, t) /\ reach = LastUpperTrace(r.sections) /\ p = Position(j)
    OBVIOUS
  <1>5. /\ lower \in Nat /\ lower <= p /\ p \in Nat /\ reach \in Nat /\ reach <= p - lower
        /\ Within(r.sections, reach)
    <2>1. lower \in Nat /\ lower <= p /\ p \in Nat
      BY <1>3, <1>4, LowerIs
    <2>2. /\ reach \in Nat
          /\ LastUpperTrace(r.sections) = MaxTrace(LastBarrier(r.sections).range)
          /\ \E k \in 1..Len(r.sections) : \E i \in 1..Len(r.sections[k].barriers) :
                 LastBarrier(r.sections) = r.sections[k].barriers[i]
      BY <1>2, <1>3, <1>4, LastBarrierIs
    <2>3. reach <= p - lower
      BY <2>2, <1>2, <1>4 DEF Within
    <2>4. Within(r.sections, LastUpperTrace(r.sections))
      BY <1>2, <1>3, LastBarrierIs DEF Within
    <2> QED
      BY <2>1, <2>2, <2>3, <2>4, <1>4
  <1>6. PICK upper : upper = UpperOf(j, r, t)
    OBVIOUS
  <1>7. upper = lower + reach \/ upper = lower + reach + 1
    BY <1>4, <1>6 DEF UpperOf
  <1>8. PICK e : e = IF upper < Len(r.trace) THEN upper + 1 ELSE upper
    OBVIOUS
  <1>9. /\ upper \in Nat /\ e \in Nat /\ e <= p + 1 /\ lower + 1 <= e
        /\ e - lower - 1 \in Nat /\ reach <= e - lower - 1
        /\ \A n \in 1..p : n <= upper => n - lower <= e - lower - 1
    <2>1. e = IF upper < p + 1 THEN upper + 1 ELSE upper
      BY <1>2, <1>3, <1>4, <1>8
    <2>2. upper \in Nat /\ upper <= p + 1 /\ lower + reach <= p /\ lower + reach <= upper
      BY <1>5, <1>7
    <2>3. CASE upper < p + 1
      BY <2>1, <2>2, <2>3, <1>5
    <2>4. CASE upper = p + 1
      BY <2>1, <2>2, <2>4, <1>5
    <2> QED
      BY <2>2, <2>3, <2>4, <1>5
  <1>10. PICK trace : trace = ReduceBetween(r.trace, lower + 1, e)
    OBVIOUS
  <1>11. /\ trace \in Seq(Modes) /\ Len(trace) = e - lower /\ trace # <<>>
         /\ Head(trace) = ModeAt(t)
         /\ \A i \in 1..Len(trace) : \E k \in 1..Len(j.trace) : trace[i] = j.trace[k]
    <2>1. lower + 1 \in 1..(e + 1) /\ e <= Len(j.trace) /\ e - (lower + 1) + 1 = e - lower
      <3>1. e <= Len(j.trace)
        BY <1>3, <1>4, <1>9
      <3>2. \A a, b \in Nat : b + 1 <= a => b + 1 \in 1..(a + 1) /\ a - (b + 1) + 1 = a - b
        OBVIOUS
      <3>3. lower + 1 \in 1..(e + 1) /\ e - (lower + 1) + 1 = e - lower
        BY <3>2, <1>5, <1>9
      <3> QED
        BY <3>1, <3>3
    <2>2. /\ trace \in Seq(Modes) /\ Len(trace) = e - lower
          /\ \A i \in 1..(e - lower) : i + lower \in 1..Len(j.trace) /\ trace[i] = j.trace[i + lower]
      <3>1. trace = SubSeq(j.trace, lower + 1, e)
        BY <1>2, <1>10 DEF ReduceBetween
      <3>2. PICK first : first = lower + 1
        OBVIOUS
      <3>3. /\ SubSeq(j.trace, first, e) \in Seq(Modes)
            /\ Len(SubSeq(j.trace, first, e)) = e - first + 1
            /\ \A i \in 1..(e - first + 1) :
                  /\ i + (first - 1) \in 1..e
                  /\ SubSeq(j.trace, first, e)[i] = j.trace[i + (first - 1)]
        <4>1. e \in Nat /\ first \in 1..(e + 1) /\ e <= Len(j.trace) /\ j.trace \in Seq(Modes)
          BY <2>1, <3>2, <1>3, <1>9
        <4> QED
          BY <4>1, PartOf
      <3>4. e - first + 1 = e - lower /\ first - 1 = lower
        BY <2>1, <3>2, <1>5
      <3>5. \A i \in 1..(e - lower) : i + lower \in 1..e /\ trace[i] = j.trace[i + lower]
        BY <3>1, <3>3, <3>4
      <3>6. 1..e \subseteq 1..Len(j.trace)
        BY <2>1, <1>9, <1>3
      <3> QED
        BY <2>1, <3>1, <3>2, <3>3, <3>5, <3>6
    <2>3. Len(trace) # 0 /\ 1 \in 1..(e - lower)
      BY <2>2, <1>5, <1>9
    <2>4. trace[1] = j.trace[lower + 1] /\ j.trace[lower + 1] = ModeAt(t)
      <3>1. trace[1] = j.trace[1 + lower] /\ 1 + lower = lower + 1
        BY <2>2, <2>3, <1>5
      <3> QED
        BY <3>1, <1>4, LowerIs
    <2>5. trace # <<>> /\ Head(trace) = trace[1]
      BY <2>2, <2>3, EmptySeq
    <2> QED
      BY <2>2, <2>4, <2>5
  <1>12. PICK path : path = ReducePath(r.path, lower, upper)
    OBVIOUS
  <1>13. PICK q : q = e - lower - 1
    OBVIOUS
  <1>14. path \in Seq(Node) /\ PathFits(path, q)
    <2>1. q \in Nat /\ \A n \in 1..p : n <= upper => n - lower <= q
      BY <1>9, <1>13
    <2>2. PathFits(j.path, p)
      BY <1>3, <1>4
    <2> QED
      BY <2>1, <2>2, <1>2, <1>3, <1>5, <1>9, <1>12, ReducedPath
  <1>15. PICK c : c = [r EXCEPT !.trace = trace, !.path = path]
    OBVIOUS
  <1>16. Reduced(j, r, upper, t) = c
    BY <1>2, <1>4, <1>8, <1>10, <1>12, <1>15 DEF Reduced, Job
  <1>17. /\ c \in Job /\ c.initial = t /\ c.human = h /\ c.trace = trace
         /\ c.path = path /\ c.sections = r.sections /\ c.snapshot = r.snapshot
    BY <1>2, <1>11, <1>14, <1>15 DEF Job
  <1>18. Position(c) = q
    BY <1>5, <1>9, <1>11, <1>13, <1>17 DEF Position
  <1>19. Within(c.sections, q)
    <2>1. \A range \in TraceSampleRange : MaxTrace(range) \in Int
      <3> TAKE range \in TraceSampleRange
      <3>1. range.initial.trace \in Nat /\ Len(range.bounds) \in Nat
        BY RangeFields
      <3>2. \A a, b \in Nat : a + b - 1 \in Int
        OBVIOUS
      <3> QED
        BY <3>1, <3>2 DEF MaxTrace
    <2>2. reach <= q /\ q \in Nat
      BY <1>9, <1>13
    <2>3. ASSUME NEW k \in 1..Len(r.sections), NEW i \in 1..Len(r.sections[k].barriers)
          PROVE  MaxTrace(r.sections[k].barriers[i].range) <= q
      <3>1. r.sections[k].barriers[i].range \in TraceSampleRange
        BY <1>3, SectionsAre
      <3>2. PICK m \in Int : m = MaxTrace(r.sections[k].barriers[i].range)
        BY <3>1, <2>1
      <3>3. m <= reach
        BY <3>2, <1>5 DEF Within
      <3>4. m <= q
        BY <3>2, <3>3, <2>2, <1>5
      <3> QED
        BY <3>2, <3>4
    <2> QED
      BY <2>3, <1>17 DEF Within
  <1>20. c \in FitJobs
    BY <1>2, <1>11, <1>14, <1>17, <1>18, <1>19 DEF FitJobs
  <1>21. /\ lower + reach + 1 \in 1..Len(j.trace)
         /\ CanReduce(j.trace, lower + 1, upper + 1)
    <2>1. lower + reach + 1 \in 1..Len(j.trace)
      BY <1>3, <1>4, <1>5
    <2>2. j.trace # <<>> /\ lower + 1 <= upper + 1
      BY <1>3, <1>5, <1>7 DEF FitJobs
    <2> QED
      BY <2>1, <2>2 DEF CanReduce
  <1> QED
    BY <1>1, <1>2, <1>4, <1>6, <1>11, <1>16, <1>17, <1>20, <1>21 DEF WaitingJobs

LEMMA NewJobFits ==
    ASSUME HistoryTypeOK, NEW t \in 0..MaxTime, t <= latestTime, ModeAt(t) # NoMode,
           NEW h \in HumanSamples \cup {NoSample}
    PROVE  LET c == NewJob(t, h)
           IN  /\ c \in FitJobs /\ c.human = h /\ c.initial = t /\ c.path = <<>>
               /\ c.snapshot = t /\ c.trace = <<ModeAt(t)>>
  <1>1. ModeAt(t) \in Modes
    BY ModeAtIs
  <1>2. PICK c : c = NewJob(t, h)
    OBVIOUS
  <1>3. PICK trace : trace = <<ModeAt(t)>>
    OBVIOUS
  <1>4. trace \in Seq(Modes) /\ Len(trace) = 1 /\ trace # <<>>
    BY <1>1, <1>3
  <1>5. /\ <<>> \in Seq(Node) /\ <<>> \in Seq(Section) /\ Len(<<>>) = 0
    BY EmptySeq
  <1>6. c = [initial |-> t, snapshot |-> t, human |-> h, trace |-> trace,
             path |-> <<>>, sections |-> <<>>, since |-> t, astray |-> FALSE]
    BY <1>2, <1>3 DEF NewJob
  <1>7. /\ c \in Job /\ c.human = h /\ c.initial = t /\ c.path = <<>>
        /\ c.trace = trace /\ c.sections = <<>> /\ c.snapshot = t
    BY <1>4, <1>5, <1>6 DEF Job
  <1>8. Chained(c.sections) /\ Within(c.sections, Position(c)) /\ PathFits(c.path, Position(c))
    <2>1. Len(c.sections) = 0 /\ Len(c.path) = 0
      BY <1>5, <1>7
    <2>2. \A k \in 1..0 : FALSE
      OBVIOUS
    <2> QED
      BY <2>1, <2>2 DEF Chained, Within, PathFits
  <1>9. c \in FitJobs
    BY <1>4, <1>7, <1>8 DEF FitJobs
  <1> QED
    BY <1>2, <1>3, <1>7, <1>9

LEMMA PostponeFits ==
    ASSUME NEW j \in FitJobs, NEW t \in 0..MaxTime, t <= latestTime
    PROVE  LET c == Postpone(j, t)
           IN  /\ c \in FitJobs /\ c.initial = t /\ c.path = j.path /\ c.trace = j.trace
               /\ c.snapshot = IF Reuse THEN SnapshotOf(j, t) ELSE t
  <1> DEFINE snapshot == IF Reuse THEN SnapshotOf(j, t) ELSE t
  <1>1. j \in Job
    BY DEF FitJobs
  <1>2. snapshot \in 0..MaxTime
    BY <1>1 DEF SnapshotOf, Job
  <1>3. Postpone(j, t) = [j EXCEPT !.initial = t, !.snapshot = snapshot]
    BY DEF Postpone
  <1> HIDE DEF snapshot
  <1>4. PICK c : c = Postpone(j, t)
    OBVIOUS
  <1>5. /\ c \in Job /\ c.initial = t /\ c.path = j.path /\ c.trace = j.trace
        /\ c.sections = j.sections /\ c.snapshot = snapshot
    BY <1>1, <1>2, <1>3, <1>4 DEF Job
  <1>6. c \in FitJobs
    BY <1>5 DEF FitJobs, Position
  <1> QED
    BY <1>4, <1>5, <1>6 DEF snapshot

-----------------------------------------------------------------------------
(* The paths of the jobs that branch.                                       *)

LEMMA PrefixIs ==
    ASSUME NEW S, NEW p \in Seq(S), NEW q \in Seq(S)
    PROVE  p \in Prefixes(q) <=> Len(p) <= Len(q) /\ \A i \in 1..Len(p) : p[i] = q[i]
  <1>1. Len(p) \in Nat /\ Len(q) \in Nat
    OBVIOUS
  <1>2. ASSUME NEW l \in 0..Len(q)
        PROVE  /\ SubSeq(q, 1, l) \in Seq(S) /\ Len(SubSeq(q, 1, l)) = l
               /\ \A i \in 1..l : SubSeq(q, 1, l)[i] = q[i]
    <2>1. /\ l \in Nat /\ 1 \in 1..(l + 1) /\ l <= Len(q) /\ l - 1 + 1 = l
          /\ \A i \in 1..l : i + (1 - 1) = i
      BY <1>1
    <2>2. /\ SubSeq(q, 1, l) \in Seq(S) /\ Len(SubSeq(q, 1, l)) = l - 1 + 1
          /\ \A i \in 1..(l - 1 + 1) : SubSeq(q, 1, l)[i] = q[i + (1 - 1)]
      BY <2>1, PartOf
    <2> QED
      BY <2>1, <2>2
  <1>3. ASSUME p \in Prefixes(q)
        PROVE  Len(p) <= Len(q) /\ \A i \in 1..Len(p) : p[i] = q[i]
    <2>1. PICK l \in 0..Len(q) : p = SubSeq(q, 1, l)
      BY <1>3 DEF Prefixes
    <2> QED
      BY <2>1, <1>1, <1>2
  <1>4. ASSUME Len(p) <= Len(q), \A i \in 1..Len(p) : p[i] = q[i]
        PROVE  p \in Prefixes(q)
    <2>1. PICK l \in 0..Len(q) : l = Len(p)
      BY <1>1, <1>4
    <2>2. PICK r : r = SubSeq(q, 1, l)
      OBVIOUS
    <2>3. r \in Seq(S) /\ Len(r) = l /\ \A i \in 1..l : r[i] = q[i]
      BY <2>2, <1>2
    <2>4. p = r
      BY <2>1, <2>3, <1>4, SeqEqual
    <2> QED
      BY <2>2, <2>4 DEF Prefixes
  <1> QED
    BY <1>3, <1>4

LEMMA PrefixesOf ==
    ASSUME NEW S, NEW q \in Seq(S), NEW p \in Prefixes(q)
    PROVE  p \in Seq(S)
  <1>1. PICK l \in 0..Len(q) : p = SubSeq(q, 1, l)
    BY DEF Prefixes
  <1>2. l \in Nat /\ 1 \in 1..(l + 1) /\ l <= Len(q)
    OBVIOUS
  <1> QED
    BY <1>1, <1>2, PartOf

\* A prefix of a prefix; two prefixes of the same sequence.
LEMMA PrefixOrder ==
    ASSUME NEW S, NEW p \in Seq(S), NEW q \in Seq(S), NEW r \in Seq(S)
    PROVE  /\ p \in Prefixes(p)
           /\ p \in Prefixes(q) /\ q \in Prefixes(r) => p \in Prefixes(r)
           /\ p \in Prefixes(r) /\ q \in Prefixes(r) =>
                 p \in Prefixes(q) \/ (q \in Prefixes(p) /\ Len(q) < Len(p))
  <1>1. Len(p) \in Nat /\ Len(q) \in Nat /\ Len(r) \in Nat
    OBVIOUS
  <1>2. p \in Prefixes(p)
    BY <1>1, PrefixIs
  <1>3. ASSUME p \in Prefixes(q), q \in Prefixes(r)
        PROVE  p \in Prefixes(r)
    <2>1. Len(p) <= Len(q) /\ (\A i \in 1..Len(p) : p[i] = q[i])
      BY <1>3, PrefixIs
    <2>2. Len(q) <= Len(r) /\ (\A i \in 1..Len(q) : q[i] = r[i])
      BY <1>3, PrefixIs
    <2>3. Len(p) <= Len(r) /\ \A i \in 1..Len(p) : p[i] = r[i]
      BY <2>1, <2>2, <1>1
    <2> QED
      BY <2>3, PrefixIs
  <1>4. ASSUME p \in Prefixes(r), q \in Prefixes(r)
        PROVE  p \in Prefixes(q) \/ (q \in Prefixes(p) /\ Len(q) < Len(p))
    <2>1. \A i \in 1..Len(p) : p[i] = r[i]
      BY <1>4, PrefixIs
    <2>2. \A i \in 1..Len(q) : q[i] = r[i]
      BY <1>4, PrefixIs
    <2>3. CASE Len(p) <= Len(q)
      <3>1. \A i \in 1..Len(p) : p[i] = q[i]
        BY <2>1, <2>2, <2>3, <1>1
      <3> QED
        BY <2>3, <3>1, PrefixIs
    <2>4. CASE Len(q) < Len(p)
      <3>1. Len(q) <= Len(p) /\ \A i \in 1..Len(q) : q[i] = p[i]
        BY <2>1, <2>2, <2>4, <1>1
      <3> QED
        BY <2>4, <3>1, PrefixIs
    <2> QED
      BY <2>3, <2>4, <1>1
  <1> QED
    BY <1>2, <1>3, <1>4

LEMMA PrefixOfAppend ==
    ASSUME NEW S, NEW p \in Seq(S), NEW q \in Seq(S), NEW x \in S
    PROVE  /\ Append(q, x) \in Seq(S) /\ Len(Append(q, x)) = Len(q) + 1
           /\ q \in Prefixes(Append(q, x))
           /\ p \in Prefixes(Append(q, x)) => p \in Prefixes(q) \/ p = Append(q, x)
  <1>1. PICK a : a = Append(q, x)
    OBVIOUS
  <1>2. /\ a \in Seq(S) /\ Len(a) = Len(q) + 1 /\ Len(q) \in Nat /\ Len(p) \in Nat
        /\ \A i \in 1..Len(q) : a[i] = q[i]
    BY <1>1
  <1>3. q \in Prefixes(a)
    <2>1. Len(q) <= Len(a) /\ \A i \in 1..Len(q) : q[i] = a[i]
      BY <1>2
    <2> QED
      BY <2>1, <1>2, PrefixIs
  <1>4. ASSUME p \in Prefixes(a)
        PROVE  p \in Prefixes(q) \/ p = a
    <2>1. Len(p) <= Len(a) /\ \A i \in 1..Len(p) : p[i] = a[i]
      BY <1>2, <1>4, PrefixIs
    <2>2. CASE Len(p) = Len(a)
      BY <2>1, <2>2, <1>2, SeqEqual
    <2>3. CASE Len(p) # Len(a)
      <3>1. Len(p) <= Len(q) /\ \A i \in 1..Len(p) : p[i] = q[i]
        BY <2>1, <2>3, <1>2
      <3> QED
        BY <3>1, PrefixIs
    <2> QED
      BY <2>2, <2>3
  <1> QED
    BY <1>1, <1>2, <1>3, <1>4

LEMMA PrioritiesAre ==
    ASSUME NEW path \in Seq(Node)
    PROVE  /\ Priorities(path) \in Seq(Nat)
           /\ Len(Priorities(path)) = Len(path)
           /\ \A i \in 1..Len(path) : Priorities(path)[i] = path[i].priority
           /\ \A a, p \in Nat : Priorities(Add(path, a, p)) = Append(Priorities(path), a)
  <1>1. Len(path) \in Nat /\ \A i \in 1..Len(path) : path[i] \in Node
    OBVIOUS
  <1>2. \A e \in Node : e.priority \in Nat
    BY DEF Node
  <1>3. PICK q : q = Priorities(path)
    OBVIOUS
  <1>4. q = [i \in 1..Len(path) |-> path[i].priority]
    BY <1>3 DEF Priorities
  <1>5. /\ q \in Seq(Nat) /\ Len(q) = Len(path)
        /\ \A i \in 1..Len(path) : q[i] = path[i].priority
    BY <1>1, <1>2, <1>4
  <1>6. ASSUME NEW a \in Nat, NEW p \in Nat
        PROVE  Priorities(Add(path, a, p)) = Append(q, a)
    <2>1. PICK node : node = [priority |-> a, position |-> p]
      OBVIOUS
    <2>2. node \in Node /\ node.priority = a
      BY <2>1 DEF Node
    <2>3. PICK new : new = Append(path, node)
      OBVIOUS
    <2>4. /\ new \in Seq(Node) /\ Len(new) = Len(path) + 1 /\ new[Len(path) + 1] = node
          /\ \A i \in 1..Len(path) : new[i] = path[i]
      BY <2>2, <2>3, <1>1
    <2>5. PICK u : u = Priorities(new)
      OBVIOUS
    <2>6. u = [i \in 1..(Len(path) + 1) |-> new[i].priority]
      BY <2>4, <2>5 DEF Priorities
    <2>7. /\ u \in Seq(Nat) /\ Len(u) = Len(path) + 1
          /\ \A i \in 1..(Len(path) + 1) : u[i] = new[i].priority
      <3>1. \A i \in 1..(Len(path) + 1) : new[i].priority \in Nat
        BY <2>4, <1>1, <1>2
      <3>2. u \in [1..(Len(path) + 1) -> Nat] /\ Len(path) + 1 \in Nat
        BY <3>1, <2>6, <1>1
      <3> QED
        BY <3>2, <2>6
    <2>8. PICK v : v = Append(q, a)
      OBVIOUS
    <2>9. /\ v \in Seq(Nat) /\ Len(v) = Len(path) + 1 /\ v[Len(path) + 1] = a
          /\ \A i \in 1..Len(path) : v[i] = q[i]
      BY <2>8, <1>5
    <2>10. ASSUME NEW i \in 1..Len(u)
           PROVE  u[i] = v[i]
      <3>1. CASE i = Len(path) + 1
        BY <3>1, <2>2, <2>4, <2>7, <2>9
      <3>2. CASE i \in 1..Len(path)
        BY <3>2, <2>4, <2>7, <2>9, <1>5
      <3> QED
        BY <3>1, <3>2, <2>7, <1>1
    <2>11. u = v
      BY <2>7, <2>9, <2>10, SeqEqual
    <2> QED
      BY <2>1, <2>3, <2>5, <2>8, <2>11 DEF Add
  <1> QED
    BY <1>3, <1>5, <1>6

\* None of the paths is the beginning of another one.
Diverging(jobs) ==
    \A i, k \in 1..Len(jobs) : i # k =>
        Priorities(jobs[i].path) \notin Prefixes(Priorities(jobs[k].path))

\* A beginning of a sequence agrees with it.
LEMMA BeginningAgrees ==
    \A u, v \in Seq(Nat) : u \in Prefixes(v) => \A m \in 1..Len(u) : u[m] = v[m]
  BY PrefixIs

\* The jobs of a time that has so many branches from a path.
LEMMA BranchesDiverge ==
    ASSUME NEW path \in Seq(Node), NEW p \in Nat, NEW jobs, Len(jobs) \in Nat,
           \A k \in 1..Len(jobs) :
               jobs[k].path = IF Len(jobs) = 1 THEN path ELSE Add(path, k - 1, p)
    PROVE  Diverging(jobs)
  <1> SUFFICES ASSUME NEW i \in 1..Len(jobs), NEW k \in 1..Len(jobs), i # k,
                      Priorities(jobs[i].path) \in Prefixes(Priorities(jobs[k].path))
               PROVE  FALSE
    BY DEF Diverging
  <1>1. PICK a \in Nat, b \in Nat : a = i - 1 /\ b = k - 1 /\ a # b
    <2>1. i - 1 \in Nat /\ k - 1 \in Nat /\ i - 1 # k - 1
      OBVIOUS
    <2> QED
      BY <2>1
  <1>2. PICK q : q = Priorities(path)
    OBVIOUS
  <1>3. q \in Seq(Nat) /\ Len(q) \in Nat
    BY <1>2, PrioritiesAre
  <1>4. Len(jobs) # 1
    OBVIOUS
  <1>5. jobs[i].path = Add(path, a, p) /\ jobs[k].path = Add(path, b, p)
    BY <1>1, <1>4
  <1>6. PICK u, v : u = Append(q, a) /\ v = Append(q, b)
    OBVIOUS
  <1>7. Priorities(jobs[i].path) = u /\ Priorities(jobs[k].path) = v
    <2>1. /\ Priorities(Add(path, a, p)) = Append(Priorities(path), a)
          /\ Priorities(Add(path, b, p)) = Append(Priorities(path), b)
      BY PrioritiesAre
    <2> QED
      BY <2>1, <1>2, <1>5, <1>6
  <1>8. /\ u \in Seq(Nat) /\ v \in Seq(Nat) /\ Len(u) = Len(q) + 1 /\ Len(v) = Len(q) + 1
        /\ u[Len(q) + 1] = a /\ v[Len(q) + 1] = b
    BY <1>3, <1>6
  <1>9. \A m \in 1..Len(u) : u[m] = v[m]
    <2>1. u \in Prefixes(v)
      BY <1>7
    <2> QED
      BY <2>1, <1>8, BeginningAgrees
  <1>10. Len(q) + 1 \in 1..Len(u)
    BY <1>3, <1>8
  <1> QED
    BY <1>1, <1>8, <1>9, <1>10

-----------------------------------------------------------------------------
(* Awakening the jobs that sleep.                                           *)

\* The jobs that wait with their initial time at t.
WaitingAt(t) == {j \in WaitingJobs : j.initial = t}

LEMMA EmptyJobs ==
    ASSUME NEW S
    PROVE  <<>> \in Seq(S) /\ Len(<<>>) = 0 /\ Diverging(<<>>)
  <1>1. <<>> \in Seq(S) /\ Len(<<>>) = 0
    BY EmptySeq
  <1>2. \A k \in 1..0 : FALSE
    OBVIOUS
  <1> QED
    BY <1>1, <1>2 DEF Diverging

LEMMA SingleJob ==
    ASSUME NEW S, NEW c \in S
    PROVE  /\ <<c>> \in Seq(S) /\ Len(<<c>>) = 1 /\ Diverging(<<c>>)
           /\ \A k \in 1..Len(<<c>>) : <<c>>[k] = c
  <1>1. <<c>> \in Seq(S) /\ Len(<<c>>) = 1 /\ <<c>>[1] = c
    OBVIOUS
  <1>2. \A k \in 1..1 : k = 1
    OBVIOUS
  <1> QED
    BY <1>1, <1>2 DEF Diverging

LEMMA ReawakenKeeps ==
    ASSUME HistoryTypeOK, NEW j \in FitJobs, NEW t \in 0..MaxTime, t <= latestTime,
           ModeAt(t) # NoMode, NEW h \in HumanSamples, CanResume(j, Resume(j, t, h), t)
    PROVE  LET woken == Reawaken(j, Resume(j, t, h), t, h)
           IN  /\ woken.kept \in Seq(FitJobs) /\ woken.moved \in Seq(WaitingAt(t))
               /\ Diverging(woken.moved)
  <1>1. PICK r : r = Resume(j, t, h)
    OBVIOUS
  <1>2. CASE Lower(j, t) < 0 \/ r.sections = <<>>
    <2>1. PICK c : c = NewJob(t, h)
      OBVIOUS
    <2>2. c \in WaitingAt(t)
      BY <2>1, NewJobFits DEF WaitingAt, WaitingJobs
    <2>3. Reawaken(j, r, t, h) = [kept |-> <<>>, moved |-> <<c>>]
      BY <1>2, <2>1 DEF Reawaken
    <2>4. PICK moved, kept : moved = <<c>> /\ kept = <<>>
      OBVIOUS
    <2>5. moved \in Seq(WaitingAt(t)) /\ Diverging(moved)
      BY <2>2, <2>4, SingleJob
    <2>6. kept \in Seq(FitJobs)
      BY <2>4, EmptyJobs
    <2> QED
      BY <1>1, <2>3, <2>4, <2>5, <2>6
  <1>3. CASE Lower(j, t) >= 0 /\ r.sections # <<>>
    <2>1. PICK upper : upper = UpperOf(j, r, t)
      OBVIOUS
    <2>2. PICK c : c = Reduced(j, r, upper, t)
      OBVIOUS
    <2>3. c \in WaitingJobs /\ c.human = h /\ c.initial = t
      BY <1>1, <1>3, <2>1, <2>2, ReducedFits
    <2>4. PICK whole \in BOOLEAN : whole <=> upper = Len(j.trace)
      OBVIOUS
    <2>5. Reawaken(j, r, t, h) = GoOn(c, upper = Len(j.trace))
      <3>1. ~(Lower(j, t) < 0 \/ r.sections = <<>>)
        BY <1>3, LowerIs
      <3> QED
        BY <3>1, <2>1, <2>2 DEF Reawaken
    <2>6. c \in WaitingAt(t) /\ c \in FitJobs
      BY <2>3 DEF WaitingAt, WaitingJobs
    <2>7. CASE upper # Len(j.trace)
      <3>1. Reawaken(j, r, t, h) = [kept |-> <<>>, moved |-> <<c>>]
        BY <2>5, <2>7 DEF GoOn
      <3>2. PICK moved, kept : moved = <<c>> /\ kept = <<>>
        OBVIOUS
      <3>3. moved \in Seq(WaitingAt(t)) /\ Diverging(moved)
        BY <2>6, <3>2, SingleJob
      <3>4. kept \in Seq(FitJobs)
        BY <3>2, EmptyJobs
      <3> QED
        BY <1>1, <3>1, <3>2, <3>3, <3>4
    <2>8. CASE upper = Len(j.trace) /\ HasLooped(c.trace)
      <3>1. Reawaken(j, r, t, h) = [kept |-> <<c>>, moved |-> <<>>]
        BY <2>5, <2>8 DEF GoOn
      <3>2. PICK moved, kept : moved = <<>> /\ kept = <<c>>
        OBVIOUS
      <3>3. moved \in Seq(WaitingAt(t)) /\ Diverging(moved)
        BY <3>2, EmptyJobs
      <3>4. kept \in Seq(FitJobs)
        BY <2>6, <3>2, SingleJob
      <3> QED
        BY <1>1, <3>1, <3>2, <3>3, <3>4
    <2>9. CASE upper = Len(j.trace) /\ ~HasLooped(c.trace)
      <3>1. Reawaken(j, r, t, h) = [kept |-> <<>>, moved |-> NextJobs(c)]
        BY <2>5, <2>9 DEF GoOn
      <3>2. CanGoOn(c)
        <4>1. CanResume(j, r, t) /\ UpperOf(j, r, t) = Len(j.trace)
          BY <1>1, <2>1, <2>9
        <4>2. CanGoOn(Reduced(j, r, Len(j.trace), t))
          BY <4>1, <1>3 DEF CanResume
        <4> QED
          BY <4>2, <2>2, <2>9
      <3>3. PICK moved, kept : moved = NextJobs(c) /\ kept = <<>>
        OBVIOUS
      <3>4. /\ moved \in Seq(FitJobs)
            /\ \A k \in 1..Len(moved) :
                  /\ moved[k].human = c.human /\ moved[k].initial = c.initial
                  /\ moved[k].path = IF Len(moved) = 1 THEN c.path
                                     ELSE Add(c.path, k - 1, Len(c.trace))
        BY <2>6, <3>2, <3>3, NextJobsFit
      <3>5. moved \in Seq(WaitingAt(t))
        <4>1. \A k \in 1..Len(moved) : moved[k] \in WaitingAt(t)
          BY <2>3, <3>4 DEF WaitingAt, WaitingJobs
        <4> QED
          BY <3>4, <4>1
      <3>6. Diverging(moved)
        <4>1. c.path \in Seq(Node) /\ Len(c.trace) \in Nat
          BY <2>6, JobFields DEF FitJobs
        <4>2. Len(moved) \in Nat
          BY <3>4
        <4> QED
          BY <4>1, <4>2, <3>4, BranchesDiverge
      <3>7. kept \in Seq(FitJobs)
        BY <3>3, EmptyJobs
      <3> QED
        BY <1>1, <3>1, <3>3, <3>5, <3>6, <3>7
    <2> QED
      BY <2>7, <2>8, <2>9
  <1> QED
    BY <1>2, <1>3, LowerIs

-----------------------------------------------------------------------------
\* What a loop over the sleeping jobs makes of a start.
LEMMA AwokenKeeps ==
    ASSUME NEW S, Len(sleeping) \in Nat,
           [kept |-> <<>>, moved |-> <<>>, registered |-> registered, failed |-> FALSE] \in S[0],
           \A n \in 1..Len(sleeping) : \A acc \in S[n - 1] : Awaken(acc, sleeping[n]) \in S[n]
    PROVE  Awoken \in S[Len(sleeping)]
  <1> DEFINE N == Len(sleeping)
             start == [kept |-> <<>>, moved |-> <<>>, registered |-> registered, failed |-> FALSE]
             step == [n \in 1..N |-> [x \in S[n - 1] |-> Awaken(x, sleeping[n])]]
             Defines(f) == f = [n \in 0..N |-> IF n = 0 THEN start
                                               ELSE Awaken(f[n - 1], sleeping[n])]
             F == CHOOSE f : Defines(f)
  <1>1. /\ N \in Nat /\ start \in S[0]
        /\ \A n \in 1..N : \A x \in S[n - 1] :
              step[n][x] = Awaken(x, sleeping[n]) /\ step[n][x] \in S[n]
    OBVIOUS
  <1>2. Awoken = F[N]
    BY DEF Awoken
  <1> HIDE DEF N, start, step
  <1>3. Defines(F)
    <2> HIDE DEF F
    <2>1. PICK f : f = Iterated(N, S, start, step)
      OBVIOUS
    <2>2. Iterates(f, N, S, start, step)
      BY <1>1, <2>1, Recursion
    <2>3. /\ f = [n \in 0..N |-> f[n]]
          /\ \A n \in 0..N : /\ f[n] = IF n = 0 THEN start ELSE step[n][f[n - 1]]
                             /\ f[n] \in S[n]
      BY <2>2 DEF Iterates
    <2>4. \A n \in 0..N : f[n] = IF n = 0 THEN start ELSE Awaken(f[n - 1], sleeping[n])
      <3> TAKE n \in 0..N
      <3>1. n # 0 => n \in 1..N /\ n - 1 \in 0..N
        BY <1>1
      <3> QED
        BY <3>1, <2>3, <1>1
    <2>5. Defines(f)
      BY <2>3, <2>4
    <2> HIDE DEF Defines
    <2>6. \E g : Defines(g)
      BY <2>5
    <2> QED
      BY <2>6 DEF F
  <1> HIDE DEF F
  <1>4. \A n \in 0..N : F[n] = IF n = 0 THEN start ELSE Awaken(F[n - 1], sleeping[n])
    BY <1>3
  <1> DEFINE P == [n \in 0..N |-> F[n] \in S[n]]
  <1>5. P[0]
    <2>1. 0 \in 0..N
      BY <1>1
    <2> QED
      BY <2>1, <1>1, <1>4
  <1>6. ASSUME NEW n \in 1..N, P[n - 1]
        PROVE  P[n]
    <2>1. n \in 0..N /\ n - 1 \in 0..N /\ n # 0
      BY <1>1
    <2>2. F[n - 1] \in S[n - 1] /\ F[n] = Awaken(F[n - 1], sleeping[n])
      BY <2>1, <1>4, <1>6
    <2>3. F[n] \in S[n]
      BY <2>2, <1>1
    <2> QED
      BY <2>1, <2>3
  <1>7. \A n \in 0..N : P[n]
    <2> HIDE DEF P
    <2> QED
      BY <1>1, <1>5, <1>6, CountingUp
  <1>8. N \in 0..N
    BY <1>1
  <1> QED
    BY <1>2, <1>7, <1>8 DEF N

\* The times and the paths that may be registered.
Registrations == (0..MaxTime) \X Seq(Nat)

\* What awakening makes of the jobs that sleep, with t the time of the human state.
Wakings(t) == [kept : Seq(FitJobs), moved : Seq(WaitingAt(t)),
               registered : SUBSET Registrations, failed : BOOLEAN]

LEMMA LatestIs ==
    ASSUME instances \in Seq([time : 0..MaxTime, sample : HumanSamples \cup {NoSample}]),
           HasInstance
    PROVE  /\ Latest.time \in 0..MaxTime /\ Latest.time <= latestTime
           /\ Latest.sample \in HumanSamples \cup {NoSample}
  <1> DEFINE I == {i \in 1..Len(instances) : instances[i].time <= latestTime}
  <1>1. I # {}
    BY DEF HasInstance
  <1>2. Max(I) \in I
    <2>1. I \subseteq 1..Len(instances) /\ Len(instances) \in Nat
      OBVIOUS
    <2> HIDE DEF I
    <2> QED
      BY <1>1, <2>1, MaxIs
  <1>3. Latest = instances[Max(I)]
    <2>1. SelectLastInSeq(instances, LAMBDA i : i.time <= latestTime) = IF I # {} THEN Max(I) ELSE 0
      BY DEF SelectLastInSeq
    <2> HIDE DEF I
    <2> QED
      BY <2>1, <1>1 DEF Latest
  <1>4. PICK k : k = Max(I)
    OBVIOUS
  <1>5. k \in 1..Len(instances) /\ instances[k].time <= latestTime /\ Latest = instances[k]
    BY <1>2, <1>3, <1>4
  <1>6. instances[k] \in [time : 0..MaxTime, sample : HumanSamples \cup {NoSample}]
    <2>1. PICK R : R = [time : 0..MaxTime, sample : HumanSamples \cup {NoSample}]
      OBVIOUS
    <2>2. instances \in Seq(R)
      BY <2>1
    <2>3. instances[k] \in R
      BY <2>2, <1>5, ElementOfSeq
    <2> QED
      BY <2>1, <2>3
  <1> QED
    BY <1>5, <1>6

LEMMA RegisterIs ==
    ASSUME NEW registers \in SUBSET Registrations, NEW jobs \in Seq(FitJobs)
    PROVE  /\ Register(registers, jobs) \in SUBSET Registrations
           /\ registers \subseteq Register(registers, jobs)
           /\ \A k \in 1..Len(jobs) :
                 <<jobs[k].initial, Priorities(jobs[k].path)>> \in Register(registers, jobs)
  <1>1. ToSet(jobs) = {jobs[k] : k \in 1..Len(jobs)} /\ \A k \in 1..Len(jobs) : jobs[k] \in FitJobs
    BY DEF ToSet
  <1>2. \A c \in FitJobs : <<c.initial, Priorities(c.path)>> \in Registrations
    <2> TAKE c \in FitJobs
    <2>1. c.initial \in 0..MaxTime /\ c.path \in Seq(Node)
      BY JobFields DEF FitJobs
    <2>2. Priorities(c.path) \in Seq(Nat)
      BY <2>1, PrioritiesAre
    <2> QED
      BY <2>1, <2>2 DEF Registrations
  <1> QED
    BY <1>1, <1>2 DEF Register

\* What happens to a job that sleeps: it is kept, it is promoted again, it is
\* awakened with what it may reuse, or it fails.
KeptAs(acc, new, j, t) ==
    \E c \in FitJobs, registers \in SUBSET Registrations :
        /\ new = [acc EXCEPT !.kept = Append(@, c), !.registered = registers]
        /\ c.path = j.path
        /\ c.initial = j.initial \/ (c.initial = t /\ j.initial < t)
        /\ \/ registers = acc.registered
           \/ Reuse /\ acc.registered \subseteq registers
DiscardedAs(acc, new, j, t) ==
    /\ ~Reuse /\ j.initial < t
    /\ \/ ~IsPrimary(j.path) /\ new = acc
       \/ IsPrimary(j.path) /\ \E c \in WaitingAt(t) :
             c.path = <<>> /\ new = [acc EXCEPT !.moved = Append(@, c)]
TakenAs(acc, new, t) ==
    /\ Reuse
    /\ \E kept \in Seq(FitJobs), moved \in Seq(WaitingAt(t)) :
          Diverging(moved) /\ new = Take(acc, [kept |-> kept, moved |-> moved])
FailedAs(acc, new) == Reuse /\ new = [acc EXCEPT !.failed = TRUE]

LEMMA AwakenCases ==
    ASSUME HistoryTypeOK, HasInstance,
           instances \in Seq([time : 0..MaxTime, sample : HumanSamples \cup {NoSample}]),
           NEW j \in FitJobs, NEW acc \in Wakings(Latest.time)
    PROVE  LET new == Awaken(acc, j)
           IN  \/ KeptAs(acc, new, j, Latest.time) \/ DiscardedAs(acc, new, j, Latest.time)
               \/ TakenAs(acc, new, Latest.time) \/ FailedAs(acc, new)
  <1>1. PICK t, h : t = Latest.time /\ h = Latest.sample
    OBVIOUS
  <1>2. /\ t \in 0..MaxTime /\ t <= latestTime /\ h \in HumanSamples \cup {NoSample}
        /\ t \in Nat /\ j.initial \in Nat
    BY <1>1, LatestIs, TimesAssumption, JobFields DEF FitJobs
  <1>3. acc \in Wakings(t) /\ acc.registered \in SUBSET Registrations
    BY <1>1 DEF Wakings
  <1>4. PICK due \in BOOLEAN : due <=> j.initial < t /\ CanLookAhead(j.snapshot, t)
    OBVIOUS
  <1>5. CASE ~due
    <2>1. Awaken(acc, j) = [acc EXCEPT !.kept = Append(@, j)]
      BY <1>1, <1>4, <1>5 DEF Awaken
    <2>2. [acc EXCEPT !.kept = Append(@, j)]
             = [acc EXCEPT !.kept = Append(@, j), !.registered = acc.registered]
      BY <1>3 DEF Wakings
    <2>3. KeptAs(acc, Awaken(acc, j), j, t)
      BY <2>1, <2>2, <1>3 DEF KeptAs
    <2> QED
      BY <2>3, <1>1
  <1>6. CASE due /\ h = NoSample
    <2>1. PICK c : c = Postpone(j, t)
      OBVIOUS
    <2>2. c \in FitJobs /\ c.initial = t /\ c.path = j.path
      BY <2>1, <1>2, PostponeFits
    <2>3. PICK one : one = <<c>>
      OBVIOUS
    <2>4. one \in Seq(FitJobs)
      BY <2>2, <2>3
    <2>5. PICK registers : registers = IF Reuse THEN Register(acc.registered, one) ELSE acc.registered
      OBVIOUS
    <2>6. /\ registers \in SUBSET Registrations
          /\ registers = acc.registered \/ (Reuse /\ acc.registered \subseteq registers)
      BY <2>4, <2>5, <1>3, RegisterIs
    <2>7. Awaken(acc, j) = [acc EXCEPT !.kept = Append(@, c), !.registered = registers]
      BY <1>1, <1>4, <1>6, <1>3, <2>1, <2>3, <2>5 DEF Awaken, Wakings
    <2>8. j.initial < t
      BY <1>4, <1>6
    <2>9. KeptAs(acc, Awaken(acc, j), j, t)
      BY <2>2, <2>6, <2>7, <2>8 DEF KeptAs
    <2> QED
      BY <2>9, <1>1
  <1>7. CASE due /\ h # NoSample /\ ~Reuse
    <2>1. PICK c : c = NewJob(t, h)
      OBVIOUS
    <2>2. c \in FitJobs /\ c.human = h /\ c.initial = t /\ c.path = <<>>
      <3>1. ModeAt(t) # NoMode
        BY <1>4, <1>7 DEF CanLookAhead
      <3> QED
        BY <2>1, <3>1, <1>2, NewJobFits
    <2>3. c \in WaitingAt(t)
      BY <2>2, <1>2, <1>7 DEF WaitingAt, WaitingJobs
    <2>4. Awaken(acc, j) = [acc EXCEPT !.moved = IF IsPrimary(j.path) THEN Append(@, c) ELSE @]
      BY <1>1, <1>4, <1>7, <2>1 DEF Awaken
    <2>5. IsPrimary(j.path) => Awaken(acc, j) = [acc EXCEPT !.moved = Append(@, c)]
      BY <2>4
    <2>6. ~IsPrimary(j.path) => Awaken(acc, j) = acc
      BY <2>4, <1>3 DEF Wakings
    <2>7. j.initial < t
      BY <1>4, <1>7
    <2>8. DiscardedAs(acc, Awaken(acc, j), j, t)
      BY <2>2, <2>3, <2>5, <2>6, <2>7, <1>7 DEF DiscardedAs
    <2> QED
      BY <2>8, <1>1
  <1>8. CASE due /\ h # NoSample /\ Reuse
    <2>1. PICK r : r = Resume(j, t, h)
      OBVIOUS
    <2>2. Awaken(acc, j) = AwakenReusing(acc, j, r, t, h)
      BY <1>1, <1>4, <1>8, <2>1 DEF Awaken
    <2>3. CASE ~CanResume(j, r, t)
      BY <2>2, <2>3, <1>8 DEF AwakenReusing, FailedAs
    <2>4. CASE CanResume(j, r, t)
      <3>1. PICK woken : woken = Reawaken(j, r, t, h)
        OBVIOUS
      <3>2. woken.kept \in Seq(FitJobs) /\ woken.moved \in Seq(WaitingAt(t)) /\ Diverging(woken.moved)
        <4>1. h \in HumanSamples
          BY <1>2, <1>8
        <4>2. ModeAt(t) # NoMode
          BY <1>4, <1>8 DEF CanLookAhead
        <4> QED
          BY <2>1, <2>4, <3>1, <4>1, <4>2, <1>2, ReawakenKeeps
      <3>3. PICK kept, moved : kept = woken.kept /\ moved = woken.moved
        OBVIOUS
      <3>4. Awaken(acc, j) = Take(acc, woken)
        BY <2>2, <2>4, <3>1 DEF AwakenReusing
      <3>5. Take(acc, woken) = Take(acc, [kept |-> kept, moved |-> moved])
        BY <3>3 DEF Take, Accepted
      <3>6. TakenAs(acc, Awaken(acc, j), t)
        BY <1>8, <3>2, <3>3, <3>4, <3>5 DEF TakenAs
      <3> QED
        BY <3>6, <1>1
    <2> QED
      BY <2>3, <2>4
  <1> QED
    BY <1>2, <1>5, <1>6, <1>7, <1>8

LEMMA TakeIs ==
    ASSUME NEW t, NEW acc \in Wakings(t), NEW kept \in Seq(FitJobs),
           NEW moved \in Seq(WaitingAt(t))
    PROVE  LET woken == [kept |-> kept, moved |-> moved]
               accepted == Accepted(acc, woken)
               new == Take(acc, woken)
           IN  /\ accepted \in Seq(WaitingAt(t)) /\ new \in Wakings(t)
               /\ new.kept = acc.kept \o kept /\ new.moved = acc.moved \o accepted
               /\ new.registered = Register(acc.registered, accepted)
  <1> DEFINE places == {i \in 1..Len(moved) : Acceptable(acc.registered, moved[i])}
             woken == [kept |-> kept, moved |-> moved]
  <1>1. woken.kept = kept /\ woken.moved = moved
    OBVIOUS
  <1>2. PICK accepted : accepted = EntriesAt(moved, places)
    OBVIOUS
  <1>3. accepted \in Seq(WaitingAt(t)) /\ accepted \in Seq(FitJobs)
    <2>1. places \subseteq 1..Len(moved)
      OBVIOUS
    <2> HIDE DEF places
    <2>2. accepted \in Seq(WaitingAt(t))
      BY <1>2, <2>1, ChosenEntries
    <2>3. WaitingAt(t) \subseteq FitJobs
      BY DEF WaitingAt, WaitingJobs
    <2> QED
      BY <2>2, <2>3
  <1>4. Accepted(acc, woken) = accepted
    BY <1>1, <1>2 DEF Accepted
  <1>5. PICK k, m, r : k = acc.kept \o kept /\ m = acc.moved \o accepted
                       /\ r = Register(acc.registered, accepted)
    OBVIOUS
  <1>6. /\ acc.kept \in Seq(FitJobs) /\ acc.moved \in Seq(WaitingAt(t))
        /\ acc.registered \in SUBSET Registrations
    BY DEF Wakings
  <1>7. k \in Seq(FitJobs) /\ m \in Seq(WaitingAt(t))
    BY <1>3, <1>5, <1>6, ConcatProperties
  <1>8. r \in SUBSET Registrations
    BY <1>3, <1>5, <1>6, RegisterIs
  <1> HIDE DEF woken
  <1>9. Take(acc, woken) = [acc EXCEPT !.kept = k, !.moved = m, !.registered = r]
    BY <1>1, <1>4, <1>5 DEF Take, Wakings
  <1>10. PICK new : new = Take(acc, woken)
    OBVIOUS
  <1>11. new \in Wakings(t) /\ new.kept = k /\ new.moved = m /\ new.registered = r
    BY <1>7, <1>8, <1>9, <1>10 DEF Wakings
  <1> QED
    BY <1>3, <1>4, <1>5, <1>10, <1>11 DEF woken

\* Whatever happens to a job that sleeps, what is kept and moved stays fit.
LEMMA AwakenKeeps ==
    ASSUME HistoryTypeOK, HasInstance,
           instances \in Seq([time : 0..MaxTime, sample : HumanSamples \cup {NoSample}]),
           NEW j \in FitJobs, NEW acc \in Wakings(Latest.time)
    PROVE  Awaken(acc, j) \in Wakings(Latest.time)
  <1>1. PICK t, new : t = Latest.time /\ new = Awaken(acc, j)
    OBVIOUS
  <1>2. acc \in Wakings(t)
    BY <1>1
  <1>3. acc.kept \in Seq(FitJobs) /\ acc.moved \in Seq(WaitingAt(t))
    BY <1>2 DEF Wakings
  <1>4. CASE KeptAs(acc, new, j, t)
    <2>1. PICK c \in FitJobs, registers \in SUBSET Registrations :
              new = [acc EXCEPT !.kept = Append(@, c), !.registered = registers]
      BY <1>4 DEF KeptAs
    <2>2. PICK kept : kept = Append(acc.kept, c)
      OBVIOUS
    <2>3. kept \in Seq(FitJobs)
      BY <2>2, <1>3
    <2>4. new = [acc EXCEPT !.kept = kept, !.registered = registers]
      BY <2>1, <2>2, <1>2 DEF Wakings
    <2>5. new \in Wakings(t)
      BY <2>3, <2>4, <1>2 DEF Wakings
    <2> QED
      BY <2>5, <1>1
  <1>5. CASE DiscardedAs(acc, new, j, t)
    <2>1. CASE new = acc
      BY <2>1, <1>1, <1>2
    <2>2. CASE new # acc
      <3>1. PICK c \in WaitingAt(t) : new = [acc EXCEPT !.moved = Append(@, c)]
        BY <1>5, <2>2 DEF DiscardedAs
      <3>2. PICK moved : moved = Append(acc.moved, c)
        OBVIOUS
      <3>3. moved \in Seq(WaitingAt(t))
        BY <3>2, <1>3
      <3>4. new = [acc EXCEPT !.moved = moved]
        BY <3>1, <3>2, <1>2 DEF Wakings
      <3>5. new \in Wakings(t)
        BY <3>3, <3>4, <1>2 DEF Wakings
      <3> QED
        BY <3>5, <1>1
    <2> QED
      BY <2>1, <2>2
  <1>6. CASE TakenAs(acc, new, t)
    <2>1. PICK kept \in Seq(FitJobs), moved \in Seq(WaitingAt(t)) :
              new = Take(acc, [kept |-> kept, moved |-> moved])
      BY <1>6 DEF TakenAs
    <2>2. new \in Wakings(t)
      BY <2>1, <1>2, TakeIs
    <2> QED
      BY <2>2, <1>1
  <1>7. CASE FailedAs(acc, new)
    <2>1. new \in Wakings(t)
      BY <1>2, <1>7 DEF FailedAs, Wakings
    <2> QED
      BY <2>1, <1>1
  <1> QED
    BY <1>1, <1>4, <1>5, <1>6, <1>7, AwakenCases

\* What awakening all of the sleeping jobs makes of them.
LEMMA AwokenFits ==
    ASSUME HistoryTypeOK, sleeping \in Seq(FitJobs), sleeping # <<>> => HasInstance,
           registered \in SUBSET Registrations,
           instances \in Seq([time : 0..MaxTime, sample : HumanSamples \cup {NoSample}])
    PROVE  Awoken \in Wakings(Latest.time)
  <1> DEFINE W == Wakings(Latest.time)
             S == [n \in 0..Len(sleeping) |-> W]
             start == [kept |-> <<>>, moved |-> <<>>, registered |-> registered, failed |-> FALSE]
  <1>1. Len(sleeping) \in Nat
    OBVIOUS
  <1>2. start \in W
    <2>1. <<>> \in Seq(FitJobs) /\ <<>> \in Seq(WaitingAt(Latest.time))
      BY EmptyJobs
    <2> QED
      BY <2>1 DEF Wakings
  <1>3. ASSUME NEW n \in 1..Len(sleeping), NEW acc \in W
        PROVE  Awaken(acc, sleeping[n]) \in W
    <2>1. sleeping # <<>> /\ sleeping[n] \in FitJobs
      <3>1. Len(sleeping) # 0
        BY <1>1
      <3> QED
        BY <3>1, EmptySeq
    <2> QED
      BY <2>1, AwakenKeeps
  <1> HIDE DEF W, start
  <1>4. start \in S[0] /\ \A n \in 1..Len(sleeping) : \A acc \in S[n - 1] :
                             Awaken(acc, sleeping[n]) \in S[n]
    <2>1. 0 \in 0..Len(sleeping) /\ \A n \in 1..Len(sleeping) : n \in 0..Len(sleeping)
                                                             /\ n - 1 \in 0..Len(sleeping)
      BY <1>1
    <2> QED
      BY <2>1, <1>2, <1>3
  <1>5. S[Len(sleeping)] = W
    BY <1>1
  <1> HIDE DEF S
  <1>6. Awoken \in S[Len(sleeping)]
    BY <1>1, <1>4, AwokenKeeps DEF start
  <1> QED
    BY <1>5, <1>6 DEF W

-----------------------------------------------------------------------------
(* The jobs of a pair, whatever is done.                                    *)

Instances == Seq([time : 0..MaxTime, sample : HumanSamples \cup {NoSample}])

\* The inductive invariant: the jobs that wait or sleep are fit, and there are none
\* before a human state.
JobsInv ==
    /\ HistoryInv
    /\ factory \in Factories /\ instances \in Instances
    /\ pending \in BOOLEAN /\ handling \in BOOLEAN
    /\ waiting \in Seq(WaitingJobs) /\ sleeping \in Seq(FitJobs)
    /\ registered \in SUBSET Registrations
    /\ waiting # <<>> \/ sleeping # <<>> => HasInstance

\* A history whose handling fails is not changed by it.
LEMMA HistoryFails ==
    ASSUME HistoryInv, ~failure, failure' \in BOOLEAN,
           UNCHANGED <<presences, states, latestMode, latestTime, buffer, traces>>
    PROVE  HistoryInv'
  <1>1. /\ presences' = presences /\ states' = states /\ latestMode' = latestMode
        /\ latestTime' = latestTime /\ buffer' = buffer /\ traces' = traces
    OBVIOUS
  <1>2. HistoryTypeOK'
    BY <1>1 DEF HistoryInv, HistoryTypeOK
  <1>3. Fresh => Fresh'
    BY <1>1 DEF Fresh
  <1>4. Seen => Seen'
    BY <1>1 DEF Seen
  <1>5. Stored => Stored'
    BY <1>1 DEF Stored
  <1> QED
    BY <1>2, <1>3, <1>4, <1>5 DEF HistoryInv

LEMMA TimesGrow ==
    ASSUME HistoryTypeOK, HistoryNext
    PROVE  ~failure /\ latestTime' \in 0..MaxTime /\ latestTime <= latestTime'
  <1>1. PICK m \in Modes : \E p \in Places[m], gap \in Gaps :
            latestTime + gap <= MaxTime /\ Acquire(m, p, latestTime + gap)
    BY DEF HistoryNext
  <1>4. PICK p \in Places[m], gap \in Gaps :
            latestTime + gap <= MaxTime /\ Acquire(m, p, latestTime + gap)
    BY <1>1
  <1>2. latestTime \in Nat /\ MaxTime \in Nat /\ gap \in Nat
    BY Times, TimesAssumption
  <1>3. ~failure /\ latestTime' = latestTime + gap
    BY <1>4 DEF Acquire
  <1> QED
    BY <1>4, <1>2, <1>3

\* Jobs stay fit as time passes.
LEMMA FitLater ==
    ASSUME latestTime \in Nat, latestTime' \in Nat, latestTime <= latestTime'
    PROVE  /\ FitJobs \subseteq FitJobs' /\ WaitingJobs \subseteq WaitingJobs'
           /\ \A q \in Seq(FitJobs) : q \in Seq(FitJobs)'
           /\ \A q \in Seq(WaitingJobs) : q \in Seq(WaitingJobs)'
  <1>1. ASSUME NEW j \in FitJobs
        PROVE  j \in FitJobs'
    <2>1. /\ j \in Job /\ j.trace # <<>> /\ j.initial <= latestTime
          /\ Chained(j.sections) /\ Within(j.sections, Position(j)) /\ PathFits(j.path, Position(j))
      BY DEF FitJobs
    <2>2. j.initial \in Nat
      BY <2>1, JobFields
    <2>3. j.initial <= latestTime'
      BY <2>1, <2>2
    <2> QED
      BY <2>1, <2>3 DEF FitJobs
  <1>2. WaitingJobs \subseteq WaitingJobs'
    BY <1>1 DEF WaitingJobs
  <1>3. PICK F, G, V, W : F = FitJobs /\ G = FitJobs' /\ V = WaitingJobs /\ W = WaitingJobs'
    OBVIOUS
  <1>4. F \subseteq G /\ V \subseteq W
    BY <1>1, <1>2, <1>3
  <1>5. Seq(F) \subseteq Seq(G) /\ Seq(V) \subseteq Seq(W)
    BY <1>4
  <1> QED
    BY <1>1, <1>2, <1>3, <1>5

LEMMA InstanceStays ==
    ASSUME instances \in Instances, latestTime \in Nat, latestTime' \in Nat,
           latestTime <= latestTime', instances' = instances, HasInstance
    PROVE  HasInstance'
  <1>1. PICK i \in 1..Len(instances) : instances[i].time <= latestTime
    BY DEF HasInstance
  <1>2. instances[i].time \in Nat
    <2>1. PICK R : R = [time : 0..MaxTime, sample : HumanSamples \cup {NoSample}]
      OBVIOUS
    <2>2. instances[i] \in R
      BY <2>1, ElementOfSeq DEF Instances
    <2> QED
      BY <2>1, <2>2, TimesAssumption
  <1>3. instances[i].time <= latestTime'
    BY <1>1, <1>2
  <1> QED
    BY <1>3 DEF HasInstance

LEMMA Removed ==
    ASSUME NEW S, NEW q \in Seq(S), NEW k \in 1..Len(q)
    PROVE  /\ RemoveAt(q, k) \in Seq(S) /\ Len(RemoveAt(q, k)) = Len(q) - 1
           /\ Len(q) - 1 \in Nat
           /\ \A i \in 1..(Len(q) - 1) : RemoveAt(q, k)[i] = IF i < k THEN q[i] ELSE q[i + 1]
  <1>1. PICK n \in Nat : n = Len(q)
    OBVIOUS
  <1>2. /\ k \in Nat /\ k <= n /\ k - 1 \in Nat /\ 1 \in 1..(k - 1 + 1) /\ k - 1 <= n
        /\ k + 1 \in 1..(n + 1) /\ k - 1 - 1 + 1 = k - 1 /\ n - (k + 1) + 1 = n - k /\ n - k \in Nat
    BY <1>1
  <1>3. PICK a, b, m : a = SubSeq(q, 1, m) /\ b = SubSeq(q, k + 1, n) /\ m = k - 1
    <2>1. PICK m : m = k - 1
      OBVIOUS
    <2> QED
      BY <2>1
  <1>4. a \in Seq(S) /\ Len(a) = m /\ \A i \in 1..m : a[i] = q[i]
    <2>1. m \in Nat /\ 1 \in 1..(m + 1) /\ m <= Len(q) /\ m - 1 + 1 = m /\ \A i \in 1..m : i + (1 - 1) = i
      BY <1>1, <1>2, <1>3
    <2>2. a \in Seq(S) /\ Len(a) = m - 1 + 1 /\ \A i \in 1..(m - 1 + 1) : a[i] = q[i + (1 - 1)]
      BY <2>1, <1>3, PartOf
    <2> QED
      BY <2>1, <2>2
  <1>5. b \in Seq(S) /\ Len(b) = n - k /\ \A i \in 1..(n - k) : b[i] = q[i + k]
    <2>1. PICK f : f = k + 1
      OBVIOUS
    <2>2. /\ f \in 1..(n + 1) /\ n - f + 1 = n - k /\ \A i \in 1..(n - k) : i + (f - 1) = i + k
      BY <2>1, <1>2
    <2>3. b \in Seq(S) /\ Len(b) = n - f + 1 /\ \A i \in 1..(n - f + 1) : b[i] = q[i + (f - 1)]
      <3>1. b = SubSeq(q, f, n) /\ n <= Len(q)
        BY <2>1, <1>1, <1>3
      <3> QED
        BY <3>1, <2>2, PartOf
    <2> QED
      BY <2>2, <2>3
  <1>6. PICK c : c = a \o b
    OBVIOUS
  <1>7. RemoveAt(q, k) = c
    BY <1>1, <1>3, <1>6 DEF RemoveAt
  <1>8. /\ c \in Seq(S) /\ Len(c) = m + (n - k)
        /\ \A i \in 1..(m + (n - k)) : c[i] = IF i <= m THEN a[i] ELSE b[i - m]
    <2>1. /\ c \in Seq(S) /\ Len(c) = Len(a) + Len(b)
          /\ \A i \in 1..(Len(a) + Len(b)) : c[i] = IF i <= Len(a) THEN a[i] ELSE b[i - Len(a)]
      BY <1>4, <1>5, <1>6, ConcatProperties
    <2>2. PICK l : l = n - k
      OBVIOUS
    <2>3. Len(a) = m /\ Len(b) = l
      BY <2>2, <1>4, <1>5
    <2>4. /\ c \in Seq(S) /\ Len(c) = m + l
          /\ \A i \in 1..(m + l) : c[i] = IF i <= m THEN a[i] ELSE b[i - m]
      BY <2>1, <2>3
    <2> QED
      BY <2>2, <2>4
  <1>9. /\ m + (n - k) = n - 1 /\ n - 1 \in Nat /\ m = k - 1 /\ k \in Nat
    BY <1>1, <1>2, <1>3
  <1>10. ASSUME NEW i \in 1..(n - 1)
         PROVE  c[i] = IF i < k THEN q[i] ELSE q[i + 1]
    <2>1. CASE i < k
      <3>1. i <= m /\ i \in 1..m /\ i \in 1..(m + (n - k))
        BY <2>1, <1>9
      <3> QED
        BY <3>1, <2>1, <1>4, <1>8
    <2>2. CASE ~(i < k)
      <3>1. ~(i <= m) /\ i - m \in 1..(n - k) /\ i \in 1..(m + (n - k)) /\ i - m + k = i + 1
        BY <2>2, <1>2, <1>9
      <3>2. c[i] = b[i - m]
        BY <3>1, <1>8
      <3>3. b[i - m] = q[i + 1]
        <4>1. PICK l : l = i - m
          OBVIOUS
        <4>2. b[l] = q[l + k] /\ l + k = i + 1
          BY <4>1, <3>1, <1>5
        <4> QED
          BY <4>1, <4>2
      <3> QED
        BY <3>2, <3>3, <2>2
    <2> QED
      BY <2>1, <2>2
  <1> QED
    BY <1>1, <1>7, <1>8, <1>9, <1>10

\* Whether an assertion fails when a job is processed.
Breaks(j) ==
    \/ ~CanSearch(j)
    \/ ~Search(j).ok
    \/ IF Search(j).hit >= 0 THEN ~HasIndex(Head(j.trace), j.initial, j.snapshot)
       ELSE ~CanGoOn(j)

\* What processing the k-th of the waiting jobs makes of the queues: it sleeps with
\* what its search has found, or the jobs that go on from it wait in its place.
Sleeps(k, c) ==
    /\ c \in FitJobs /\ c.path = waiting[k].path /\ c.initial = waiting[k].initial
    /\ c.trace = waiting[k].trace /\ c.snapshot = waiting[k].snapshot
    /\ waiting' = RemoveAt(waiting, k) /\ sleeping' = Append(sleeping, c)
GoesOn(k, next) ==
    /\ next \in Seq(WaitingJobs) /\ Diverging(next)
    /\ next # <<>> => CanGoOn(waiting[k]) /\ ~HasLooped(waiting[k].trace)
    /\ \A n \in 1..Len(next) :
          /\ next[n].initial = waiting[k].initial /\ next[n].snapshot = waiting[k].snapshot
          /\ \E m \in NextModes(FullTrace(waiting[k])) :
                next[n].trace = Append(waiting[k].trace, m)
          /\ \/ Len(next) = 1 /\ next[n].path = waiting[k].path
             \/ /\ ~HasRegistered(next[n])
                /\ \E a, p \in Nat : next[n].path = Add(waiting[k].path, a, p)
    /\ waiting' = RemoveAt(waiting, k) \o next /\ sleeping' = sleeping

LEMMA ProcessCases ==
    ASSUME JobsInv, Process
    PROVE  /\ ~failure /\ failure' \in BOOLEAN
           /\ UNCHANGED <<presences, states, latestMode, latestTime, buffer, traces,
                          factory, instances, pending, registered, handling>>
           /\ failure' => \E k \in 1..Len(waiting) : Breaks(waiting[k])
           /\ \/ waiting' = waiting /\ sleeping' = sleeping
              \/ \E k \in 1..Len(waiting) : \E c : Sleeps(k, c)
              \/ \E k \in 1..Len(waiting) : \E next : GoesOn(k, next)
  <1> USE DEF JobsInv
  <1> DEFINE searched(j) == [j EXCEPT !.sections = Search(j).sections]
             places(q) == {i \in 1..Len(q) : Len(q) = 1 \/ ~HasRegistered(q[i])}
  <1>1. PICK k \in 1..Len(waiting) :
            /\ ~failure
            /\ IF Breaks(waiting[k])
               THEN failure' = TRUE /\ UNCHANGED <<waiting, sleeping>>
               ELSE /\ failure' = FALSE
                    /\ IF Search(waiting[k]).hit >= 0 \/ NextJobs(searched(waiting[k])) = <<>>
                       THEN /\ waiting' = RemoveAt(waiting, k)
                            /\ sleeping' = Append(sleeping, searched(waiting[k]))
                       ELSE /\ waiting' = RemoveAt(waiting, k) \o
                                   EntriesAt(NextJobs(searched(waiting[k])),
                                             places(NextJobs(searched(waiting[k]))))
                            /\ UNCHANGED sleeping
            /\ UNCHANGED <<presences, states, latestMode, latestTime, buffer, traces,
                           factory, instances, pending, registered, handling>>
    BY DEF Process, Breaks
  <1>2. PICK j : j = waiting[k]
    OBVIOUS
  <1>3. j \in WaitingJobs /\ j \in FitJobs /\ j.human \in HumanSamples
    BY <1>2 DEF WaitingJobs
  <1>4. CASE Breaks(j)
    BY <1>1, <1>2, <1>4
  <1>5. CASE ~Breaks(j)
    <2>1. CanSearch(j) /\ (Search(j).hit >= 0 \/ CanGoOn(j))
      BY <1>5 DEF Breaks
    <2>2. PICK c : c = searched(j)
      OBVIOUS
    <2>3. /\ c \in FitJobs /\ c.human = j.human /\ c.trace = j.trace /\ c.initial = j.initial
          /\ c.path = j.path /\ c.snapshot = j.snapshot
      BY <1>1, <1>3, <2>1, <2>2, SearchKeeps
    <2> HIDE DEF searched
    <2>4. CASE Search(j).hit >= 0 \/ NextJobs(c) = <<>>
      <3>1. waiting' = RemoveAt(waiting, k) /\ sleeping' = Append(sleeping, c) /\ failure' = FALSE
        BY <1>1, <1>2, <1>5, <2>2, <2>4
      <3>2. Sleeps(k, c)
        BY <3>1, <2>3, <1>2 DEF Sleeps
      <3> QED
        BY <3>1, <3>2, <1>1
    <2>5. CASE ~(Search(j).hit >= 0 \/ NextJobs(c) = <<>>)
      <3>1. PICK q : q = NextJobs(c)
        OBVIOUS
      <3>2. CanGoOn(c) /\ CanGoOn(j) /\ FullTrace(c) = FullTrace(j) /\ ~HasLooped(j.trace)
        BY <2>1, <2>3, <2>5 DEF CanGoOn, FullTrace, NextJobs
      <3>3. /\ q \in Seq(FitJobs)
            /\ \A n \in 1..Len(q) :
                  /\ q[n].human = c.human /\ q[n].initial = c.initial
                  /\ q[n].snapshot = c.snapshot
                  /\ \E m \in NextModes(FullTrace(c)) : q[n].trace = Append(c.trace, m)
                  /\ q[n].path = IF Len(q) = 1 THEN c.path ELSE Add(c.path, n - 1, Len(c.trace))
        BY <2>3, <3>1, <3>2, NextJobsFit DEF HistoryInv
      <3>4. /\ c.path \in Seq(Node) /\ Len(c.trace) \in Nat /\ Len(q) \in Nat
        BY <2>3, <3>3, JobFields DEF FitJobs
      <3>5. Diverging(q)
        BY <3>3, <3>4, BranchesDiverge
      <3>6. PICK chosen : chosen = places(q)
        OBVIOUS
      <3>7. PICK next : next = EntriesAt(q, chosen)
        OBVIOUS
      <3>8. chosen \subseteq 1..Len(q) /\ \A i \in chosen : Len(q) = 1 \/ ~HasRegistered(q[i])
        BY <3>6
      <3>9. PICK at : at = InPlace(chosen)
        OBVIOUS
      <3>10. /\ Len(next) \in Nat /\ Len(next) <= Len(q) /\ at \in [1..Len(next) -> chosen]
             /\ next \in Seq(FitJobs)
             /\ \A i \in 1..Len(next) : next[i] = q[at[i]]
             /\ \A i, l \in 1..Len(next) : i < l => at[i] < at[l]
        <4>1. PICK m : m = Cardinality(chosen)
          OBVIOUS
        <4>2. chosen \subseteq 1..Len(q) /\ q \in Seq(FitJobs)
          BY <3>3, <3>8
        <4>3. /\ m \in Nat /\ m <= Len(q) /\ at \in [1..m -> chosen]
              /\ next \in Seq(FitJobs) /\ Len(next) = m
              /\ \A i \in 1..m : next[i] = q[at[i]]
              /\ \A i, l \in 1..m : i < l => at[i] < at[l]
          <5>1. LET n == Cardinality(chosen)
                    inPlace == InPlace(chosen)
                IN  /\ n \in Nat /\ n <= Len(q) /\ inPlace \in [1..n -> chosen]
                    /\ EntriesAt(q, chosen) \in Seq(FitJobs) /\ Len(EntriesAt(q, chosen)) = n
                    /\ \A i \in 1..n : EntriesAt(q, chosen)[i] = q[inPlace[i]]
                    /\ \A i, l \in 1..n : i < l => inPlace[i] < inPlace[l]
            <6>1. PICK F : F = FitJobs
              OBVIOUS
            <6>2. q \in Seq(F) /\ chosen \subseteq 1..Len(q)
              BY <4>2, <6>1
            <6>3. /\ Cardinality(chosen) \in Nat /\ Cardinality(chosen) <= Len(q)
                  /\ InPlace(chosen) \in [1..Cardinality(chosen) -> chosen]
              BY <6>2, ChosenEntries
            <6>4. EntriesAt(q, chosen) \in Seq(F) /\ Len(EntriesAt(q, chosen)) = Cardinality(chosen)
              BY <6>2, ChosenEntries
            <6>5. \A i \in 1..Cardinality(chosen) : EntriesAt(q, chosen)[i] = q[InPlace(chosen)[i]]
              BY EntriesAre
            <6>6. \A i, l \in 1..Cardinality(chosen) : i < l => InPlace(chosen)[i] < InPlace(chosen)[l]
              BY <6>2, ChosenEntries
            <6> QED
              BY <6>1, <6>3, <6>4, <6>5, <6>6
          <5> QED
            BY <5>1, <4>1, <3>7, <3>9
        <4> QED
          BY <4>3
      <3>11. ASSUME NEW n \in 1..Len(next)
             PROVE  /\ next[n] \in WaitingJobs /\ next[n].initial = j.initial
                    /\ next[n].snapshot = j.snapshot
                    /\ \E m \in NextModes(FullTrace(j)) : next[n].trace = Append(j.trace, m)
                    /\ \/ Len(next) = 1 /\ next[n].path = j.path
                       \/ /\ ~HasRegistered(next[n])
                          /\ \E a, p \in Nat : next[n].path = Add(j.path, a, p)
        <4>1. PICK i \in chosen : i = at[n] /\ i \in 1..Len(q)
          BY <3>8, <3>10
        <4>2. next[n] = q[i] /\ q[i] \in FitJobs
          BY <4>1, <3>3, <3>10
        <4>3. /\ next[n] \in WaitingJobs /\ next[n].initial = j.initial
              /\ next[n].snapshot = j.snapshot
          BY <4>1, <4>2, <3>3, <2>3, <1>3 DEF WaitingJobs
        <4>6. \E m \in NextModes(FullTrace(j)) : next[n].trace = Append(j.trace, m)
          BY <4>1, <4>2, <3>2, <3>3, <2>3
        <4>4. CASE Len(q) = 1
          <5>1. Len(next) = 1
            <6>1. PICK l : l = Len(next)
              OBVIOUS
            <6>2. l \in Nat /\ l <= 1 /\ n \in 1..l
              BY <6>1, <4>4, <3>10
            <6>3. l = 1
              BY <6>2
            <6> QED
              BY <6>1, <6>3
          <5>2. next[n].path = j.path
            BY <4>1, <4>2, <4>4, <3>3, <2>3
          <5> QED
            BY <4>3, <4>6, <5>1, <5>2
        <4>5. CASE Len(q) # 1
          <5>1. ~HasRegistered(next[n])
            BY <4>1, <4>2, <4>5, <3>8
          <5>2. PICK a \in Nat : a = i - 1
            BY <4>1
          <5>3. next[n].path = Add(j.path, a, Len(c.trace))
            BY <4>1, <4>2, <4>5, <5>2, <3>3, <2>3
          <5> QED
            BY <4>3, <4>6, <5>1, <5>3, <3>4
        <4> QED
          BY <4>4, <4>5
      <3>12. Diverging(next)
        <4>1. ASSUME NEW i \in 1..Len(next), NEW l \in 1..Len(next), i # l
              PROVE  Priorities(next[i].path) \notin Prefixes(Priorities(next[l].path))
          <5>1. at[i] \in 1..Len(q) /\ at[l] \in 1..Len(q)
            BY <3>8, <3>10
          <5>2. at[i] # at[l]
            <6>1. i < l \/ l < i
              BY <4>1, <3>10
            <6>2. at[i] < at[l] \/ at[l] < at[i]
              BY <6>1, <3>10
            <6> QED
              BY <6>2, <5>1
          <5>3. Priorities(q[at[i]].path) \notin Prefixes(Priorities(q[at[l]].path))
            BY <5>1, <5>2, <3>5 DEF Diverging
          <5> QED
            BY <5>3, <3>10
        <4> QED
          BY <4>1 DEF Diverging
      <3>13. next \in Seq(WaitingJobs)
        BY <3>10, <3>11
      <3>14. waiting' = RemoveAt(waiting, k) \o next /\ sleeping' = sleeping /\ failure' = FALSE
        BY <1>1, <1>2, <1>5, <2>2, <2>5, <3>1, <3>6, <3>7
      <3>15. GoesOn(k, next)
        BY <3>2, <3>11, <3>12, <3>13, <3>14, <1>2 DEF GoesOn
      <3> QED
        BY <3>14, <3>15, <1>1
    <2> QED
      BY <2>4, <2>5
  <1> QED
    BY <1>4, <1>5

LEMMA ProcessKeeps == JobsInv /\ Process => JobsInv'
  <1> SUFFICES ASSUME JobsInv, Process PROVE JobsInv'
    OBVIOUS
  <1>1. /\ ~failure /\ failure' \in BOOLEAN
        /\ UNCHANGED <<presences, states, latestMode, latestTime, buffer, traces,
                       factory, instances, pending, registered, handling>>
    BY ProcessCases
  <1>2. HistoryInv'
    BY <1>1, HistoryFails DEF JobsInv
  <1>3. \A i \in 1..Len(waiting) : waiting # <<>>
    BY EmptySeq DEF JobsInv
  <1>4. FitJobs' = FitJobs /\ WaitingJobs' = WaitingJobs /\ HasInstance' = HasInstance
    BY <1>1 DEF FitJobs, WaitingJobs, HasInstance
  <1>5. waiting' \in Seq(WaitingJobs) /\ sleeping' \in Seq(FitJobs) /\ (waiting' # <<>> \/ sleeping' # <<>> => HasInstance)
    <2>1. CASE waiting' = waiting /\ sleeping' = sleeping
      BY <2>1 DEF JobsInv
    <2>2. ASSUME NEW k \in 1..Len(waiting), NEW c, Sleeps(k, c)
          PROVE  /\ waiting' \in Seq(WaitingJobs) /\ sleeping' \in Seq(FitJobs)
                 /\ HasInstance
      <3>1. waiting' \in Seq(WaitingJobs)
        BY <2>2, Removed DEF JobsInv, Sleeps
      <3>2. sleeping' \in Seq(FitJobs)
        BY <2>2 DEF JobsInv, Sleeps
      <3> QED
        BY <3>1, <3>2, <1>3 DEF JobsInv
    <2>3. ASSUME NEW k \in 1..Len(waiting), NEW next, GoesOn(k, next)
          PROVE  /\ waiting' \in Seq(WaitingJobs) /\ sleeping' \in Seq(FitJobs)
                 /\ HasInstance
      <3>1. RemoveAt(waiting, k) \in Seq(WaitingJobs)
        BY Removed DEF JobsInv
      <3>2. waiting' \in Seq(WaitingJobs)
        BY <2>3, <3>1, ConcatProperties DEF GoesOn
      <3>3. sleeping' \in Seq(FitJobs)
        BY <2>3 DEF JobsInv, GoesOn
      <3> QED
        BY <3>2, <3>3, <1>3 DEF JobsInv
    <2> QED
      BY <2>1, <2>2, <2>3, ProcessCases
  <1> QED
    BY <1>1, <1>2, <1>4, <1>5 DEF JobsInv

LEMMA AwokenNone ==
    ASSUME sleeping = <<>>
    PROVE  Awoken = [kept |-> <<>>, moved |-> <<>>, registered |-> registered, failed |-> FALSE]
  <1> DEFINE start == [kept |-> <<>>, moved |-> <<>>, registered |-> registered, failed |-> FALSE]
             S == [n \in 0..0 |-> {start}]
  <1>1. Len(sleeping) = 0
    BY EmptySeq
  <1>2. start \in S[0] /\ S[0] = {start}
    OBVIOUS
  <1> HIDE DEF S
  <1>3. \A n \in 1..0 : \A acc \in S[n - 1] : Awaken(acc, sleeping[n]) \in S[n]
    OBVIOUS
  <1>4. Awoken \in S[Len(sleeping)]
    BY <1>1, <1>2, <1>3, AwokenKeeps
  <1> QED
    BY <1>1, <1>2, <1>4

LEMMA RegisterFew ==
    ASSUME NEW registers
    PROVE  /\ Register(registers, <<>>) = registers
           /\ \A c : Register(registers, <<c>>) = registers \cup {<<c.initial, Priorities(c.path)>>}
  <1>1. ToSet(<<>>) = {}
    <2>1. DOMAIN <<>> = 1..0
      BY EmptySeq, LenProperties
    <2>2. \A i \in 1..0 : FALSE
      OBVIOUS
    <2> QED
      BY <2>1, <2>2 DEF ToSet
  <1>2. ASSUME NEW c
        PROVE  ToSet(<<c>>) = {c}
    <2>1. DOMAIN <<c>> = 1..1 /\ <<c>>[1] = c
      OBVIOUS
    <2>2. \A i \in 1..1 : i = 1
      OBVIOUS
    <2> QED
      BY <2>1, <2>2 DEF ToSet
  <1> QED
    BY <1>1, <1>2 DEF Register

\* What handling a message makes of the queues: the jobs awakened are moved to those
\* that wait, and a first job is created if the pair is promoted.
Handled(woken) ==
    /\ pending' = pending /\ sleeping' = woken.kept /\ waiting' = waiting \o woken.moved
    /\ registered' = IF Reuse THEN woken.registered ELSE registered
PromotedWith(woken, c) ==
    /\ pending /\ ~pending' /\ HasInstance
    /\ c = NewJob(Latest.time, Latest.sample) /\ CanLookAhead(Latest.time, Latest.time)
    /\ c \in FitJobs /\ c.initial = Latest.time /\ c.path = <<>>
    /\ registered' = IF Reuse THEN woken.registered \cup {<<c.initial, Priorities(c.path)>>}
                     ELSE registered
    /\ \/ /\ c \in WaitingJobs
          /\ sleeping' = woken.kept /\ waiting' = waiting \o woken.moved \o <<c>>
       \/ sleeping' = woken.kept \o <<c>> /\ waiting' = waiting \o woken.moved

LEMMA HandleCases ==
    ASSUME JobsInv, Handle
    PROVE  /\ ~failure /\ failure' \in BOOLEAN /\ failure' = Awoken.failed
           /\ ~handling' /\ handling' \in BOOLEAN
           /\ UNCHANGED <<presences, states, latestMode, latestTime, buffer, traces,
                          factory, instances>>
           /\ Awoken \in Wakings(Latest.time)
           /\ Handled(Awoken) \/ \E c : PromotedWith(Awoken, c)
  <1>1. PICK woken : woken = Awoken
    OBVIOUS
  <1>2. woken \in Wakings(Latest.time)
    BY <1>1, AwokenFits DEF JobsInv, HistoryInv, Instances
  <1>3. PICK promoted \in BOOLEAN :
              promoted <=> pending /\ HasInstance /\ CanLookAhead(Latest.time, Latest.time)
    OBVIOUS
  <1>4. PICK c : c = NewJob(Latest.time, Latest.sample)
    OBVIOUS
  <1>5. PICK new : new = IF promoted THEN <<c>> ELSE <<>>
    OBVIOUS
  <1>6. PICK empty \in BOOLEAN : empty <=> promoted /\ Latest.sample = NoSample
    OBVIOUS
  <1>7. /\ ~failure /\ handling' = FALSE
        /\ failure' = woken.failed
        /\ sleeping' = woken.kept \o (IF empty THEN new ELSE <<>>)
        /\ waiting' = waiting \o woken.moved \o (IF empty THEN <<>> ELSE new)
        /\ registered' = (IF Reuse THEN Register(woken.registered, new) ELSE registered)
        /\ pending' = (pending /\ ~promoted)
        /\ UNCHANGED <<presences, states, latestMode, latestTime, buffer, traces,
                       factory, instances>>
    BY <1>1, <1>3, <1>4, <1>5, <1>6 DEF Handle
  <1>8. /\ woken.failed \in BOOLEAN /\ woken.kept \in Seq(FitJobs)
        /\ woken.moved \in Seq(WaitingAt(Latest.time))
    BY <1>2 DEF Wakings
  <1>9. woken.kept \o <<>> = woken.kept
    BY <1>8, ConcatEmptySeq
  <1>10. waiting \o woken.moved \o <<>> = waiting \o woken.moved
    <2>1. WaitingAt(Latest.time) \subseteq WaitingJobs
      BY DEF WaitingAt
    <2>2. woken.moved \in Seq(WaitingJobs)
      BY <1>8, <2>1
    <2>3. waiting \o woken.moved \in Seq(WaitingJobs)
      BY <2>2, ConcatProperties DEF JobsInv
    <2> QED
      BY <2>3, ConcatEmptySeq
  <1>11. CASE ~promoted
    <2>1. new = <<>> /\ ~empty
      BY <1>5, <1>6, <1>11
    <2>2. Register(woken.registered, new) = woken.registered
      BY <2>1, RegisterFew
    <2>3. sleeping' = woken.kept /\ waiting' = waiting \o woken.moved
      BY <2>1, <1>7, <1>9, <1>10
    <2>4. pending' = pending /\ registered' = (IF Reuse THEN woken.registered ELSE registered)
      BY <2>2, <1>7, <1>11 DEF JobsInv
    <2>5. Handled(woken)
      BY <2>3, <2>4 DEF Handled
    <2> QED
      BY <2>5, <1>1, <1>2, <1>7, <1>8
  <1>12. CASE promoted
    <2>1. /\ new = <<c>> /\ (empty <=> Latest.sample = NoSample) /\ HasInstance /\ pending
          /\ CanLookAhead(Latest.time, Latest.time)
      BY <1>3, <1>5, <1>6, <1>12
    <2>2. /\ Latest.time \in 0..MaxTime /\ Latest.time <= latestTime
          /\ Latest.sample \in HumanSamples \cup {NoSample}
      BY <2>1, LatestIs DEF JobsInv, Instances
    <2>3. c \in FitJobs /\ c.human = Latest.sample /\ c.initial = Latest.time /\ c.path = <<>>
      <3>1. ModeAt(Latest.time) # NoMode
        BY <1>3, <1>12 DEF CanLookAhead
      <3> QED
        BY <3>1, <2>2, <1>4, NewJobFits DEF JobsInv, HistoryInv
    <2>4. Register(woken.registered, new) = woken.registered \cup {<<c.initial, Priorities(c.path)>>}
      BY <2>1, RegisterFew
    <2>5. /\ ~pending'
          /\ registered' = (IF Reuse THEN woken.registered \cup {<<c.initial, Priorities(c.path)>>}
                            ELSE registered)
      BY <2>4, <1>7, <1>12
    <2>6. CASE empty
      <3>1. sleeping' = woken.kept \o <<c>> /\ waiting' = waiting \o woken.moved
        BY <2>1, <2>6, <1>7, <1>10
      <3>2. PromotedWith(woken, c)
        BY <3>1, <2>1, <2>3, <2>5, <1>4 DEF PromotedWith
      <3> QED
        BY <3>2, <1>1, <1>2, <1>7, <1>8
    <2>7. CASE ~empty
      <3>1. sleeping' = woken.kept /\ waiting' = waiting \o woken.moved \o <<c>>
        BY <2>1, <2>7, <1>7, <1>9
      <3>2. c \in WaitingJobs
        BY <2>1, <2>2, <2>3, <2>7 DEF WaitingJobs
      <3>3. PromotedWith(woken, c)
        BY <3>1, <3>2, <2>1, <2>3, <2>5, <1>4 DEF PromotedWith
      <3> QED
        BY <3>3, <1>1, <1>2, <1>7, <1>8
    <2> QED
      BY <2>6, <2>7
  <1> QED
    BY <1>11, <1>12

LEMMA HandleKeeps == JobsInv /\ Handle => JobsInv'
  <1> SUFFICES ASSUME JobsInv, Handle PROVE JobsInv'
    OBVIOUS
  <1>1. PICK woken : woken = Awoken
    OBVIOUS
  <1>2. /\ ~failure /\ failure' \in BOOLEAN /\ handling' \in BOOLEAN
        /\ UNCHANGED <<presences, states, latestMode, latestTime, buffer, traces,
                       factory, instances>>
        /\ woken \in Wakings(Latest.time)
        /\ Handled(woken) \/ \E c : PromotedWith(woken, c)
    BY <1>1, HandleCases
  <1>3. HistoryInv'
    BY <1>2, HistoryFails DEF JobsInv
  <1>4. FitJobs' = FitJobs /\ WaitingJobs' = WaitingJobs /\ HasInstance' = HasInstance
    BY <1>2 DEF FitJobs, WaitingJobs, HasInstance
  <1>5. /\ woken.kept \in Seq(FitJobs) /\ woken.moved \in Seq(WaitingJobs)
        /\ woken.registered \in SUBSET Registrations
    <2>1. WaitingAt(Latest.time) \subseteq WaitingJobs
      BY DEF WaitingAt
    <2> QED
      BY <1>2, <2>1 DEF Wakings
  <1>6. waiting \o woken.moved \in Seq(WaitingJobs)
    BY <1>5, ConcatProperties DEF JobsInv
  <1>7. CASE Handled(woken)
    <2>1. /\ waiting' \in Seq(WaitingJobs) /\ sleeping' \in Seq(FitJobs) /\ pending' \in BOOLEAN
          /\ registered' \in SUBSET Registrations
      BY <1>5, <1>6, <1>7 DEF Handled, JobsInv
    <2>2. waiting' # <<>> \/ sleeping' # <<>> => HasInstance
      <3>1. CASE HasInstance
        BY <3>1
      <3>2. CASE ~HasInstance
        <4>1. waiting = <<>> /\ sleeping = <<>>
          BY <3>2 DEF JobsInv
        <4>2. woken.kept = <<>> /\ woken.moved = <<>>
          BY <4>1, <1>1, AwokenNone
        <4>3. waiting \o woken.moved = waiting
          BY <4>2, ConcatEmptySeq DEF JobsInv
        <4> QED
          BY <4>1, <4>2, <4>3, <1>7 DEF Handled
      <3> QED
        BY <3>1, <3>2
    <2> QED
      BY <2>1, <2>2, <1>2, <1>3, <1>4 DEF JobsInv
  <1>8. ASSUME NEW c, PromotedWith(woken, c)
        PROVE  JobsInv'
    <2>1. c \in FitJobs /\ HasInstance /\ pending' = FALSE
      <3>1. c \in FitJobs /\ HasInstance /\ ~pending'
        BY <1>8 DEF PromotedWith
      <3>2. pending' \in BOOLEAN
        BY DEF Handle
      <3> QED
        BY <3>1, <3>2
    <2>2. PICK one : one = <<c>>
      OBVIOUS
    <2>3. one \in Seq(FitJobs) /\ (c \in WaitingJobs => one \in Seq(WaitingJobs))
      BY <2>1, <2>2
    <2>4. waiting' \in Seq(WaitingJobs) /\ sleeping' \in Seq(FitJobs)
      <3>1. CASE c \in WaitingJobs /\ sleeping' = woken.kept /\ waiting' = waiting \o woken.moved \o one
        BY <3>1, <2>3, <1>5, <1>6, ConcatProperties
      <3>2. CASE sleeping' = woken.kept \o one /\ waiting' = waiting \o woken.moved
        BY <3>2, <2>3, <1>5, <1>6, ConcatProperties
      <3> QED
        BY <3>1, <3>2, <2>2, <1>8 DEF PromotedWith
    <2>5. registered' \in SUBSET Registrations
      <3>1. c.initial \in 0..MaxTime /\ Priorities(c.path) \in Seq(Nat)
        BY <2>1, JobFields, PrioritiesAre DEF FitJobs
      <3>2. <<c.initial, Priorities(c.path)>> \in Registrations
        BY <3>1 DEF Registrations
      <3> QED
        BY <3>2, <1>5, <1>8 DEF PromotedWith, JobsInv
    <2> QED
      BY <2>1, <2>4, <2>5, <1>2, <1>3, <1>4 DEF JobsInv
  <1> QED
    BY <1>2, <1>7, <1>8

LEMMA JobsInitial == Init => JobsInv
  <1> SUFFICES ASSUME Init PROVE JobsInv
    OBVIOUS
  <1>1. HistoryInv
    BY HistoryInitial DEF Init
  <1>2. instances \in Instances /\ waiting \in Seq(WaitingJobs) /\ sleeping \in Seq(FitJobs)
    BY EmptySeq DEF Init, Instances
  <1> QED
    BY <1>1, <1>2 DEF Init, JobsInv

LEMMA RobotStateKeeps == JobsInv /\ RobotState => JobsInv'
  <1> SUFFICES ASSUME JobsInv, RobotState PROVE JobsInv'
    OBVIOUS
  <1>1. HistoryTypeOK /\ HistoryNext /\ HistoryInv' /\ handling' \in BOOLEAN
    BY HistoryStep DEF JobsInv, HistoryInv, RobotState
  <1>2. /\ instances' = instances /\ factory' = factory /\ pending' = pending
        /\ waiting' = waiting /\ sleeping' = sleeping /\ registered' = registered
    BY DEF RobotState, jobVars
  <1>3. latestTime \in Nat /\ latestTime' \in Nat /\ latestTime <= latestTime'
    BY <1>1, TimesGrow, Times
  <1>4. /\ waiting \in Seq(WaitingJobs)' /\ sleeping \in Seq(FitJobs)'
    BY <1>3, FitLater DEF JobsInv
  <1>5. HasInstance => HasInstance'
    BY <1>2, <1>3, InstanceStays DEF JobsInv
  <1> QED
    BY <1>1, <1>2, <1>4, <1>5 DEF JobsInv

LEMMA HumanStateKeeps == JobsInv /\ HumanState => JobsInv'
  <1> SUFFICES ASSUME JobsInv, HumanState PROVE JobsInv'
    OBVIOUS
  <1>1. PICK t \in FirstHuman..latestTime, h \in HumanSamples \cup {NoSample} :
              /\ instances' = Append(instances, [time |-> t, sample |-> h])
              /\ handling' = TRUE /\ UNCHANGED <<history, factory, jobVars>>
    BY DEF HumanState
  <1>2. /\ presences' = presences /\ states' = states /\ latestMode' = latestMode
        /\ latestTime' = latestTime /\ buffer' = buffer /\ traces' = traces /\ failure' = failure
        /\ factory' = factory /\ pending' = pending /\ waiting' = waiting
        /\ sleeping' = sleeping /\ registered' = registered /\ UNCHANGED history
    BY <1>1 DEF history, jobVars
  <1>3. HistoryInv'
    BY <1>2, HistoryStutter DEF JobsInv
  <1>4. FitJobs' = FitJobs /\ WaitingJobs' = WaitingJobs
    BY <1>2 DEF FitJobs, WaitingJobs
  <1>5. t \in 0..MaxTime
    <2>1. latestTime \in 0..MaxTime /\ MaxTime \in Nat /\ FirstHuman \in Nat
      BY TimesAssumption, LookAheadAssumption DEF JobsInv, HistoryInv, HistoryTypeOK
    <2> QED
      BY <2>1
  <1>6. PICK R : R = [time : 0..MaxTime, sample : HumanSamples \cup {NoSample}]
    OBVIOUS
  <1>7. PICK e : e = [time |-> t, sample |-> h]
    OBVIOUS
  <1>8. e \in R /\ instances \in Seq(R)
    BY <1>5, <1>6, <1>7 DEF JobsInv, Instances
  <1>9. /\ instances' \in Seq(R) /\ Len(instances') = Len(instances) + 1 /\ Len(instances) \in Nat
        /\ \A i \in 1..Len(instances) : instances'[i] = instances[i]
    BY <1>1, <1>7, <1>8
  <1>10. ASSUME HasInstance PROVE HasInstance'
    <2>1. PICK i \in 1..Len(instances) : instances[i].time <= latestTime
      BY <1>10 DEF HasInstance
    <2>2. i \in 1..Len(instances') /\ instances'[i].time <= latestTime'
      BY <2>1, <1>2, <1>9
    <2> QED
      BY <2>2 DEF HasInstance
  <1> QED
    BY <1>1, <1>2, <1>3, <1>4, <1>6, <1>9, <1>10 DEF JobsInv, Instances

LEMMA JobsStutter == JobsInv /\ UNCHANGED vars => JobsInv'
  <1> SUFFICES ASSUME JobsInv, UNCHANGED vars PROVE JobsInv'
    OBVIOUS
  <1>1. /\ latestTime' = latestTime /\ instances' = instances /\ factory' = factory
        /\ pending' = pending /\ waiting' = waiting /\ sleeping' = sleeping
        /\ registered' = registered /\ handling' = handling /\ UNCHANGED history
    BY DEF vars, history, jobVars
  <1>2. HistoryInv'
    BY <1>1, HistoryStutter DEF JobsInv
  <1>3. FitJobs' = FitJobs /\ WaitingJobs' = WaitingJobs /\ HasInstance' = HasInstance
    BY <1>1 DEF FitJobs, WaitingJobs, HasInstance
  <1> QED
    BY <1>1, <1>2, <1>3 DEF JobsInv

\* The inductive invariant of the jobs of a pair holds for any geometry, factory,
\* history and human states: through searches, branches and awakenings, in any order,
\* barriers and paths stay within the trace of their job and in order
\* (lookahead_job.cpp:105-218, lookahead_job_factory.cpp:35-185, barrier.cpp:180-371).
THEOREM JobsInvariance == Spec => []JobsInv
  <1>1. JobsInv /\ [Next]_vars => JobsInv'
    BY RobotStateKeeps, HumanStateKeeps, HandleKeeps, ProcessKeeps, JobsStutter DEF Next
  <1> QED
    BY JobsInitial, <1>1, PTL DEF Spec

\* Each job of the queues is one of those.
LEMMA QueuedJobs ==
    ASSUME JobsInv, NEW j \in ToSet(waiting \o sleeping)
    PROVE  j \in FitJobs
  <1>1. WaitingJobs \subseteq FitJobs
    BY DEF WaitingJobs
  <1>2. waiting \in Seq(FitJobs) /\ sleeping \in Seq(FitJobs)
    BY <1>1 DEF JobsInv
  <1>3. PICK q : q = waiting \o sleeping
    OBVIOUS
  <1>4. q \in Seq(FitJobs)
    BY <1>2, <1>3, ConcatProperties
  <1>5. PICK i \in DOMAIN q : j = q[i]
    BY <1>3 DEF ToSet
  <1> QED
    BY <1>4, <1>5

\* The variables keep their types, and every job has a trace and begins in the past,
\* whatever has been reused (lookahead_job.hpp:185-197).
THEOREM LookAheadTypeCorrect == Spec => []TypeOK
  <1>1. JobsInv => TypeOK
    <2> SUFFICES ASSUME JobsInv PROVE TypeOK
      OBVIOUS
    <2>1. \A j \in ToSet(waiting \o sleeping) : j.trace # <<>> /\ j.initial <= latestTime
      BY QueuedJobs DEF FitJobs
    <2>2. waiting \in Seq(Job) /\ sleeping \in Seq(Job)
      <3>1. FitJobs \subseteq Job /\ WaitingJobs \subseteq Job
        BY DEF FitJobs, WaitingJobs
      <3> QED
        BY <3>1 DEF JobsInv
    <2>3. registered \subseteq (0..MaxTime) \X Seq(Nat)
      BY DEF JobsInv, Registrations
    <2> QED
      BY <2>1, <2>2, <2>3 DEF JobsInv, TypeOK, HistoryInv, Instances
  <1> QED
    BY <1>1, JobsInvariance, PTL

LEMMA FitAreOrdered ==
    ASSUME NEW j \in FitJobs
    PROVE  /\ \A section \in ToSet(j.sections) :
                 section.barriers # <<>> /\ Nearing(section.barriers) /\ Follows(section.barriers)
           /\ \A k, n \in 1..Len(j.sections) : k < n =>
                 \A b \in ToSet(j.sections[k].barriers), c \in ToSet(j.sections[n].barriers) :
                     EndsBefore(b.range, c.range.initial)
           /\ LastUpperTrace(j.sections) <= Position(j)
  <1> DEFINE q == j.sections
  <1>1. q \in Seq(Section) /\ Chained(q) /\ Within(q, Position(j)) /\ Position(j) \in Nat
    BY JobFields DEF FitJobs
  <1> HIDE DEF q
  <1>2. /\ Len(q) \in Nat /\ DOMAIN q = 1..Len(q)
        /\ \A k \in 1..Len(q) :
              /\ q[k].barriers \in Seq(Barrier) /\ DOMAIN q[k].barriers = 1..Len(q[k].barriers)
              /\ Ordered(q[k].barriers)
    BY <1>1, SectionsAre DEF Chained
  <1>3. ASSUME NEW k \in 1..Len(q)
        PROVE  LET barriers == q[k].barriers
               IN  barriers # <<>> /\ Nearing(barriers) /\ Follows(barriers)
    <2>1. PICK b : b = q[k].barriers
      OBVIOUS
    <2>2. b \in Seq(Barrier) /\ Ordered(b)
      BY <2>1, <1>2
    <2>3. b # <<>> /\ Len(b) \in 1..Len(b)
      <3>1. b # <<>>
        BY <2>2 DEF Ordered
      <3> QED
        BY <3>1, <2>2
    <2>4. Last(b).range.bounds # <<>>
      BY <2>2, <2>3 DEF Ordered, RangeFits, Last
    <2>5. Follows(b) /\ Nearing(b)
      BY <2>2, <2>4 DEF Ordered, Follows
    <2> QED
      BY <2>1, <2>3, <2>5
  <1>4. \A section \in ToSet(q) :
           section.barriers # <<>> /\ Nearing(section.barriers) /\ Follows(section.barriers)
    BY <1>2, <1>3 DEF ToSet
  <1>5. ASSUME NEW k \in 1..Len(q), NEW n \in 1..Len(q), k < n,
               NEW b \in ToSet(q[k].barriers), NEW c \in ToSet(q[n].barriers)
        PROVE  EndsBefore(b.range, c.range.initial)
    <2>1. PICK i \in 1..Len(q[k].barriers), l \in 1..Len(q[n].barriers) :
              b = q[k].barriers[i] /\ c = q[n].barriers[l]
      BY <1>2 DEF ToSet
    <2> QED
      BY <2>1, <1>1, <1>5 DEF Chained
  <1>6. LastUpperTrace(q) <= Position(j)
    <2>1. CASE q = <<>>
      <3>1. LastUpperTrace(q) = 0
        BY <2>1 DEF LastUpperTrace
      <3> QED
        BY <3>1, <1>1
    <2>2. CASE q # <<>>
      <3>1. /\ LastUpperTrace(q) = MaxTrace(LastBarrier(q).range)
            /\ \E k \in 1..Len(q) : \E i \in 1..Len(q[k].barriers) :
                  LastBarrier(q) = q[k].barriers[i]
        BY <2>2, <1>1, LastBarrierIs
      <3> QED
        BY <3>1, <1>1 DEF Within
    <2> QED
      BY <2>1, <2>2
  <1> QED
    BY <1>4, <1>5, <1>6 DEF q

\* The barriers of every job are in order, within a section and across the sections,
\* and none reaches beyond its trace: what the bisection of _reuse_element, the trimming
\* and the precondition of update rely on (barrier.cpp:134-178, 180-371,
\* trace_sample_range.cpp:49).
THEOREM BarriersOrderedHolds == Spec => []BarriersOrdered
  <1>1. JobsInv => BarriersOrdered
    BY QueuedJobs, FitAreOrdered DEF BarriersOrdered
  <1> QED
    BY <1>1, JobsInvariance, PTL

-----------------------------------------------------------------------------
(* No two of the jobs that wait have the same time and path.                 *)

\* A relation of any two entries of a list.
Pairwise(q, R) == \A i, k \in 1..Len(q) : i # k => <<q[i], q[k]>> \in R

LEMMA PairwiseRemoved ==
    ASSUME NEW S, NEW q \in Seq(S), NEW R, Pairwise(q, R), NEW k \in 1..Len(q)
    PROVE  /\ Pairwise(RemoveAt(q, k), R)
           /\ \A i \in 1..Len(RemoveAt(q, k)) : \E o \in 1..Len(q) :
                 /\ o # k /\ RemoveAt(q, k)[i] = q[o]
                 /\ <<q[o], q[k]>> \in R /\ <<q[k], q[o]>> \in R
  <1>1. PICK u, n : u = RemoveAt(q, k) /\ n = Len(q)
    OBVIOUS
  <1>2. /\ Len(u) = n - 1 /\ n \in Nat /\ k \in 1..n
        /\ \A i \in 1..(n - 1) : u[i] = IF i < k THEN q[i] ELSE q[i + 1]
    <2>1. n \in Nat /\ k \in 1..n
      BY <1>1
    <2>2. /\ Len(RemoveAt(q, k)) = Len(q) - 1
          /\ \A i \in 1..(Len(q) - 1) : RemoveAt(q, k)[i] = IF i < k THEN q[i] ELSE q[i + 1]
      BY Removed
    <2> QED
      BY <2>1, <2>2, <1>1
  <1> DEFINE old(i) == IF i < k THEN i ELSE i + 1
  <1>3. ASSUME NEW i \in 1..(n - 1)
        PROVE  old(i) \in 1..n /\ old(i) # k /\ u[i] = q[old(i)]
    BY <1>2
  <1>4. \A i, l \in 1..(n - 1) : i # l => old(i) # old(l)
    BY <1>2
  <1> HIDE DEF old
  <1>5. Pairwise(u, R)
    <2>1. \A i, l \in 1..(n - 1) : i # l => <<u[i], u[l]>> \in R
      <3> TAKE i, l \in 1..(n - 1)
      <3>1. i # l => <<q[old(i)], q[old(l)]>> \in R
        BY <1>1, <1>3, <1>4 DEF Pairwise
      <3> QED
        BY <3>1, <1>3
    <2> QED
      BY <2>1, <1>2 DEF Pairwise
  <1>6. ASSUME NEW i \in 1..Len(u)
        PROVE  \E o \in 1..Len(q) : /\ o # k /\ u[i] = q[o]
                                    /\ <<q[o], q[k]>> \in R /\ <<q[k], q[o]>> \in R
    <2>1. i \in 1..(n - 1)
      BY <1>2
    <2>2. old(i) \in 1..Len(q) /\ old(i) # k /\ u[i] = q[old(i)]
      BY <2>1, <1>1, <1>3
    <2> QED
      BY <2>2 DEF Pairwise
  <1> QED
    BY <1>1, <1>5, <1>6

LEMMA PairwiseConcat ==
    ASSUME NEW S, NEW a \in Seq(S), NEW b \in Seq(S), NEW R, Pairwise(a, R), Pairwise(b, R),
           \A i \in 1..Len(a) : \A k \in 1..Len(b) : <<a[i], b[k]>> \in R /\ <<b[k], a[i]>> \in R
    PROVE  Pairwise(a \o b, R)
  <1>1. PICK u, m, n : u = a \o b /\ m = Len(a) /\ n = Len(b)
    OBVIOUS
  <1>2. /\ m \in Nat /\ n \in Nat /\ Len(u) = m + n
        /\ \A i \in 1..(m + n) : u[i] = IF i <= m THEN a[i] ELSE b[i - m]
    BY <1>1, ConcatProperties
  <1>3. ASSUME NEW i \in 1..(m + n), NEW k \in 1..(m + n), i # k
        PROVE  <<u[i], u[k]>> \in R
    <2>1. CASE i <= m /\ k <= m
      <3>1. i \in 1..m /\ k \in 1..m
        BY <2>1, <1>2
      <3> QED
        BY <3>1, <2>1, <1>1, <1>2, <1>3 DEF Pairwise
    <2>2. CASE i <= m /\ ~(k <= m)
      <3>1. PICK l \in 1..n : l = k - m
        BY <2>2, <1>2
      <3>2. i \in 1..m /\ u[i] = a[i] /\ u[k] = b[l]
        BY <2>2, <3>1, <1>2
      <3> QED
        BY <3>2, <1>1
    <2>3. CASE ~(i <= m) /\ k <= m
      <3>1. PICK l \in 1..n : l = i - m
        BY <2>3, <1>2
      <3>2. k \in 1..m /\ u[k] = a[k] /\ u[i] = b[l]
        BY <2>3, <3>1, <1>2
      <3> QED
        BY <3>2, <1>1
    <2>4. CASE ~(i <= m) /\ ~(k <= m)
      <3>1. PICK l \in 1..n, o \in 1..n : l = i - m /\ o = k - m /\ l # o
        BY <2>4, <1>2, <1>3
      <3>2. u[i] = b[l] /\ u[k] = b[o]
        BY <2>4, <3>1, <1>2
      <3> QED
        BY <3>1, <3>2, <1>1 DEF Pairwise
    <2> QED
      BY <2>1, <2>2, <2>3, <2>4
  <1> QED
    BY <1>1, <1>2, <1>3 DEF Pairwise

LEMMA PairwiseFew ==
    ASSUME NEW R
    PROVE  Pairwise(<<>>, R) /\ \A c : Pairwise(<<c>>, R)
  <1>1. Len(<<>>) = 0 /\ \A k \in 1..0 : FALSE
    BY EmptySeq
  <1>2. \A c : Len(<<c>>) = 1
    OBVIOUS
  <1>3. \A i, k \in 1..1 : i = k
    OBVIOUS
  <1> QED
    BY <1>1, <1>2, <1>3 DEF Pairwise

Route(j) == Priorities(j.path)

\* If a job starts at the time of another one and has taken a part of its path, then a
\* path is registered that the other one has taken farther.
ApartFrom(a, b, registers) ==
    a.initial = b.initial /\ Route(a) \in Prefixes(Route(b)) =>
        \E p \in Prefixes(Route(b)) : Len(p) > Len(Route(a)) /\ <<b.initial, p>> \in registers
ApartPairs(registers) == {pair \in Job \X Job : ApartFrom(pair[1], pair[2], registers)}

\* A path that the job has taken is registered at its time.
Rooted(registers) ==
    {j \in Job : \E p \in Prefixes(Route(j)) : <<j.initial, p>> \in registers}

\* Without reuse a job is not registered; the one that has always gone on to the first
\* of the next modes has started last.
Leads(a, b) == IsPrimary(a.path) => ~IsPrimary(b.path) /\ b.initial <= a.initial
Leading == {pair \in Job \X Job : Leads(pair[1], pair[2])}
OnePrimary == {pair \in Job \X Job : ~(IsPrimary(pair[1].path) /\ IsPrimary(pair[2].path))}

LEMMA PairsIn ==
    ASSUME NEW a \in Job, NEW b \in Job, NEW registers
    PROVE  /\ <<a, b>> \in ApartPairs(registers) <=> ApartFrom(a, b, registers)
           /\ <<a, b>> \in Leading <=> Leads(a, b)
           /\ <<a, b>> \in OnePrimary <=> ~(IsPrimary(a.path) /\ IsPrimary(b.path))
  BY DEF ApartPairs, Leading, OnePrimary

LEMMA ApartMore ==
    ASSUME NEW r1, NEW r2, r1 \subseteq r2
    PROVE  /\ ApartPairs(r1) \subseteq ApartPairs(r2) /\ Rooted(r1) \subseteq Rooted(r2)
           /\ \A q : Pairwise(q, ApartPairs(r1)) => Pairwise(q, ApartPairs(r2))
  <1>1. \A a, b : ApartFrom(a, b, r1) => ApartFrom(a, b, r2)
    BY DEF ApartFrom
  <1>2. ApartPairs(r1) \subseteq ApartPairs(r2)
    BY <1>1 DEF ApartPairs
  <1>3. Rooted(r1) \subseteq Rooted(r2)
    BY DEF Rooted
  <1> QED
    BY <1>2, <1>3 DEF Pairwise

LEMMA RouteIs ==
    ASSUME NEW j \in Job
    PROVE  /\ Route(j) \in Seq(Nat) /\ Len(Route(j)) \in Nat /\ j.initial \in Nat
           /\ \A p \in Prefixes(Route(j)) : p \in Seq(Nat) /\ Len(p) \in Nat /\ Len(p) <= Len(Route(j))
  <1>1. j.path \in Seq(Node) /\ j.initial \in Nat
    BY JobFields
  <1>2. PICK q \in Seq(Nat) : q = Route(j)
    BY <1>1, PrioritiesAre DEF Route
  <1>3. ASSUME NEW p \in Prefixes(q)
        PROVE  p \in Seq(Nat) /\ Len(p) \in Nat /\ Len(p) <= Len(q)
    <2>1. p \in Seq(Nat)
      BY PrefixesOf
    <2> QED
      BY <2>1, PrefixIs
  <1> QED
    BY <1>1, <1>2, <1>3

\* What the property says of the jobs that wait.
LEMMA ApartRoutes ==
    ASSUME NEW registers, NEW q \in Seq(Job), Pairwise(q, ApartPairs(registers)),
           NEW i \in 1..Len(q), NEW k \in 1..Len(q),
           q[i].initial = q[k].initial, Route(q[i]) = Route(q[k])
    PROVE  i = k
  <1> SUFFICES ASSUME i # k PROVE FALSE
    OBVIOUS
  <1>1. PICK a \in Job, b \in Job : a = q[i] /\ b = q[k]
    OBVIOUS
  <1>2. ApartFrom(a, b, registers)
    BY <1>1, PairsIn DEF Pairwise
  <1>3. Route(a) \in Prefixes(Route(b))
    BY <1>1, RouteIs, PrefixOrder
  <1>4. PICK p \in Prefixes(Route(b)) : Len(p) > Len(Route(a))
    BY <1>1, <1>2, <1>3 DEF ApartFrom
  <1>5. Len(p) \in Nat /\ Len(p) <= Len(Route(b)) /\ Route(a) = Route(b) /\ Len(Route(b)) \in Nat
    BY <1>1, RouteIs
  <1> QED
    BY <1>4, <1>5

\* A job that goes on from j is as far from another one as j is, unless its path is
\* registered.
LEMMA ApartChild ==
    ASSUME NEW registers, NEW a \in Job, NEW j \in Job, NEW c \in Job,
           ApartFrom(a, j, registers), ApartFrom(j, a, registers), c.initial = j.initial,
           \/ Route(c) = Route(j)
           \/ <<c.initial, Route(c)>> \notin registers /\ \E x \in Nat : Route(c) = Append(Route(j), x)
    PROVE  ApartFrom(a, c, registers) /\ ApartFrom(c, a, registers)
  <1>1. CASE Route(c) = Route(j)
    BY <1>1 DEF ApartFrom
  <1>2. CASE Route(c) # Route(j)
    <2>1. PICK x \in Nat : Route(c) = Append(Route(j), x) /\ <<c.initial, Route(c)>> \notin registers
      BY <1>2
    <2>2. PICK A \in Seq(Nat), J \in Seq(Nat), C \in Seq(Nat) :
              A = Route(a) /\ J = Route(j) /\ C = Route(c)
      BY RouteIs
    <2>3. C = Append(J, x) /\ Len(C) = Len(J) + 1 /\ J \in Prefixes(C) /\ Len(J) \in Nat /\ Len(A) \in Nat
      BY <2>1, <2>2, PrefixOfAppend
    <2>4. ASSUME a.initial = c.initial, A \in Prefixes(C)
          PROVE  \E p \in Prefixes(C) : Len(p) > Len(A) /\ <<c.initial, p>> \in registers
      <3>1. CASE A \in Prefixes(J)
        <4>1. PICK p \in Prefixes(J) : Len(p) > Len(A) /\ <<j.initial, p>> \in registers
          BY <2>2, <2>4, <3>1 DEF ApartFrom
        <4>2. p \in Seq(Nat)
          BY PrefixesOf
        <4>3. p \in Prefixes(C)
          BY <4>2, <2>3, PrefixOrder
        <4> QED
          BY <4>1, <4>3
      <3>2. CASE A = C
        <4>1. J \in Prefixes(A) /\ j.initial = a.initial
          BY <3>2, <2>3, <2>4
        <4>2. PICK p \in Prefixes(A) : Len(p) > Len(J) /\ <<a.initial, p>> \in registers
          BY <4>1, <2>2 DEF ApartFrom
        <4>3. p \in Seq(Nat) /\ Len(p) \in Nat
          BY PrefixesOf
        <4>4. p = C
          <5>1. Len(p) <= Len(C) /\ \A i \in 1..Len(p) : p[i] = C[i]
            BY <3>2, <4>2, <4>3, PrefixIs
          <5>2. Len(p) = Len(C)
            BY <5>1, <4>2, <4>3, <2>3
          <5> QED
            BY <5>1, <5>2, <4>3, SeqEqual
        <4> QED
          BY <4>2, <4>4, <2>1, <2>2, <2>4
      <3>3. A \in Prefixes(Append(J, x)) => A \in Prefixes(J) \/ A = Append(J, x)
        BY PrefixOfAppend
      <3> QED
        BY <3>1, <3>2, <3>3, <2>3, <2>4
    <2>5. ASSUME a.initial = c.initial, C \in Prefixes(A)
          PROVE  \E p \in Prefixes(A) : Len(p) > Len(C) /\ <<a.initial, p>> \in registers
      <3>1. J \in Prefixes(A)
        BY <2>3, <2>5, PrefixOrder
      <3>2. PICK p \in Prefixes(A) : Len(p) > Len(J) /\ <<a.initial, p>> \in registers
        BY <3>1, <2>2, <2>5 DEF ApartFrom
      <3>3. p \in Seq(Nat) /\ Len(p) \in Nat /\ Len(C) \in Nat
        BY PrefixesOf
      <3>4. C \in Prefixes(p) \/ (p \in Prefixes(C) /\ Len(p) < Len(C))
        BY <2>5, <3>2, <3>3, PrefixOrder
      <3>5. C \in Prefixes(p)
        BY <3>2, <3>3, <3>4, <2>3
      <3>6. Len(C) <= Len(p) /\ \A i \in 1..Len(C) : C[i] = p[i]
        BY <3>3, <3>5, PrefixIs
      <3>7. Len(C) = Len(p) => p = C
        BY <3>3, <3>6, SeqEqual
      <3>8. Len(C) # Len(p)
        BY <3>2, <3>7, <2>1, <2>2, <2>5
      <3>9. Len(p) > Len(C)
        BY <3>3, <3>6, <3>8
      <3> QED
        BY <3>2, <3>9
    <2> QED
      BY <2>2, <2>4, <2>5 DEF ApartFrom
  <1> QED
    BY <1>1, <1>2

\* The jobs that go on from a job.
Child(c, j) ==
    /\ c.initial = j.initial
    /\ \/ Route(c) = Route(j)
       \/ \E x \in Nat : Route(c) = Append(Route(j), x)

LEMMA PrimaryIs ==
    ASSUME NEW j \in Job
    PROVE  IsPrimary(j.path) <=> \A i \in 1..Len(Route(j)) : Route(j)[i] = 0
  <1>1. j.path \in Seq(Node)
    BY JobFields
  <1>2. PICK path \in Seq(Node), q \in Seq(Nat) : path = j.path /\ q = Priorities(path)
    BY <1>1, PrioritiesAre
  <1>3. Len(q) = Len(path) /\ \A i \in 1..Len(path) : q[i] = path[i].priority
    BY <1>2, PrioritiesAre
  <1>4. IsPrimary(path) <=> \A i \in 1..Len(q) : q[i] = 0
    BY <1>3 DEF IsPrimary
  <1> QED
    BY <1>2, <1>4 DEF Route

LEMMA ChildIsPrimary ==
    ASSUME NEW j \in Job, NEW c \in Job, Child(c, j), IsPrimary(c.path)
    PROVE  /\ IsPrimary(j.path)
           /\ Route(c) = Route(j) \/ Route(c) = Append(Route(j), 0)
  <1>1. PICK p \in Seq(Nat), q \in Seq(Nat) : p = Route(j) /\ q = Route(c)
    BY RouteIs
  <1>2. \A i \in 1..Len(q) : q[i] = 0
    BY <1>1, PrimaryIs
  <1>3. CASE q = p
    BY <1>1, <1>3, PrimaryIs
  <1>4. CASE q # p
    <2>1. PICK x \in Nat : q = Append(p, x)
      BY <1>1, <1>4 DEF Child
    <2>2. /\ Len(p) \in Nat /\ Len(q) = Len(p) + 1 /\ q[Len(p) + 1] = x
          /\ \A i \in 1..Len(p) : q[i] = p[i]
      BY <2>1
    <2>3. Len(p) + 1 \in 1..Len(q) /\ \A i \in 1..Len(p) : i \in 1..Len(q)
      BY <2>2
    <2>4. x = 0 /\ \A i \in 1..Len(p) : p[i] = 0
      BY <2>2, <2>3, <1>2
    <2> QED
      BY <2>1, <2>4, <1>1, PrimaryIs
  <1> QED
    BY <1>3, <1>4

LEMMA LeadsChild ==
    ASSUME NEW a \in Job, NEW j \in Job, NEW c \in Job, Child(c, j)
    PROVE  /\ Leads(a, j) => Leads(a, c)
           /\ Leads(j, a) => Leads(c, a)
  <1>1. c.initial = j.initial /\ (IsPrimary(c.path) => IsPrimary(j.path))
    BY ChildIsPrimary DEF Child
  <1> QED
    BY <1>1 DEF Leads

\* The jobs that go on from one, none of which is a beginning of another one.
LEMMA ChildrenLead ==
    ASSUME NEW j \in Job, NEW next \in Seq(Job), Diverging(next),
           \A n \in 1..Len(next) : Child(next[n], j),
           Len(next) # 1 => \A n \in 1..Len(next) : \E x \in Nat : Route(next[n]) = Append(Route(j), x),
           NEW registers
    PROVE  Pairwise(next, Leading) /\ Pairwise(next, ApartPairs(registers))
  <1>1. ASSUME NEW i \in 1..Len(next), NEW k \in 1..Len(next), i # k
        PROVE  <<next[i], next[k]>> \in Leading /\ <<next[i], next[k]>> \in ApartPairs(registers)
    <2>1. PICK a \in Job, b \in Job : a = next[i] /\ b = next[k]
      OBVIOUS
    <2>2. Route(a) \notin Prefixes(Route(b)) /\ Child(a, j) /\ Child(b, j)
      BY <1>1, <2>1 DEF Diverging, Route
    <2>3. PICK x \in Nat, y \in Nat : Route(a) = Append(Route(j), x) /\ Route(b) = Append(Route(j), y)
      <3>1. Len(next) # 1
        BY <1>1
      <3>2. \E x \in Nat : Route(next[i]) = Append(Route(j), x)
        BY <3>1
      <3>3. \E x \in Nat : Route(next[k]) = Append(Route(j), x)
        BY <3>1
      <3> QED
        BY <2>1, <3>2, <3>3
    <2>4. ASSUME IsPrimary(a.path), IsPrimary(b.path)
          PROVE  FALSE
      <3>1. PICK p \in Seq(Nat), u \in Seq(Nat), v \in Seq(Nat) : p = Route(j) /\ u = Route(a) /\ v = Route(b)
        BY RouteIs
      <3>2. /\ Len(u) = Len(p) + 1 /\ Len(v) = Len(p) + 1 /\ Len(p) \in Nat
            /\ u[Len(p) + 1] = x /\ v[Len(p) + 1] = y
        BY <2>3, <3>1
      <3>3. Len(p) + 1 \in 1..Len(u) /\ Len(p) + 1 \in 1..Len(v)
        BY <3>2
      <3>4. x = 0 /\ y = 0
        BY <2>4, <3>1, <3>2, <3>3, PrimaryIs
      <3>5. Route(a) = Route(b) /\ Route(a) \in Seq(Nat)
        BY <2>3, <3>1, <3>4
      <3>6. Route(a) \in Prefixes(Route(a))
        BY <3>5, PrefixOrder
      <3> QED
        BY <3>5, <3>6, <2>2
    <2>5. Leads(a, b)
      <3>1. b.initial <= a.initial
        BY <2>2, RouteIs DEF Child
      <3> QED
        BY <2>4, <3>1 DEF Leads
    <2>6. ApartFrom(a, b, registers)
      BY <2>2 DEF ApartFrom
    <2> QED
      BY <2>1, <2>5, <2>6, PairsIn
  <1> QED
    BY <1>1 DEF Pairwise

\* A path is registered for what is awakened only if no part of it was: it is apart
\* from the jobs that wait, of which a part is registered.
LEMMA AcceptedApart ==
    ASSUME NEW registers, NEW more, registers \subseteq more,
           NEW a \in Rooted(registers), NEW b \in Job, Acceptable(registers, b)
    PROVE  ApartFrom(a, b, more) /\ ApartFrom(b, a, more)
  <1>1. a \in Job
    BY DEF Rooted
  <1>2. PICK A \in Seq(Nat), B \in Seq(Nat) : A = Route(a) /\ B = Route(b)
    BY <1>1, RouteIs
  <1>3. PICK p \in Prefixes(A) : <<a.initial, p>> \in registers
    BY <1>2 DEF Rooted
  <1>4. p \in Seq(Nat) /\ Len(p) \in Nat
    BY PrefixesOf
  <1>5. a.initial = b.initial => p \notin Prefixes(B)
    BY <1>2, <1>3 DEF Acceptable, Route
  <1>6. a.initial = b.initial => A \notin Prefixes(B)
    BY <1>3, <1>4, <1>5, PrefixOrder
  <1>7. ASSUME a.initial = b.initial, B \in Prefixes(A)
        PROVE  \E r \in Prefixes(A) : Len(r) > Len(B) /\ <<a.initial, r>> \in more
    <2>1. Len(B) \in Nat
      OBVIOUS
    <2>2. p \in Prefixes(B) \/ (B \in Prefixes(p) /\ Len(B) < Len(p))
      BY <1>3, <1>4, <1>7, PrefixOrder
    <2>3. Len(p) > Len(B)
      BY <2>1, <2>2, <1>4, <1>5, <1>7
    <2> QED
      BY <2>3, <1>3
  <1> QED
    BY <1>2, <1>6, <1>7 DEF ApartFrom

LEMMA TakenApart ==
    ASSUME NEW registers \in SUBSET Registrations, NEW q \in Seq(Job), NEW accepted \in Seq(FitJobs),
           Pairwise(q, ApartPairs(registers)), \A i \in 1..Len(q) : q[i] \in Rooted(registers),
           Diverging(accepted), \A k \in 1..Len(accepted) : Acceptable(registers, accepted[k])
    PROVE  LET more == Register(registers, accepted)
           IN  /\ Pairwise(q \o accepted, ApartPairs(more))
               /\ \A k \in 1..Len(q) : q[k] \in Rooted(more)
               /\ \A k \in 1..Len(accepted) : accepted[k] \in Rooted(more)
  <1>1. PICK more : more = Register(registers, accepted)
    OBVIOUS
  <1>2. /\ registers \subseteq more
        /\ \A k \in 1..Len(accepted) : <<accepted[k].initial, Route(accepted[k])>> \in more
    BY <1>1, RegisterIs DEF Route
  <1>3. accepted \in Seq(Job) /\ \A k \in 1..Len(accepted) : accepted[k] \in Job
    <2>1. FitJobs \subseteq Job
      BY DEF FitJobs
    <2> QED
      BY <2>1
  <1>4. Pairwise(q, ApartPairs(more)) /\ \A i \in 1..Len(q) : q[i] \in Rooted(more)
    BY <1>2, ApartMore
  <1>5. Pairwise(accepted, ApartPairs(more))
    <2>1. ASSUME NEW i \in 1..Len(accepted), NEW k \in 1..Len(accepted), i # k
          PROVE  <<accepted[i], accepted[k]>> \in ApartPairs(more)
      <3>1. ApartFrom(accepted[i], accepted[k], more)
        BY <2>1 DEF ApartFrom, Diverging, Route
      <3> QED
        BY <3>1, <1>3, PairsIn
    <2> QED
      BY <2>1 DEF Pairwise
  <1>6. \A i \in 1..Len(q) : \A k \in 1..Len(accepted) :
            <<q[i], accepted[k]>> \in ApartPairs(more) /\ <<accepted[k], q[i]>> \in ApartPairs(more)
    <2> TAKE i \in 1..Len(q)
    <2> TAKE k \in 1..Len(accepted)
    <2>1. q[i] \in Rooted(registers) /\ accepted[k] \in Job /\ q[i] \in Job
      BY <1>3
    <2>2. ApartFrom(q[i], accepted[k], more) /\ ApartFrom(accepted[k], q[i], more)
      BY <2>1, <1>2, AcceptedApart
    <2> QED
      BY <2>1, <2>2, PairsIn
  <1>7. \A k \in 1..Len(accepted) : accepted[k] \in Rooted(more)
    <2> TAKE k \in 1..Len(accepted)
    <2>1. Route(accepted[k]) \in Prefixes(Route(accepted[k]))
      BY <1>3, RouteIs, PrefixOrder
    <2> QED
      BY <2>1, <1>2, <1>3 DEF Rooted
  <1>8. Pairwise(q \o accepted, ApartPairs(more))
    BY <1>3, <1>4, <1>5, <1>6, PairwiseConcat
  <1> QED
    BY <1>1, <1>4, <1>7, <1>8

\* The inductive invariant of the paths: with reuse the jobs that wait are apart by what
\* is registered; without, nothing is registered and a single job may start later.
PathsInv ==
    /\ pending => waiting = <<>> /\ sleeping = <<>> /\ registered = {}
    /\ Pairwise(waiting, ApartPairs(registered))
    /\ Reuse => \A i \in 1..Len(waiting) : waiting[i] \in Rooted(registered)
    /\ ~Reuse => /\ registered = {}
                 /\ Pairwise(waiting, Leading) /\ Pairwise(sleeping, OnePrimary)
                 /\ \A i \in 1..Len(sleeping) : \A k \in 1..Len(waiting) :
                       <<sleeping[i], waiting[k]>> \in Leading

LEMMA QueuesAre ==
    ASSUME JobsInv
    PROVE  /\ waiting \in Seq(Job) /\ sleeping \in Seq(Job)
           /\ Len(waiting) \in Nat /\ Len(sleeping) \in Nat
           /\ \A k \in 1..Len(waiting) : waiting[k] \in WaitingJobs /\ waiting[k] \in Job
  <1>1. WaitingJobs \subseteq Job /\ FitJobs \subseteq Job
    BY DEF WaitingJobs, FitJobs
  <1> QED
    BY <1>1 DEF JobsInv

\* The jobs that wait but one.
LEMMA OthersAre ==
    ASSUME JobsInv, NEW R, Pairwise(waiting, R), NEW k \in 1..Len(waiting),
           NEW j, j = waiting[k], NEW others, others = RemoveAt(waiting, k)
    PROVE  /\ others \in Seq(Job) /\ Pairwise(others, R)
           /\ \A i \in 1..Len(others) : \E o \in 1..Len(waiting) :
                 /\ others[i] = waiting[o]
                 /\ <<waiting[o], j>> \in R /\ <<j, waiting[o]>> \in R
  <1>1. PICK q \in Seq(Job) : q = waiting
    BY QueuesAre
  <1>2. others \in Seq(Job)
    BY <1>1, Removed
  <1>3. /\ Pairwise(RemoveAt(q, k), R)
        /\ \A i \in 1..Len(RemoveAt(q, k)) : \E o \in 1..Len(q) :
              /\ o # k /\ RemoveAt(q, k)[i] = q[o]
              /\ <<q[o], q[k]>> \in R /\ <<q[k], q[o]>> \in R
    <2>1. Pairwise(q, R) /\ k \in 1..Len(q)
      BY <1>1
    <2> QED
      BY <2>1, PairwiseRemoved
  <1> QED
    BY <1>1, <1>2, <1>3

\* A sequence and one more entry.
LEMMA PairwiseAppend ==
    ASSUME NEW S, NEW q \in Seq(S), NEW c \in S, NEW R, Pairwise(q, R),
           \A i \in 1..Len(q) : <<q[i], c>> \in R /\ <<c, q[i]>> \in R
    PROVE  Pairwise(Append(q, c), R)
  <1>1. PICK one : one = <<c>>
    OBVIOUS
  <1>2. one \in Seq(S) /\ Len(one) = 1 /\ one[1] = c /\ Pairwise(one, R)
    BY <1>1, PairwiseFew
  <1>3. \A i \in 1..Len(q) : \A k \in 1..Len(one) : <<q[i], one[k]>> \in R /\ <<one[k], q[i]>> \in R
    BY <1>2
  <1>4. Pairwise(q \o one, R)
    BY <1>2, <1>3, PairwiseConcat
  <1>5. q \o <<c>> = Append(q, c)
    OBVIOUS
  <1> QED
    BY <1>1, <1>4, <1>5

LEMMA SleepsKeepsPaths ==
    ASSUME JobsInv, PathsInv, NEW k \in 1..Len(waiting), NEW c, Sleeps(k, c),
           UNCHANGED <<factory, pending, registered>>
    PROVE  PathsInv'
  <1>1. PICK j \in Job : j = waiting[k]
    BY QueuesAre
  <1>2. c \in Job /\ c.path = j.path /\ c.initial = j.initial
    BY <1>1 DEF Sleeps, FitJobs
  <1>3. ~pending /\ ~pending' /\ registered' = registered /\ (Reuse' <=> Reuse)
    <2>1. waiting # <<>>
      BY QueuesAre, EmptySeq
    <2> QED
      BY <2>1 DEF PathsInv, Reuse
  <1>4. PICK others : others = RemoveAt(waiting, k)
    OBVIOUS
  <1>5. waiting' = others /\ sleeping' = Append(sleeping, c)
    BY <1>4 DEF Sleeps
  <1>6. /\ others \in Seq(Job) /\ Pairwise(others, ApartPairs(registered))
        /\ \A i \in 1..Len(others) : \E o \in 1..Len(waiting) : others[i] = waiting[o]
    <2>1. Pairwise(waiting, ApartPairs(registered))
      BY DEF PathsInv
    <2>2. /\ others \in Seq(Job) /\ Pairwise(others, ApartPairs(registered))
          /\ \A i \in 1..Len(others) : \E o \in 1..Len(waiting) :
                /\ others[i] = waiting[o]
                /\ <<waiting[o], j>> \in ApartPairs(registered)
                /\ <<j, waiting[o]>> \in ApartPairs(registered)
      BY <2>1, <1>1, <1>4, OthersAre
    <2> QED
      BY <2>2
  <1>7. Reuse => \A i \in 1..Len(others) : others[i] \in Rooted(registered)
    BY <1>6 DEF PathsInv
  <1>8. ASSUME ~Reuse
        PROVE  /\ Pairwise(others, Leading) /\ Pairwise(sleeping', OnePrimary)
               /\ \A i \in 1..Len(sleeping') : \A l \in 1..Len(others) :
                     <<sleeping'[i], others[l]>> \in Leading
    <2>1. /\ Pairwise(waiting, Leading) /\ Pairwise(sleeping, OnePrimary)
          /\ \A i \in 1..Len(sleeping) : \A l \in 1..Len(waiting) :
                <<sleeping[i], waiting[l]>> \in Leading
      BY <1>8 DEF PathsInv
    <2>2. /\ Pairwise(others, Leading)
          /\ \A i \in 1..Len(others) : \E o \in 1..Len(waiting) :
                /\ others[i] = waiting[o]
                /\ <<waiting[o], j>> \in Leading /\ <<j, waiting[o]>> \in Leading
      BY <2>1, <1>1, <1>4, OthersAre
    <2>3. \A i \in 1..Len(others) : <<c, others[i]>> \in Leading
      <3> TAKE i \in 1..Len(others)
      <3>1. others[i] \in Job /\ <<j, others[i]>> \in Leading
        <4>1. others[i] \in Job
          BY <1>6
        <4>2. PICK o \in 1..Len(waiting) : others[i] = waiting[o] /\ <<j, waiting[o]>> \in Leading
          BY <2>2
        <4> QED
          BY <4>1, <4>2
      <3>2. Leads(j, others[i])
        BY <3>1, PairsIn
      <3>3. Leads(c, others[i])
        BY <3>2, <1>2 DEF Leads
      <3> QED
        BY <3>1, <3>3, <1>2, PairsIn
    <2>4. \A i \in 1..Len(sleeping) :
              <<sleeping[i], c>> \in OnePrimary /\ <<c, sleeping[i]>> \in OnePrimary
      <3> TAKE i \in 1..Len(sleeping)
      <3>1. sleeping[i] \in Job /\ <<sleeping[i], j>> \in Leading
        BY <2>1, <1>1, QueuesAre
      <3>2. Leads(sleeping[i], j)
        BY <3>1, PairsIn
      <3>3. ~(IsPrimary(sleeping[i].path) /\ IsPrimary(c.path))
        BY <3>2, <1>2 DEF Leads
      <3> QED
        BY <3>1, <3>3, <1>2, PairsIn
    <2>5. Pairwise(sleeping', OnePrimary)
      BY <2>1, <2>4, <1>2, <1>5, QueuesAre, PairwiseAppend
    <2>6. \A i \in 1..Len(sleeping') : \A l \in 1..Len(others) :
              <<sleeping'[i], others[l]>> \in Leading
      <3>1. PICK s : s = sleeping'
        OBVIOUS
      <3>2. /\ Len(s) = Len(sleeping) + 1 /\ Len(sleeping) \in Nat /\ s[Len(sleeping) + 1] = c
            /\ \A i \in 1..Len(sleeping) : s[i] = sleeping[i]
        BY <3>1, <1>2, <1>5, QueuesAre
      <3>3. \A i \in 1..Len(s) : i \in 1..Len(sleeping) \/ i = Len(sleeping) + 1
        BY <3>2
      <3>4. \A i \in 1..Len(s) : \A l \in 1..Len(others) : <<s[i], others[l]>> \in Leading
        BY <3>2, <3>3, <2>1, <2>2, <2>3
      <3> QED
        BY <3>1, <3>4
    <2> QED
      BY <2>2, <2>5, <2>6
  <1>9. waiting' = others
    BY <1>5
  <1> QED
    BY <1>3, <1>5, <1>6, <1>7, <1>8 DEF PathsInv

LEMMA GoesOnKeepsPaths ==
    ASSUME JobsInv, PathsInv, NEW k \in 1..Len(waiting), NEW next, GoesOn(k, next),
           UNCHANGED <<factory, pending, registered>>
    PROVE  PathsInv'
  <1>1. PICK j \in Job : j = waiting[k]
    BY QueuesAre
  <1>2. ~pending /\ ~pending' /\ registered' = registered /\ (Reuse' <=> Reuse)
    <2>1. waiting # <<>>
      BY QueuesAre, EmptySeq
    <2> QED
      BY <2>1 DEF PathsInv, Reuse
  <1>3. PICK others : others = RemoveAt(waiting, k)
    OBVIOUS
  <1>4. waiting' = others \o next /\ sleeping' = sleeping /\ Diverging(next)
    BY <1>3 DEF GoesOn
  <1>5. next \in Seq(Job)
    <2>1. WaitingJobs \subseteq Job
      BY DEF WaitingJobs, FitJobs
    <2> QED
      BY <2>1 DEF GoesOn
  <1>6. ASSUME NEW n \in 1..Len(next)
        PROVE  /\ next[n] \in Job /\ Child(next[n], j)
               /\ Len(next) # 1 => \E x \in Nat : Route(next[n]) = Append(Route(j), x)
               /\ \/ Route(next[n]) = Route(j)
                  \/ /\ <<next[n].initial, Route(next[n])>> \notin registered
                     /\ \E x \in Nat : Route(next[n]) = Append(Route(j), x)
    <2>1. PICK c \in Job : c = next[n]
      BY <1>5
    <2>2. /\ c.initial = j.initial
          /\ \/ Len(next) = 1 /\ c.path = j.path
             \/ /\ ~HasRegistered(c)
                /\ \E a, p \in Nat : c.path = Add(j.path, a, p)
      BY <2>1, <1>1 DEF GoesOn
    <2>3. CASE Len(next) = 1 /\ c.path = j.path
      BY <2>1, <2>2, <2>3 DEF Child, Route
    <2>4. ASSUME ~HasRegistered(c), NEW a \in Nat, NEW p \in Nat, c.path = Add(j.path, a, p)
          PROVE  /\ Route(c) = Append(Route(j), a)
                 /\ <<c.initial, Route(c)>> \notin registered
      <3>1. j.path \in Seq(Node)
        BY JobFields
      <3>2. Priorities(Add(j.path, a, p)) = Append(Priorities(j.path), a)
        BY <3>1, PrioritiesAre
      <3>3. ~Reuse => registered = {}
        BY DEF PathsInv
      <3> QED
        BY <3>2, <3>3, <2>4 DEF Route, HasRegistered
    <2> QED
      BY <2>1, <2>2, <2>3, <2>4 DEF Child
  <1>7. /\ others \in Seq(Job) /\ Pairwise(others, ApartPairs(registered))
        /\ \A i \in 1..Len(others) : \E o \in 1..Len(waiting) :
              /\ others[i] = waiting[o]
              /\ <<waiting[o], j>> \in ApartPairs(registered)
              /\ <<j, waiting[o]>> \in ApartPairs(registered)
    <2>1. Pairwise(waiting, ApartPairs(registered))
      BY DEF PathsInv
    <2> QED
      BY <2>1, <1>1, <1>3, OthersAre
  <1>8. Pairwise(next, Leading) /\ Pairwise(next, ApartPairs(registered))
    BY <1>4, <1>5, <1>6, ChildrenLead
  <1>9. \A i \in 1..Len(others) : \A n \in 1..Len(next) :
            /\ <<others[i], next[n]>> \in ApartPairs(registered)
            /\ <<next[n], others[i]>> \in ApartPairs(registered)
    <2> TAKE i \in 1..Len(others)
    <2> TAKE n \in 1..Len(next)
    <2>1. PICK a \in Job, c \in Job : a = others[i] /\ c = next[n]
      BY <1>5, <1>7
    <2>2. ApartFrom(a, j, registered) /\ ApartFrom(j, a, registered)
      BY <2>1, <1>7, PairsIn
    <2>3. c.initial = j.initial
      BY <2>1, <1>6 DEF Child
    <2>4. \/ Route(c) = Route(j)
          \/ <<c.initial, Route(c)>> \notin registered /\ \E x \in Nat : Route(c) = Append(Route(j), x)
      BY <2>1, <1>6
    <2>5. ApartFrom(a, c, registered) /\ ApartFrom(c, a, registered)
      BY <2>2, <2>3, <2>4, ApartChild
    <2> QED
      BY <2>1, <2>5, PairsIn
  <1>10. Pairwise(others \o next, ApartPairs(registered))
    BY <1>5, <1>7, <1>8, <1>9, PairwiseConcat
  <1>11. PICK all, m, l : all = others \o next /\ m = Len(others) /\ l = Len(next)
    OBVIOUS
  <1>12. ASSUME NEW i \in 1..Len(all)
         PROVE  (\E n \in 1..Len(others) : all[i] = others[n]) \/ \E n \in 1..Len(next) : all[i] = next[n]
    <2>1. /\ m \in Nat /\ l \in Nat /\ Len(all) = m + l
          /\ \A n \in 1..(m + l) : all[n] = IF n <= m THEN others[n] ELSE next[n - m]
      BY <1>5, <1>7, <1>11, ConcatProperties
    <2>2. CASE i <= m
      <3>1. i \in 1..m /\ all[i] = others[i]
        BY <2>1, <2>2
      <3> QED
        BY <3>1, <1>11
    <2>3. CASE ~(i <= m)
      <3>1. PICK n \in 1..l : n = i - m
        BY <2>1, <2>3
      <3>2. all[i] = next[n]
        BY <2>1, <2>3, <3>1
      <3> QED
        BY <3>2, <1>11
    <2> QED
      BY <2>2, <2>3
  <1>13. ASSUME Reuse, NEW i \in 1..Len(all)
         PROVE  all[i] \in Rooted(registered)
    <2>1. ASSUME NEW n \in 1..Len(next)
          PROVE  next[n] \in Rooted(registered)
      <3>1. PICK c \in Job : c = next[n]
        BY <1>5
      <3>2. Child(c, j)
        BY <3>1, <1>6
      <3>3. PICK p \in Prefixes(Route(j)) : <<j.initial, p>> \in registered
        BY <1>1, <1>13 DEF PathsInv, Rooted
      <3>4. p \in Seq(Nat) /\ Route(j) \in Seq(Nat) /\ Route(c) \in Seq(Nat)
        BY RouteIs
      <3>5. Route(j) \in Prefixes(Route(c))
        <4>1. CASE Route(c) = Route(j)
          BY <4>1, <3>4, PrefixOrder
        <4>2. CASE Route(c) # Route(j)
          <5>1. PICK x \in Nat : Route(c) = Append(Route(j), x)
            BY <4>2, <3>2 DEF Child
          <5> QED
            BY <5>1, <3>4, PrefixOfAppend
        <4> QED
          BY <4>1, <4>2
      <3>6. p \in Prefixes(Route(c))
        BY <3>4, <3>5, PrefixOrder
      <3> QED
        BY <3>1, <3>2, <3>3, <3>6 DEF Rooted, Child
    <2>2. \A n \in 1..Len(others) : others[n] \in Rooted(registered)
      BY <1>7, <1>13 DEF PathsInv
    <2> QED
      BY <2>1, <2>2, <1>12
  <1>14. ASSUME ~Reuse
         PROVE  /\ Pairwise(all, Leading)
                /\ \A i \in 1..Len(sleeping) : \A n \in 1..Len(all) :
                      <<sleeping[i], all[n]>> \in Leading
    <2>1. /\ Pairwise(waiting, Leading)
          /\ \A i \in 1..Len(sleeping) : \A o \in 1..Len(waiting) :
                <<sleeping[i], waiting[o]>> \in Leading
      BY <1>14 DEF PathsInv
    <2>2. /\ Pairwise(others, Leading)
          /\ \A i \in 1..Len(others) : \E o \in 1..Len(waiting) :
                /\ others[i] = waiting[o]
                /\ <<waiting[o], j>> \in Leading /\ <<j, waiting[o]>> \in Leading
      BY <2>1, <1>1, <1>3, OthersAre
    <2>3. \A i \in 1..Len(others) : \A n \in 1..Len(next) :
              <<others[i], next[n]>> \in Leading /\ <<next[n], others[i]>> \in Leading
      <3> TAKE i \in 1..Len(others)
      <3> TAKE n \in 1..Len(next)
      <3>1. PICK a \in Job, c \in Job : a = others[i] /\ c = next[n]
        BY <1>5, <1>7
      <3>2. Leads(a, j) /\ Leads(j, a) /\ Child(c, j)
        BY <3>1, <2>2, <1>6, PairsIn
      <3>3. Leads(a, c) /\ Leads(c, a)
        BY <3>2, LeadsChild
      <3> QED
        BY <3>1, <3>3, PairsIn
    <2>4. Pairwise(all, Leading)
      BY <2>2, <2>3, <1>5, <1>7, <1>8, <1>11, PairwiseConcat
    <2>5. ASSUME NEW i \in 1..Len(sleeping)
          PROVE  /\ \A n \in 1..Len(next) : <<sleeping[i], next[n]>> \in Leading
                 /\ \A n \in 1..Len(others) : <<sleeping[i], others[n]>> \in Leading
      <3>1. PICK a \in Job : a = sleeping[i]
        BY QueuesAre
      <3>2. Leads(a, j)
        BY <3>1, <2>1, <1>1, PairsIn
      <3>3. \A n \in 1..Len(next) : <<a, next[n]>> \in Leading
        <4> TAKE n \in 1..Len(next)
        <4>1. PICK c \in Job : c = next[n]
          BY <1>5
        <4>2. Leads(a, c)
          BY <4>1, <3>2, <1>6, LeadsChild
        <4> QED
          BY <4>1, <4>2, PairsIn
      <3> QED
        BY <3>1, <3>3, <2>1, <2>2
    <2>6. \A i \in 1..Len(sleeping) : \A n \in 1..Len(all) : <<sleeping[i], all[n]>> \in Leading
      BY <2>5, <1>12
    <2> QED
      BY <2>4, <2>6
  <1>15. waiting' = all
    BY <1>4, <1>11
  <1> QED
    BY <1>2, <1>4, <1>10, <1>11, <1>13, <1>14, <1>15 DEF PathsInv

\* Some of the entries of a list of jobs.
LEMMA ChosenJobs ==
    ASSUME NEW S, NEW q \in Seq(S), NEW chosen \in SUBSET (1..Len(q)),
           NEW next, next = EntriesAt(q, chosen)
    PROVE  /\ \A n \in 1..Len(next) : \E i \in chosen : next[n] = q[i]
           /\ Diverging(q) => Diverging(next)
  <1>1. PICK m, at : m = Cardinality(chosen) /\ at = InPlace(chosen)
    OBVIOUS
  <1>2. m \in Nat /\ m <= Len(q) /\ at \in [1..m -> chosen]
    BY <1>1, ChosenEntries
  <1>3. next \in Seq(S) /\ Len(next) = m
    BY <1>1, ChosenEntries
  <1>4. \A i \in 1..m : next[i] = q[at[i]]
    BY <1>1, EntriesAre
  <1>5. \A i, l \in 1..m : i < l => at[i] < at[l]
    <2>1. \A i, l \in 1..Cardinality(chosen) : i < l => InPlace(chosen)[i] < InPlace(chosen)[l]
      BY ChosenEntries
    <2> QED
      BY <2>1, <1>1
  <1>6. ASSUME Diverging(q), NEW i \in 1..m, NEW l \in 1..m, i # l
        PROVE  Priorities(next[i].path) \notin Prefixes(Priorities(next[l].path))
    <2>1. at[i] \in 1..Len(q) /\ at[l] \in 1..Len(q)
      BY <1>2
    <2>2. at[i] # at[l]
      <3>1. i < l \/ l < i
        BY <1>2, <1>6
      <3>2. at[i] < at[l] \/ at[l] < at[i]
        BY <3>1, <1>5
      <3> QED
        BY <3>2, <2>1
    <2>3. Priorities(q[at[i]].path) \notin Prefixes(Priorities(q[at[l]].path))
      BY <2>1, <2>2, <1>6 DEF Diverging
    <2> QED
      BY <2>3, <1>4
  <1>7. Diverging(q) => Diverging(next)
    BY <1>3, <1>6 DEF Diverging
  <1> QED
    BY <1>2, <1>3, <1>4, <1>7

-----------------------------------------------------------------------------
(* Awakening with reuse.                                                    *)

\* What awakening makes of the jobs, with those that wait apart from those moved.
ApartWakings(t) ==
    {acc \in Wakings(t) :
        /\ Pairwise(waiting \o acc.moved, ApartPairs(acc.registered))
        /\ \A i \in 1..Len(waiting) : waiting[i] \in Rooted(acc.registered)
        /\ \A i \in 1..Len(acc.moved) : acc.moved[i] \in Rooted(acc.registered)}

\* The entries of two lists one after the other.
LEMMA BothIn ==
    ASSUME NEW S, NEW a \in Seq(S), NEW b \in Seq(S), NEW R,
           \A i \in 1..Len(a) : a[i] \in R, \A i \in 1..Len(b) : b[i] \in R
    PROVE  \A i \in 1..Len(a \o b) : (a \o b)[i] \in R
  <1>1. PICK u, m, n : u = a \o b /\ m = Len(a) /\ n = Len(b)
    OBVIOUS
  <1>2. /\ m \in Nat /\ n \in Nat /\ Len(u) = m + n
        /\ \A i \in 1..(m + n) : u[i] = IF i <= m THEN a[i] ELSE b[i - m]
    BY <1>1, ConcatProperties
  <1>3. ASSUME NEW i \in 1..(m + n)
        PROVE  u[i] \in R
    <2>1. CASE i <= m
      <3>1. i \in 1..m /\ u[i] = a[i]
        BY <2>1, <1>2
      <3> QED
        BY <3>1, <1>1
    <2>2. CASE ~(i <= m)
      <3>1. PICK l \in 1..n : l = i - m
        BY <2>2, <1>2
      <3>2. u[i] = b[l]
        BY <2>2, <3>1, <1>2
      <3> QED
        BY <3>2, <1>1
    <2> QED
      BY <2>1, <2>2
  <1> QED
    BY <1>1, <1>2, <1>3

\* Three queues of jobs one after the other.
LEMMA JobsRegrouped ==
    ASSUME NEW w \in Seq(Job), NEW m \in Seq(Job), NEW a \in Seq(Job)
    PROVE  (w \o m) \o a = w \o (m \o a)
  BY ConcatAssociative

LEMMA TakenKeepsApart ==
    ASSUME JobsInv, NEW t, NEW acc \in ApartWakings(t), NEW new, TakenAs(acc, new, t)
    PROVE  new \in ApartWakings(t)
  <1>1. PICK kept \in Seq(FitJobs), moved \in Seq(WaitingAt(t)) :
            Diverging(moved) /\ new = Take(acc, [kept |-> kept, moved |-> moved])
    BY DEF TakenAs
  <1>2. PICK accepted : accepted = Accepted(acc, [kept |-> kept, moved |-> moved])
    OBVIOUS
  <1>3. acc \in Wakings(t)
    BY DEF ApartWakings
  <1>4. /\ accepted \in Seq(WaitingAt(t)) /\ new \in Wakings(t)
        /\ new.moved = acc.moved \o accepted
        /\ new.registered = Register(acc.registered, accepted)
    <2>1. LET woken == [kept |-> kept, moved |-> moved]
              others == Accepted(acc, woken)
              next == Take(acc, woken)
          IN  /\ others \in Seq(WaitingAt(t)) /\ next \in Wakings(t)
              /\ next.kept = acc.kept \o kept /\ next.moved = acc.moved \o others
              /\ next.registered = Register(acc.registered, others)
      BY <1>3, TakeIs
    <2> QED
      BY <2>1, <1>1, <1>2
  <1>5. Diverging(accepted) /\ \A n \in 1..Len(accepted) : Acceptable(acc.registered, accepted[n])
    <2>1. PICK places : places = {i \in 1..Len(moved) : Acceptable(acc.registered, moved[i])}
      OBVIOUS
    <2>2. places \in SUBSET (1..Len(moved))
      BY <2>1
    <2>3. accepted = EntriesAt(moved, places)
      BY <2>1, <1>2 DEF Accepted
    <2>4. /\ \A n \in 1..Len(accepted) : \E i \in places : accepted[n] = moved[i]
          /\ Diverging(moved) => Diverging(accepted)
      BY <2>2, <2>3, ChosenJobs
    <2> QED
      BY <2>1, <2>4, <1>1
  <1>6. WaitingAt(t) \subseteq FitJobs /\ WaitingAt(t) \subseteq Job /\ FitJobs \subseteq Job
    BY DEF WaitingAt, WaitingJobs, FitJobs
  <1>7. /\ acc.moved \in Seq(Job) /\ accepted \in Seq(FitJobs) /\ accepted \in Seq(Job)
        /\ acc.registered \in SUBSET Registrations
    BY <1>3, <1>4, <1>6 DEF Wakings
  <1>8. PICK q, r : q = waiting \o acc.moved /\ r = acc.registered
    OBVIOUS
  <1>9. /\ q \in Seq(Job) /\ Pairwise(q, ApartPairs(r))
        /\ \A i \in 1..Len(waiting) : waiting[i] \in Rooted(r)
        /\ \A i \in 1..Len(acc.moved) : acc.moved[i] \in Rooted(r)
    BY <1>7, <1>8, QueuesAre, ConcatProperties DEF ApartWakings
  <1>10. \A i \in 1..Len(q) : q[i] \in Rooted(r)
    BY <1>7, <1>8, <1>9, QueuesAre, BothIn
  <1>11. PICK more : more = Register(r, accepted)
    OBVIOUS
  <1>12. /\ Pairwise(q \o accepted, ApartPairs(more))
         /\ \A k \in 1..Len(accepted) : accepted[k] \in Rooted(more)
    BY <1>5, <1>7, <1>8, <1>9, <1>10, <1>11, TakenApart
  <1>13. r \subseteq more
    BY <1>7, <1>8, <1>11, RegisterIs
  <1>14. /\ \A i \in 1..Len(waiting) : waiting[i] \in Rooted(more)
         /\ \A i \in 1..Len(acc.moved) : acc.moved[i] \in Rooted(more)
    BY <1>9, <1>13, ApartMore
  <1>15. \A i \in 1..Len(new.moved) : new.moved[i] \in Rooted(more)
    BY <1>4, <1>7, <1>12, <1>14, BothIn
  <1>16. q \o accepted = waiting \o new.moved
    <2>1. PICK w \in Seq(Job), m \in Seq(Job), a \in Seq(Job) :
                   w = waiting /\ m = acc.moved /\ a = accepted
      BY <1>7, QueuesAre
    <2>2. (w \o m) \o a = w \o (m \o a)
      BY JobsRegrouped
    <2> QED
      BY <2>1, <2>2, <1>4, <1>8
  <1> QED
    BY <1>4, <1>8, <1>11, <1>12, <1>14, <1>15, <1>16 DEF ApartWakings

LEMMA AwakenKeepsApart ==
    ASSUME JobsInv, Reuse, HasInstance, NEW j \in FitJobs,
           NEW acc \in ApartWakings(Latest.time)
    PROVE  Awaken(acc, j) \in ApartWakings(Latest.time)
  <1>1. PICK t, new : t = Latest.time /\ new = Awaken(acc, j)
    OBVIOUS
  <1>2. acc \in ApartWakings(t) /\ acc \in Wakings(t)
    BY <1>1 DEF ApartWakings
  <1>3. new \in Wakings(t)
    BY <1>1, <1>2, AwakenKeeps DEF JobsInv, HistoryInv, Instances
  <1>4. CASE TakenAs(acc, new, t)
    BY <1>1, <1>2, <1>4, TakenKeepsApart
  <1>5. ASSUME new.moved = acc.moved, acc.registered \subseteq new.registered
        PROVE  new \in ApartWakings(t)
    <2>1. PICK r, more : r = acc.registered /\ more = new.registered
      OBVIOUS
    <2>2. /\ ApartPairs(r) \subseteq ApartPairs(more) /\ Rooted(r) \subseteq Rooted(more)
          /\ \A q : Pairwise(q, ApartPairs(r)) => Pairwise(q, ApartPairs(more))
      BY <2>1, <1>5, ApartMore
    <2> QED
      BY <2>1, <2>2, <1>2, <1>3, <1>5 DEF ApartWakings
  <1>6. CASE KeptAs(acc, new, j, t)
    <2>1. PICK c \in FitJobs, registers \in SUBSET Registrations :
              /\ new = [acc EXCEPT !.kept = Append(@, c), !.registered = registers]
              /\ registers = acc.registered \/ acc.registered \subseteq registers
      BY <1>6 DEF KeptAs
    <2>2. PICK kept : kept = Append(acc.kept, c)
      OBVIOUS
    <2>3. new = [acc EXCEPT !.kept = kept, !.registered = registers]
      BY <2>1, <2>2, <1>2 DEF Wakings
    <2>4. new.moved = acc.moved /\ new.registered = registers
      BY <2>3, <1>2 DEF Wakings
    <2> QED
      BY <2>1, <2>4, <1>1, <1>5
  <1>7. CASE FailedAs(acc, new)
    <2>1. new.moved = acc.moved /\ new.registered = acc.registered
      BY <1>2, <1>7 DEF FailedAs, Wakings
    <2> QED
      BY <2>1, <1>1, <1>5
  <1>8. KeptAs(acc, new, j, t) \/ TakenAs(acc, new, t) \/ FailedAs(acc, new)
    <2>1. KeptAs(acc, new, j, t) \/ DiscardedAs(acc, new, j, t) \/ TakenAs(acc, new, t)
          \/ FailedAs(acc, new)
      BY <1>1, <1>2, AwakenCases DEF JobsInv, HistoryInv, Instances
    <2> QED
      BY <2>1 DEF DiscardedAs
  <1> QED
    BY <1>1, <1>4, <1>6, <1>7, <1>8

LEMMA AwokenApart ==
    ASSUME JobsInv, PathsInv, Reuse
    PROVE  Awoken \in ApartWakings(Latest.time)
  <1> DEFINE W == ApartWakings(Latest.time)
             S == [n \in 0..Len(sleeping) |-> W]
             start == [kept |-> <<>>, moved |-> <<>>, registered |-> registered, failed |-> FALSE]
  <1>1. Len(sleeping) \in Nat
    BY QueuesAre
  <1>2. start \in W
    <2>1. <<>> \in Seq(FitJobs) /\ <<>> \in Seq(WaitingAt(Latest.time)) /\ Len(<<>>) = 0
      BY EmptyJobs
    <2>2. start \in Wakings(Latest.time)
      BY <2>1 DEF Wakings, JobsInv
    <2>3. waiting \o <<>> = waiting
      BY QueuesAre, ConcatEmptySeq
    <2>4. \A k \in 1..0 : FALSE
      OBVIOUS
    <2> QED
      BY <2>1, <2>2, <2>3, <2>4 DEF ApartWakings, PathsInv
  <1>3. ASSUME NEW n \in 1..Len(sleeping), NEW acc \in W
        PROVE  Awaken(acc, sleeping[n]) \in W
    <2>1. sleeping # <<>> /\ sleeping[n] \in FitJobs
      <3>1. Len(sleeping) # 0
        BY <1>1
      <3>2. sleeping # <<>>
        BY <3>1, EmptySeq
      <3> QED
        BY <3>2 DEF JobsInv
    <2>2. HasInstance
      BY <2>1 DEF JobsInv
    <2> QED
      BY <2>1, <2>2, AwakenKeepsApart
  <1> HIDE DEF W, start
  <1>4. start \in S[0] /\ \A n \in 1..Len(sleeping) : \A acc \in S[n - 1] :
                             Awaken(acc, sleeping[n]) \in S[n]
    <2>1. 0 \in 0..Len(sleeping) /\ \A n \in 1..Len(sleeping) : n \in 0..Len(sleeping)
                                                             /\ n - 1 \in 0..Len(sleeping)
      BY <1>1
    <2> QED
      BY <2>1, <1>2, <1>3
  <1>5. S[Len(sleeping)] = W
    BY <1>1
  <1> HIDE DEF S
  <1>6. Awoken \in S[Len(sleeping)]
    BY <1>1, <1>4, AwokenKeeps DEF start
  <1> QED
    BY <1>5, <1>6 DEF W

-----------------------------------------------------------------------------
(* Awakening without reuse.                                                 *)

\* The n first of the jobs that sleep have been awakened: the one that has always gone
\* on to the first of the next modes is kept, or started again.
LedWakings(t, n) ==
    {acc \in Wakings(t) :
        /\ acc.registered = {} /\ Pairwise(acc.kept, OnePrimary)
        /\ \A i \in 1..Len(acc.kept) : IsPrimary(acc.kept[i].path) =>
              \E l \in 1..n : IsPrimary(sleeping[l].path) /\ sleeping[l].initial <= acc.kept[i].initial
        /\ \/ acc.moved = <<>>
           \/ /\ \A i \in 1..Len(acc.kept) : ~IsPrimary(acc.kept[i].path)
              /\ \E c \in WaitingAt(t) : acc.moved = <<c>> /\ c.path = <<>>
              /\ \E l \in 1..n : IsPrimary(sleeping[l].path) /\ sleeping[l].initial < t}

LEMMA AwakenKeepsLed ==
    ASSUME JobsInv, PathsInv, ~Reuse, HasInstance, NEW n \in 1..Len(sleeping),
           NEW acc \in LedWakings(Latest.time, n - 1)
    PROVE  Awaken(acc, sleeping[n]) \in LedWakings(Latest.time, n)
  <1>1. PICK t, j, new : t = Latest.time /\ j = sleeping[n] /\ new = Awaken(acc, j)
    OBVIOUS
  <1>2. PICK m \in Nat : m = n - 1
    BY QueuesAre
  <1>3. /\ j \in FitJobs /\ j \in Job /\ acc \in LedWakings(t, m) /\ acc \in Wakings(t)
        /\ n \in 1..n /\ 1..m \subseteq 1..n /\ \A l \in 1..m : l # n /\ l \in 1..Len(sleeping)
    <2>1. Len(sleeping) \in Nat /\ n \in Nat /\ n <= Len(sleeping) /\ 1 <= n
      BY QueuesAre
    <2>2. n \in 1..n /\ 1..m \subseteq 1..n /\ \A l \in 1..m : l # n /\ l \in 1..Len(sleeping)
      BY <2>1, <1>2
    <2>3. j \in FitJobs /\ j \in Job
      BY <1>1 DEF JobsInv, FitJobs
    <2> QED
      BY <2>2, <2>3, <1>1, <1>2 DEF LedWakings
  <1>4. new \in Wakings(t)
    BY <1>1, <1>3, AwakenKeeps DEF JobsInv, HistoryInv, Instances
  <1>5. /\ acc.kept \in Seq(FitJobs) /\ acc.moved \in Seq(WaitingAt(t)) /\ acc.registered = {}
        /\ Pairwise(acc.kept, OnePrimary)
        /\ \A i \in 1..Len(acc.kept) : IsPrimary(acc.kept[i].path) =>
              \E l \in 1..m : IsPrimary(sleeping[l].path) /\ sleeping[l].initial <= acc.kept[i].initial
        /\ \/ acc.moved = <<>>
           \/ /\ \A i \in 1..Len(acc.kept) : ~IsPrimary(acc.kept[i].path)
              /\ \E c \in WaitingAt(t) : acc.moved = <<c>> /\ c.path = <<>>
              /\ \E l \in 1..m : IsPrimary(sleeping[l].path) /\ sleeping[l].initial < t
    BY <1>3 DEF LedWakings, Wakings
  <1>6. IsPrimary(j.path) => \A l \in 1..m : ~IsPrimary(sleeping[l].path)
    <2> SUFFICES ASSUME IsPrimary(j.path), NEW l \in 1..m PROVE ~IsPrimary(sleeping[l].path)
      OBVIOUS
    <2>1. <<sleeping[l], j>> \in OnePrimary
      BY <1>1, <1>3 DEF PathsInv, Pairwise
    <2>2. sleeping[l] \in Job
      BY <1>3, QueuesAre
    <2> QED
      BY <2>1, <2>2, <1>3, PairsIn
  <1>7. IsPrimary(j.path) =>
            acc.moved = <<>> /\ \A i \in 1..Len(acc.kept) : ~IsPrimary(acc.kept[i].path)
    BY <1>5, <1>6
  <1>8. ASSUME ~IsPrimary(j.path), new.kept = acc.kept, new.moved = acc.moved, new.registered = {}
        PROVE  new \in LedWakings(t, n)
    <2>1. \A i \in 1..Len(acc.kept) : IsPrimary(acc.kept[i].path) =>
              \E l \in 1..n : IsPrimary(sleeping[l].path) /\ sleeping[l].initial <= acc.kept[i].initial
      BY <1>3, <1>5
    <2>2. \/ acc.moved = <<>>
          \/ /\ \A i \in 1..Len(acc.kept) : ~IsPrimary(acc.kept[i].path)
             /\ \E c \in WaitingAt(t) : acc.moved = <<c>> /\ c.path = <<>>
             /\ \E l \in 1..n : IsPrimary(sleeping[l].path) /\ sleeping[l].initial < t
      BY <1>3, <1>5
    <2> QED
      BY <2>1, <2>2, <1>4, <1>5, <1>8 DEF LedWakings
  <1>9. CASE KeptAs(acc, new, j, t)
    <2>1. PICK c \in FitJobs, registers \in SUBSET Registrations :
              /\ new = [acc EXCEPT !.kept = Append(@, c), !.registered = registers]
              /\ c.path = j.path /\ (c.initial = j.initial \/ (c.initial = t /\ j.initial < t))
              /\ registers = acc.registered
      BY <1>9 DEF KeptAs
    <2>2. PICK kept : kept = Append(acc.kept, c)
      OBVIOUS
    <2>3. new = [acc EXCEPT !.kept = kept, !.registered = registers]
      BY <2>1, <2>2, <1>3 DEF Wakings
    <2>4. new.kept = kept /\ new.moved = acc.moved /\ new.registered = {}
      BY <2>1, <2>3, <1>3, <1>5 DEF Wakings
    <2>5. /\ kept \in Seq(FitJobs) /\ Len(kept) = Len(acc.kept) + 1 /\ Len(acc.kept) \in Nat
          /\ kept[Len(acc.kept) + 1] = c /\ \A i \in 1..Len(acc.kept) : kept[i] = acc.kept[i]
      BY <2>2, <1>5
    <2>6. \A i \in 1..Len(kept) : i \in 1..Len(acc.kept) \/ i = Len(acc.kept) + 1
      BY <2>5
    <2>7. FitJobs \subseteq Job
      BY DEF FitJobs
    <2>8. Pairwise(kept, OnePrimary)
      <3>1. acc.kept \in Seq(Job) /\ c \in Job
        BY <2>7, <1>5
      <3>2. \A i \in 1..Len(acc.kept) : ~(IsPrimary(acc.kept[i].path) /\ IsPrimary(c.path))
        BY <2>1, <1>7
      <3>3. \A i \in 1..Len(acc.kept) : <<acc.kept[i], c>> \in OnePrimary /\ <<c, acc.kept[i]>> \in OnePrimary
        <4> TAKE i \in 1..Len(acc.kept)
        <4>1. acc.kept[i] \in Job
          BY <3>1
        <4> QED
          BY <4>1, <3>1, <3>2, PairsIn
      <3> QED
        BY <3>1, <3>3, <2>2, <1>5, PairwiseAppend
    <2>9. j.initial <= c.initial
      <3>1. j.initial \in Nat /\ c.initial \in Nat
        BY <2>7, <1>3, JobFields
      <3>2. c.initial = j.initial \/ j.initial < c.initial
        BY <2>1
      <3> QED
        BY <3>1, <3>2
    <2>10. \A i \in 1..Len(kept) : IsPrimary(kept[i].path) =>
               \E l \in 1..n : IsPrimary(sleeping[l].path) /\ sleeping[l].initial <= kept[i].initial
      <3>1. \A i \in 1..Len(acc.kept) : IsPrimary(kept[i].path) =>
                \E l \in 1..n : IsPrimary(sleeping[l].path) /\ sleeping[l].initial <= kept[i].initial
        BY <2>5, <1>3, <1>5
      <3>2. IsPrimary(c.path) => IsPrimary(sleeping[n].path) /\ sleeping[n].initial <= c.initial
        BY <2>1, <2>9, <1>1
      <3> QED
        BY <3>1, <3>2, <2>5, <2>6, <1>3
    <2>11. \/ acc.moved = <<>>
           \/ /\ \A i \in 1..Len(kept) : ~IsPrimary(kept[i].path)
              /\ \E b \in WaitingAt(t) : acc.moved = <<b>> /\ b.path = <<>>
              /\ \E l \in 1..n : IsPrimary(sleeping[l].path) /\ sleeping[l].initial < t
      <3> SUFFICES ASSUME acc.moved # <<>>
                   PROVE  /\ \A i \in 1..Len(kept) : ~IsPrimary(kept[i].path)
                          /\ \E b \in WaitingAt(t) : acc.moved = <<b>> /\ b.path = <<>>
                          /\ \E l \in 1..n : IsPrimary(sleeping[l].path) /\ sleeping[l].initial < t
        OBVIOUS
      <3>1. ~IsPrimary(c.path)
        BY <2>1, <1>7
      <3>2. \A i \in 1..Len(acc.kept) : ~IsPrimary(acc.kept[i].path)
        BY <1>5
      <3>3. \A i \in 1..Len(kept) : ~IsPrimary(kept[i].path)
        BY <3>1, <3>2, <2>5, <2>6
      <3>4. /\ \E b \in WaitingAt(t) : acc.moved = <<b>> /\ b.path = <<>>
            /\ \E l \in 1..n : IsPrimary(sleeping[l].path) /\ sleeping[l].initial < t
        BY <1>3, <1>5
      <3> QED
        BY <3>3, <3>4
    <2> QED
      BY <2>4, <2>8, <2>10, <2>11, <1>1, <1>4 DEF LedWakings
  <1>10. CASE DiscardedAs(acc, new, j, t)
    <2>1. CASE ~IsPrimary(j.path)
      <3>1. new = acc
        BY <2>1, <1>10 DEF DiscardedAs
      <3> QED
        BY <3>1, <2>1, <1>1, <1>5, <1>8
    <2>2. CASE IsPrimary(j.path)
      <3>1. PICK c \in WaitingAt(t) : c.path = <<>> /\ new = [acc EXCEPT !.moved = Append(@, c)]
        BY <2>2, <1>10 DEF DiscardedAs
      <3>2. new = [acc EXCEPT !.moved = Append(<<>>, c)]
        BY <3>1, <2>2, <1>3, <1>7 DEF Wakings
      <3>3. Append(<<>>, c) = <<c>>
        OBVIOUS
      <3>4. new.kept = acc.kept /\ new.moved = <<c>> /\ new.registered = {}
        BY <3>2, <3>3, <1>3, <1>5 DEF Wakings
      <3>5. \A i \in 1..Len(acc.kept) : ~IsPrimary(acc.kept[i].path)
        BY <2>2, <1>7
      <3>6. IsPrimary(sleeping[n].path) /\ sleeping[n].initial < t
        BY <2>2, <1>1, <1>10 DEF DiscardedAs
      <3> QED
        BY <3>1, <3>4, <3>5, <3>6, <1>1, <1>3, <1>4, <1>5 DEF LedWakings
    <2> QED
      BY <2>1, <2>2
  <1>11. KeptAs(acc, new, j, t) \/ DiscardedAs(acc, new, j, t)
    <2>1. KeptAs(acc, new, j, t) \/ DiscardedAs(acc, new, j, t) \/ TakenAs(acc, new, t)
          \/ FailedAs(acc, new)
      BY <1>1, <1>3, AwakenCases DEF JobsInv, HistoryInv, Instances
    <2> QED
      BY <2>1 DEF TakenAs, FailedAs
  <1> QED
    BY <1>1, <1>9, <1>10, <1>11

LEMMA AwokenLed ==
    ASSUME JobsInv, PathsInv, ~Reuse
    PROVE  Awoken \in LedWakings(Latest.time, Len(sleeping))
  <1> DEFINE S == [n \in 0..Len(sleeping) |-> LedWakings(Latest.time, n)]
             start == [kept |-> <<>>, moved |-> <<>>, registered |-> registered, failed |-> FALSE]
  <1>1. Len(sleeping) \in Nat
    BY QueuesAre
  <1>2. start \in LedWakings(Latest.time, 0)
    <2>1. <<>> \in Seq(FitJobs) /\ <<>> \in Seq(WaitingAt(Latest.time)) /\ Len(<<>>) = 0
      BY EmptyJobs
    <2>2. start \in Wakings(Latest.time)
      BY <2>1 DEF Wakings, JobsInv
    <2>3. registered = {} /\ Pairwise(<<>>, OnePrimary)
      BY PairwiseFew DEF PathsInv
    <2>4. \A k \in 1..0 : FALSE
      OBVIOUS
    <2> QED
      BY <2>1, <2>2, <2>3, <2>4 DEF LedWakings
  <1>3. ASSUME NEW n \in 1..Len(sleeping), NEW acc \in LedWakings(Latest.time, n - 1)
        PROVE  Awaken(acc, sleeping[n]) \in LedWakings(Latest.time, n)
    <2>1. Len(sleeping) # 0
      BY <1>1
    <2>2. HasInstance
      BY <2>1, EmptySeq DEF JobsInv
    <2> QED
      BY <2>2, AwakenKeepsLed
  <1> HIDE DEF start
  <1>4. start \in S[0] /\ \A n \in 1..Len(sleeping) : \A acc \in S[n - 1] :
                             Awaken(acc, sleeping[n]) \in S[n]
    <2>1. 0 \in 0..Len(sleeping) /\ \A n \in 1..Len(sleeping) : n \in 0..Len(sleeping)
                                                             /\ n - 1 \in 0..Len(sleeping)
      BY <1>1
    <2> QED
      BY <2>1, <1>2, <1>3
  <1>5. S[Len(sleeping)] = LedWakings(Latest.time, Len(sleeping))
    BY <1>1
  <1> HIDE DEF S
  <1>6. Awoken \in S[Len(sleeping)]
    BY <1>1, <1>4, AwokenKeeps DEF start
  <1> QED
    BY <1>5, <1>6

LEMMA HandledKeepsPaths ==
    ASSUME JobsInv, PathsInv, NEW woken, woken = Awoken, Handled(woken),
           UNCHANGED <<factory, instances>>
    PROVE  PathsInv'
  <1>1. (Reuse' <=> Reuse) /\ pending' = pending
    BY DEF Reuse, Handled
  <1>2. woken \in Wakings(Latest.time)
    BY AwokenFits DEF JobsInv, HistoryInv, Instances
  <1>3. WaitingAt(Latest.time) \subseteq Job /\ FitJobs \subseteq Job
    BY DEF WaitingAt, WaitingJobs, FitJobs
  <1>4. woken.moved \in Seq(Job) /\ woken.kept \in Seq(Job)
    BY <1>2, <1>3 DEF Wakings
  <1>5. PICK all : all = waiting \o woken.moved
    OBVIOUS
  <1>6. waiting' = all /\ sleeping' = woken.kept /\ all \in Seq(Job)
    BY <1>4, <1>5, QueuesAre, ConcatProperties DEF Handled
  <1>7. pending' => waiting' = <<>> /\ sleeping' = <<>> /\ registered' = {}
    <2> SUFFICES ASSUME pending
                 PROVE  waiting' = <<>> /\ sleeping' = <<>> /\ registered' = {}
      BY <1>1
    <2>1. waiting = <<>> /\ sleeping = <<>> /\ registered = {}
      BY DEF PathsInv
    <2>2. woken.moved = <<>> /\ woken.kept = <<>> /\ woken.registered = {}
      BY <2>1, AwokenNone
    <2>3. all = <<>>
      BY <2>1, <2>2, <1>5, QueuesAre, ConcatEmptySeq
    <2> QED
      BY <2>1, <2>2, <2>3, <1>6 DEF Handled
  <1>8. CASE Reuse
    <2>1. woken \in ApartWakings(Latest.time) /\ registered' = woken.registered
      BY <1>8, AwokenApart DEF Handled
    <2>2. /\ Pairwise(all, ApartPairs(registered'))
          /\ \A i \in 1..Len(waiting) : waiting[i] \in Rooted(registered')
          /\ \A i \in 1..Len(woken.moved) : woken.moved[i] \in Rooted(registered')
      BY <2>1, <1>5 DEF ApartWakings
    <2>3. \A i \in 1..Len(all) : all[i] \in Rooted(registered')
      BY <2>2, <1>4, <1>5, QueuesAre, BothIn
    <2> QED
      BY <2>2, <2>3, <1>1, <1>6, <1>7, <1>8 DEF PathsInv
  <1>9. CASE ~Reuse
    <2>1. PICK t : t = Latest.time
      OBVIOUS
    <2>2. woken \in LedWakings(t, Len(sleeping)) /\ registered' = registered
      BY <2>1, <1>9, AwokenLed DEF Handled
    <2>3. /\ registered = {} /\ Pairwise(waiting, Leading) /\ Pairwise(waiting, ApartPairs({}))
          /\ \A i \in 1..Len(sleeping) : \A k \in 1..Len(waiting) :
                <<sleeping[i], waiting[k]>> \in Leading
      BY <1>9 DEF PathsInv
    <2>4. ASSUME NEW l \in 1..Len(sleeping), IsPrimary(sleeping[l].path), NEW k \in 1..Len(waiting)
          PROVE  ~IsPrimary(waiting[k].path) /\ waiting[k].initial <= sleeping[l].initial
      <3>1. sleeping[l] \in Job /\ waiting[k] \in Job
        BY QueuesAre
      <3>2. Leads(sleeping[l], waiting[k])
        BY <3>1, <2>3, PairsIn
      <3> QED
        BY <3>2, <2>4 DEF Leads
    <2>5. /\ Pairwise(woken.kept, OnePrimary)
          /\ \A i \in 1..Len(woken.kept) : IsPrimary(woken.kept[i].path) =>
                \E l \in 1..Len(sleeping) : /\ IsPrimary(sleeping[l].path)
                                            /\ sleeping[l].initial <= woken.kept[i].initial
          /\ \/ woken.moved = <<>>
             \/ /\ \A i \in 1..Len(woken.kept) : ~IsPrimary(woken.kept[i].path)
                /\ \E c \in WaitingAt(t) : woken.moved = <<c>> /\ c.path = <<>>
                /\ \E l \in 1..Len(sleeping) : IsPrimary(sleeping[l].path) /\ sleeping[l].initial < t
      BY <2>2 DEF LedWakings
    <2>6. ASSUME NEW i \in 1..Len(woken.kept), NEW k \in 1..Len(waiting)
          PROVE  <<woken.kept[i], waiting[k]>> \in Leading
      <3>1. PICK a \in Job, b \in Job : a = woken.kept[i] /\ b = waiting[k]
        BY <1>4, QueuesAre
      <3>2. ASSUME IsPrimary(a.path)
            PROVE  ~IsPrimary(b.path) /\ b.initial <= a.initial
        <4>1. PICK l \in 1..Len(sleeping) : IsPrimary(sleeping[l].path) /\ sleeping[l].initial <= a.initial
          BY <3>1, <3>2, <2>5
        <4>2. ~IsPrimary(b.path) /\ b.initial <= sleeping[l].initial
          BY <4>1, <3>1, <2>4
        <4>3. sleeping[l].initial \in Nat /\ a.initial \in Nat /\ b.initial \in Nat
          BY QueuesAre, JobFields
        <4>4. PICK x \in Nat, y \in Nat, z \in Nat : x = sleeping[l].initial /\ y = a.initial /\ z = b.initial
          BY <4>3
        <4>5. z <= x /\ x <= y => z <= y
          OBVIOUS
        <4> QED
          BY <4>1, <4>2, <4>4, <4>5
      <3> QED
        BY <3>1, <3>2, PairsIn DEF Leads
    <2>7. CASE woken.moved = <<>>
      <3>1. all = waiting
        BY <2>7, <1>5, QueuesAre, ConcatEmptySeq
      <3> QED
        BY <3>1, <2>2, <2>3, <2>5, <2>6, <1>1, <1>6, <1>7, <1>9 DEF PathsInv
    <2>8. CASE woken.moved # <<>>
      <3>1. PICK c \in WaitingAt(t), l \in 1..Len(sleeping) :
                /\ woken.moved = <<c>> /\ c.path = <<>>
                /\ IsPrimary(sleeping[l].path) /\ sleeping[l].initial < t
        BY <2>5, <2>8
      <3>2. c \in Job /\ c.initial = t /\ t \in Nat
        <4>1. c \in Job /\ c.initial = t
          BY <2>1, <1>3 DEF WaitingAt
        <4> QED
          BY <4>1, JobFields
      <3>3. ASSUME NEW k \in 1..Len(waiting)
            PROVE  LET b == waiting[k]
                   IN  b \in Job /\ ~IsPrimary(b.path) /\ b.initial < t
        <4>1. PICK b \in Job : b = waiting[k]
          BY QueuesAre
        <4>2. ~IsPrimary(b.path) /\ b.initial <= sleeping[l].initial
          BY <4>1, <3>1, <2>4
        <4>3. sleeping[l].initial \in Nat /\ b.initial \in Nat
          BY QueuesAre, JobFields
        <4>4. PICK x \in Nat, z \in Nat : x = sleeping[l].initial /\ z = b.initial
          BY <4>3
        <4>5. z <= x /\ x < t => z < t
          BY <3>2
        <4> QED
          BY <4>1, <4>2, <4>4, <4>5, <3>1
      <3>4. ASSUME NEW k \in 1..Len(waiting)
            PROVE  /\ <<waiting[k], c>> \in Leading /\ <<c, waiting[k]>> \in Leading
                   /\ <<waiting[k], c>> \in ApartPairs({}) /\ <<c, waiting[k]>> \in ApartPairs({})
        <4>1. PICK b \in Job : b = waiting[k]
          BY QueuesAre
        <4>2. ~IsPrimary(b.path) /\ b.initial < t /\ b.initial \in Nat
          BY <4>1, <3>3, JobFields
        <4>3. b.initial <= c.initial /\ b.initial # c.initial
          <5>1. PICK z \in Nat : z = b.initial
            BY <4>2
          <5>2. z < t => z <= t /\ z # t
            BY <3>2
          <5> QED
            BY <5>1, <5>2, <4>2, <3>2
        <4>4. Leads(b, c) /\ Leads(c, b) /\ ApartFrom(b, c, {}) /\ ApartFrom(c, b, {})
          BY <4>2, <4>3 DEF Leads, ApartFrom
        <4> QED
          BY <4>1, <4>4, <3>2, PairsIn
      <3>5. all = Append(waiting, c)
        <4>1. waiting \o <<c>> = Append(waiting, c)
          BY QueuesAre
        <4> QED
          BY <4>1, <3>1, <1>5
      <3>6. Pairwise(all, Leading) /\ Pairwise(all, ApartPairs({}))
        BY <3>2, <3>4, <3>5, <2>3, QueuesAre, PairwiseAppend
      <3>7. /\ Len(all) = Len(waiting) + 1 /\ Len(waiting) \in Nat /\ all[Len(waiting) + 1] = c
            /\ \A k \in 1..Len(waiting) : all[k] = waiting[k]
        BY <3>2, <3>5, QueuesAre
      <3>8. \A k \in 1..Len(all) : k \in 1..Len(waiting) \/ k = Len(waiting) + 1
        BY <3>7
      <3>9. \A i \in 1..Len(woken.kept) : <<woken.kept[i], c>> \in Leading
        <4> TAKE i \in 1..Len(woken.kept)
        <4>1. woken.kept[i] \in Job /\ ~IsPrimary(woken.kept[i].path)
          BY <2>5, <2>8, <1>4
        <4>2. Leads(woken.kept[i], c)
          BY <4>1 DEF Leads
        <4> QED
          BY <4>1, <4>2, <3>2, PairsIn
      <3>10. \A i \in 1..Len(woken.kept) : \A k \in 1..Len(all) : <<woken.kept[i], all[k]>> \in Leading
        BY <3>7, <3>8, <3>9, <2>6
      <3> QED
        BY <3>6, <3>10, <2>2, <2>3, <2>5, <1>1, <1>6, <1>7, <1>9 DEF PathsInv
    <2> QED
      BY <2>7, <2>8
  <1> QED
    BY <1>8, <1>9

LEMMA PromotedKeepsPaths ==
    ASSUME JobsInv, PathsInv, NEW woken, woken = Awoken, NEW c, PromotedWith(woken, c),
           UNCHANGED <<factory, instances>>
    PROVE  PathsInv'
  <1>1. /\ (Reuse' <=> Reuse) /\ ~pending' /\ c \in Job
        /\ waiting = <<>> /\ sleeping = <<>> /\ registered = {}
    BY DEF Reuse, PromotedWith, PathsInv, FitJobs
  <1>2. woken.kept = <<>> /\ woken.moved = <<>> /\ woken.registered = {}
    BY <1>1, AwokenNone
  <1>3. PICK one : one = <<c>>
    OBVIOUS
  <1>4. /\ one \in Seq(Job) /\ Len(one) = 1 /\ one[1] = c /\ <<>> \in Seq(Job) /\ Len(<<>>) = 0
        /\ (<<>>) \o (<<>>) = <<>> /\ (<<>>) \o one = one
    BY <1>1, <1>3, EmptySeq, ConcatEmptySeq
  <1>5. \/ waiting' = one /\ sleeping' = <<>>
        \/ waiting' = <<>> /\ sleeping' = one
    BY <1>1, <1>2, <1>3, <1>4 DEF PromotedWith
  <1>6. registered' = IF Reuse THEN {<<c.initial, Route(c)>>} ELSE {}
    BY <1>1, <1>2 DEF PromotedWith, Route
  <1>7. (\A k \in 1..1 : k = 1) /\ \A k \in 1..0 : FALSE
    OBVIOUS
  <1>8. \A R : Pairwise(waiting', R) /\ Pairwise(sleeping', R)
    BY <1>3, <1>5, PairwiseFew
  <1>9. Reuse => \A i \in 1..Len(waiting') : waiting'[i] \in Rooted(registered')
    <2>1. Route(c) \in Prefixes(Route(c))
      BY <1>1, RouteIs, PrefixOrder
    <2>2. Reuse => c \in Rooted(registered')
      BY <2>1, <1>1, <1>6 DEF Rooted
    <2>3. CASE waiting' = one
      BY <2>2, <2>3, <1>4, <1>7
    <2>4. CASE waiting' = <<>>
      BY <2>4, <1>4, <1>7
    <2> QED
      BY <2>3, <2>4, <1>5
  <1>10. \A i \in 1..Len(sleeping') : \A k \in 1..Len(waiting') : FALSE
    BY <1>4, <1>5, <1>7
  <1> QED
    BY <1>1, <1>6, <1>8, <1>9, <1>10 DEF PathsInv

LEMMA PathsStep == JobsInv /\ PathsInv /\ [Next]_vars => PathsInv'
  <1> SUFFICES ASSUME JobsInv, PathsInv, [Next]_vars PROVE PathsInv'
    OBVIOUS
  <1>1. ASSUME UNCHANGED <<factory, pending, waiting, sleeping, registered>>
        PROVE  PathsInv'
    BY <1>1 DEF PathsInv, Reuse
  <1>2. CASE RobotState
    BY <1>1, <1>2 DEF RobotState, jobVars
  <1>3. CASE HumanState
    BY <1>1, <1>3 DEF HumanState, jobVars
  <1>4. CASE Process
    <2>1. /\ UNCHANGED <<factory, pending, registered>>
          /\ \/ waiting' = waiting /\ sleeping' = sleeping
             \/ \E k \in 1..Len(waiting) : \E c : Sleeps(k, c)
             \/ \E k \in 1..Len(waiting) : \E next : GoesOn(k, next)
      BY <1>4, ProcessCases
    <2> QED
      BY <2>1, <1>1, SleepsKeepsPaths, GoesOnKeepsPaths
  <1>5. CASE Handle
    <2>1. PICK woken : woken = Awoken
      OBVIOUS
    <2>2. /\ UNCHANGED <<factory, instances>>
          /\ Handled(woken) \/ \E c : PromotedWith(woken, c)
      BY <2>1, <1>5, HandleCases
    <2> QED
      BY <2>1, <2>2, HandledKeepsPaths, PromotedKeepsPaths
  <1>6. CASE UNCHANGED vars
    BY <1>1, <1>6 DEF vars, jobVars
  <1> QED
    BY <1>2, <1>3, <1>4, <1>5, <1>6 DEF Next

\* A job's path tells where its trace has branched, at positions that increase and are
\* those of its trace, so that adding to it never fails its assertions
\* (lookahead_job.cpp:40-42), and no two jobs of a time that wait have the same path,
\* whoever has been awakened or has branched meanwhile (lookahead_job_registry.hpp:103-105).
THEOREM PathsMatchTracesHolds == Spec => []PathsMatchTraces
  <1>1. Init => PathsInv
    <2> SUFFICES ASSUME Init PROVE PathsInv
      OBVIOUS
    <2>1. Len(<<>>) = 0 /\ \A k \in 1..0 : FALSE
      BY EmptySeq
    <2> QED
      BY <2>1, PairwiseFew DEF Init, PathsInv
  <1>2. JobsInv /\ PathsInv => PathsMatchTraces
    <2> SUFFICES ASSUME JobsInv, PathsInv PROVE PathsMatchTraces
      OBVIOUS
    <2>1. \A j \in ToSet(waiting \o sleeping) : \A k \in 1..Len(j.path) :
             /\ j.path[k].position \in 1..Position(j)
             /\ k > 1 => j.path[k - 1].position < j.path[k].position
      <3> TAKE j \in ToSet(waiting \o sleeping)
      <3>1. j \in FitJobs /\ j \in Job
        BY QueuedJobs DEF FitJobs
      <3>2. PathFits(j.path, Position(j)) /\ Len(j.path) \in Nat
        BY <3>1, JobFields DEF FitJobs
      <3>3. \A k \in 1..Len(j.path) : k > 1 => k - 1 \in 1..Len(j.path) /\ k - 1 < k
        BY <3>2
      <3> QED
        BY <3>2, <3>3 DEF PathFits
    <2>2. \A i, k \in 1..Len(waiting) :
             waiting[i].initial = waiting[k].initial
                 /\ Priorities(waiting[i].path) = Priorities(waiting[k].path) => i = k
      <3>1. Pairwise(waiting, ApartPairs(registered)) /\ waiting \in Seq(Job)
        BY QueuesAre DEF PathsInv
      <3> QED
        BY <3>1, ApartRoutes DEF Route
    <2> QED
      BY <2>1, <2>2 DEF PathsMatchTraces
  <1> QED
    BY <1>1, <1>2, PathsStep, JobsInvariance, PTL DEF Spec

-----------------------------------------------------------------------------
(***************************************************************************)
(* What the histories guarantee to a job while nothing is purged.  The first *)
(* presence of a history is of no mode (state.cpp:262-265), so that nothing  *)
(* has been purged exactly as long as the first one is.                     *)
(***************************************************************************)
Unpurged == presences # <<>> /\ Head(presences).mode = NoMode

\* The presences stay, and one may be added, which ends now.
Prolonged ==
    /\ \A k \in 1..Len(presences) : presences'[k] = presences[k]
    /\ \/ Len(presences') = Len(presences)
       \/ /\ Len(presences') = Len(presences) + 1
          /\ presences'[Len(presences) + 1].from = Last(presences).to
          /\ presences'[Len(presences) + 1].to = latestTime'

\* A state that is acquired prolongs the presences, if it has purged nothing.
LEMMA AcquireProlongs ==
    ASSUME HistoryInv, latestMode # NoMode, NEW m \in Modes, NEW p \in Points,
           NEW t \in 0..MaxTime, latestTime <= t, Acquire(m, p, t), Unpurged'
    PROVE  /\ ~failure /\ Seen /\ ~failure' /\ latestTime' = t /\ Prolonged /\ Unpurged
           /\ Head(presences') = Head(presences)
  <1> DEFINE e == Entered(m, t)
             ps == e.presences
  <1>1. /\ HistoryTypeOK /\ ~failure /\ Seen /\ t \in Nat /\ presences \in Seq(Presence)
        /\ Len(presences) \in Nat /\ presences # <<>> /\ latestMode \in Modes
    <2>1. HistoryTypeOK /\ ~failure /\ Seen /\ t \in Nat
      BY TimesAssumption DEF HistoryInv, Acquire, Fresh
    <2> QED
      BY <2>1, Times, PresencesAre DEF Seen, Linked
  <1>2. /\ ps \in Seq(Presence) /\ Linked(ps, m, t)
        /\ e.traces \in Seq(TraceEntry) /\ Follow(e.traces, ps)
    <2> HIDE DEF e
    <2> QED
      BY <1>1, EnteredPresences, EnteredTraces DEF e
  <1>3. latestTime' = t /\ Purge(t, ps, e.traces)
    BY DEF Acquire
  <1>4. ps = IF m = latestMode THEN presences ELSE Append(presences, PresenceLeft(m, t))
    BY DEF Entered
  <1> HIDE DEF e
  <1>5. presences' # <<>> /\ presences'[1].mode = NoMode
    BY DEF Unpurged
  <1>6. ~failure'
    BY <1>2, <1>3, <1>5, PurgeKeeps
  <1>7. PICK a \in 1..Len(ps) : presences' = SubSeq(ps, a, Len(ps))
    BY <1>2, <1>3, <1>6, PurgeKeeps
  <1>8. a = 1 /\ presences' = ps
    <2>1. Len(ps) \in Nat /\ 1 \in 1..(Len(ps) - a + 1) /\ a - 1 + 1 = a
      BY <1>2, PresencesAre
    <2>2. presences'[1] = ps[a]
      BY <2>1, <1>2, <1>7, Suffix
    <2>3. a = 1
      BY <2>2, <1>2, <1>5 DEF Linked
    <2> QED
      BY <2>3, <1>2, <1>7, Suffix
  <1>9. CASE m = latestMode
    BY <1>1, <1>3, <1>4, <1>5, <1>6, <1>8, <1>9 DEF Prolonged, Unpurged
  <1>10. CASE m # latestMode
    <2> DEFINE q == PresenceLeft(m, t)
               R == Presence \cup {q}
    <2>1. q.from = Last(presences).to /\ q.to = t
      BY <1>1 DEF PresenceLeft
    <2>2. presences \in Seq(R) /\ q \in R /\ presences' = Append(presences, q)
      BY <1>1, <1>4, <1>8, <1>10
    <2> HIDE DEF q, R
    <2>3. /\ Len(presences') = Len(presences) + 1 /\ presences'[Len(presences) + 1] = q
          /\ \A k \in 1..Len(presences) : presences'[k] = presences[k]
      BY <2>2
    <2>4. 1 \in 1..Len(presences) /\ presences'[1] = presences[1]
      BY <2>3, <1>1
    <2> QED
      BY <2>1, <2>3, <2>4, <1>1, <1>3, <1>5, <1>6 DEF Prolonged, Unpurged
  <1> QED
    BY <1>9, <1>10

\* The last one of the presences that hold t in a mode.
Holders(ps, m, t) == {i \in 1..Len(ps) : HoldsPresence(ps[i], m, t)}

LEMMA LastHolder ==
    ASSUME NEW ps, Len(ps) \in Nat, NEW m, NEW t, Holders(ps, m, t) # {}
    PROVE  /\ Max(Holders(ps, m, t)) \in 1..Len(ps)
           /\ HoldsPresence(ps[Max(Holders(ps, m, t))], m, t)
  <1>1. Holders(ps, m, t) \subseteq 1..Len(ps)
    BY DEF Holders
  <1>2. Max(Holders(ps, m, t)) \in Holders(ps, m, t)
    BY <1>1, MaxIs
  <1> QED
    BY <1>2 DEF Holders

LEMMA DivideGrows ==
    ASSUME NEW a \in Nat, NEW b \in Nat, a <= b
    PROVE  a \div Step \in Nat /\ b \div Step \in Nat /\ a \div Step <= b \div Step
  <1> DEFINE n == b \div Step
  <1>1. /\ n \in Nat /\ b < Step * n + Step /\ a \div Step \in Nat /\ n + 1 \in Nat
        /\ Step \in Nat
    BY Divides, TimesAssumption
  <1>2. Step * (n + 1) = Step * n + Step
    <2> HIDE DEF n
    <2> QED
      BY <1>1, Z3
  <1>3. \A c \in Nat : c = Step * n + Step => a < c
    BY <1>1
  <1>4. a < Step * (n + 1)
    <2>1. Step * (n + 1) \in Nat
      <3> HIDE DEF n
      <3> QED
        BY <1>1
    <2> HIDE DEF n
    <2> QED
      BY <2>1, <1>2, <1>3
  <1> HIDE DEF n
  <1>5. a \div Step < n + 1
    BY <1>1, <1>4, DivideBounds
  <1> QED
    BY <1>1, <1>5 DEF n

\* A time that the mode is found to be held at later was so before, for as long or longer.
LEMMA EntryProlonged ==
    ASSUME HistoryInv, Seen, Prolonged, latestTime' \in Nat, latestTime <= latestTime',
           NEW t \in Nat, t <= latestTime, NEW m, HasEntry(m, t)'
    PROVE  /\ HasEntry(m, t) /\ SampleIndex(m, t) \in Nat /\ SampleIndex(m, t)' \in Nat
           /\ SampleIndex(m, t)' <= SampleIndex(m, t)
  <1> DEFINE n == Len(presences)
  <1>1. /\ HistoryTypeOK /\ n \in Nat /\ n >= 1 /\ n \in 1..n /\ Last(presences) = presences[n]
        /\ \A k \in 1..n : /\ presences[k].from \in Nat /\ presences[k].to \in Nat
                           /\ presences[k].to <= presences[n].to
                           /\ presences'[k] = presences[k]
        /\ presences[n].to <= latestTime /\ latestTime \in Nat
    <2>1. HistoryTypeOK /\ presences \in Seq(Presence) /\ latestTime \in Nat
      BY Times DEF HistoryInv
    <2>2. /\ n > 0 /\ n \in 1..n /\ Last(presences) = presences[n]
          /\ Last(presences).to <= latestTime
      BY <2>1, LastPresence
    <2> QED
      BY <2>1, <2>2, PresencesAre DEF Seen, Linked, Prolonged
  <1>2. /\ Len(presences') \in Nat /\ Last(presences') = presences'[Len(presences')]
        /\ \/ Len(presences') = n
           \/ /\ Len(presences') = n + 1 /\ presences'[n + 1].from = presences[n].to
              /\ presences'[n + 1].to = latestTime'
    BY <1>1 DEF Prolonged, Last
  <1>3. /\ EntryTime(m, t) = IF t >= Last(presences).to THEN Last(presences).to
                             ELSE presences[IF Holders(presences, m, t) # {}
                                            THEN Max(Holders(presences, m, t)) ELSE 0].from
        /\ EntryTime(m, t)' = IF t >= Last(presences').to THEN Last(presences').to
                              ELSE presences'[IF Holders(presences', m, t) # {}
                                              THEN Max(Holders(presences', m, t)) ELSE 0].from
    BY DEF EntryTime, SelectLastInSeq, Holders
  <1>4. /\ HasEntry(m, t) /\ EntryTime(m, t) \in Nat /\ EntryTime(m, t)' \in Nat
        /\ EntryTime(m, t) <= EntryTime(m, t)' /\ EntryTime(m, t)' <= t
    <2>1. CASE t >= presences[n].to
      <3>1. HasEntry(m, t) /\ EntryTime(m, t) = presences[n].to
        BY <2>1, <1>1, <1>3 DEF HasEntry
      <3>2. CASE t >= Last(presences').to
        <4>1. EntryTime(m, t)' = Last(presences').to
          BY <3>2, <1>3
        <4>2. Last(presences').to \in {presences[n].to, latestTime'}
          BY <1>1, <1>2
        <4> QED
          BY <3>1, <3>2, <4>1, <4>2, <2>1, <1>1
      <3>3. CASE ~(t >= Last(presences').to)
        <4>1. PICK k \in 2..Len(presences') : HoldsPresence(presences'[k], m, t)
          BY <3>3 DEF HasEntry
        <4>2. PICK i \in 1..Len(presences') :
                  /\ i = Max(Holders(presences', m, t)) /\ Holders(presences', m, t) # {}
                  /\ HoldsPresence(presences'[i], m, t)
          <5>1. k \in Holders(presences', m, t)
            BY <4>1, <1>2 DEF Holders
          <5> QED
            BY <5>1, <1>2, LastHolder
        <4>3. EntryTime(m, t)' = presences'[i].from
          BY <1>3, <3>3, <4>2
        <4>4. t < presences'[i].to
          BY <4>2 DEF HoldsPresence
        <4>5. i \notin 1..n
          BY <4>4, <2>1, <1>1
        <4>6. i = n + 1 /\ presences'[i].from = presences[n].to
          BY <4>5, <1>2
        <4> QED
          BY <3>1, <4>3, <4>6, <2>1, <1>1
      <3> QED
        BY <3>2, <3>3
    <2>2. CASE ~(t >= presences[n].to)
      <3>1. ~(t >= Last(presences').to)
        BY <2>2, <1>1, <1>2
      <3>2. PICK k \in 2..Len(presences') : HoldsPresence(presences'[k], m, t)
        BY <3>1 DEF HasEntry
      <3>3. \A i \in 1..Len(presences') : HoldsPresence(presences'[i], m, t) <=>
                i \in 1..n /\ HoldsPresence(presences[i], m, t)
        <4> TAKE i \in 1..Len(presences')
        <4>1. CASE i \in 1..n
          BY <4>1, <1>1
        <4>2. CASE i \notin 1..n
          <5>1. i = n + 1 /\ presences'[i].from = presences[n].to
            BY <4>2, <1>2
          <5>2. ~HoldsPresence(presences'[i], m, t)
            BY <5>1, <2>2, <1>1 DEF HoldsPresence
          <5> QED
            BY <4>2, <5>2
        <4> QED
          BY <4>1, <4>2
      <3>4. k \in 1..n /\ k \in 2..n /\ HoldsPresence(presences[k], m, t)
        BY <3>2, <3>3, <1>2
      <3>5. HasEntry(m, t)
        BY <3>4 DEF HasEntry
      <3>6. Holders(presences', m, t) = Holders(presences, m, t)
        BY <3>3, <1>1, <1>2 DEF Holders
      <3>7. PICK i \in 1..n : /\ i = Max(Holders(presences, m, t)) /\ Holders(presences, m, t) # {}
                              /\ HoldsPresence(presences[i], m, t)
        <4>1. k \in Holders(presences, m, t)
          BY <3>4 DEF Holders
        <4> QED
          BY <4>1, <1>1, LastHolder
      <3>8. EntryTime(m, t) = presences[i].from
        BY <1>3, <2>2, <3>7, <1>1
      <3>9. EntryTime(m, t)' = presences'[i].from
        BY <1>3, <3>1, <3>6, <3>7
      <3>10. presences[i].from <= t
        BY <3>7 DEF HoldsPresence
      <3> QED
        BY <3>5, <3>8, <3>9, <3>10, <1>1
    <2> QED
      BY <2>1, <2>2
  <1>5. /\ t - EntryTime(m, t) \in Nat /\ t - EntryTime(m, t)' \in Nat
        /\ t - EntryTime(m, t)' <= t - EntryTime(m, t)
    BY <1>4
  <1>6. /\ SampleIndex(m, t) = (t - EntryTime(m, t)) \div Step
        /\ SampleIndex(m, t)' = (t - EntryTime(m, t)') \div Step
    BY DEF SampleIndex
  <1> QED
    BY <1>4, <1>5, <1>6, DivideGrows

\* The upper bound of a range is no less than the length of any of its presences, and
\* is the length of one of them.  (A state predicate, to be of the next state too.)
RangesBound ==
    HistoryInv => \A ks \in SUBSET (1..Len(presences)) :
        /\ RangeUpper(ks) \in Nat
        /\ \A i \in ks : NumSamplesWithin(i) \in Nat /\ NumSamplesWithin(i) <= RangeUpper(ks)
        /\ IF ks = {} THEN RangeUpper(ks) = 0 ELSE \E k \in ks : RangeUpper(ks) = NumSamplesWithin(k)

LEMMA RangesAreBounds == RangesBound
  <1> SUFFICES ASSUME HistoryInv, NEW ks \in SUBSET (1..Len(presences))
               PROVE  /\ RangeUpper(ks) \in Nat
                      /\ \A i \in ks : /\ NumSamplesWithin(i) \in Nat
                                       /\ NumSamplesWithin(i) <= RangeUpper(ks)
                      /\ IF ks = {} THEN RangeUpper(ks) = 0
                         ELSE \E k \in ks : RangeUpper(ks) = NumSamplesWithin(k)
    BY DEF RangesBound
  <1>1. \A i \in ks : NumSamplesWithin(i) \in Nat
    BY SamplesWithin DEF HistoryInv
  <1>2. CASE ks = {}
    BY <1>2 DEF RangeUpper
  <1>3. CASE ks # {}
    <2>1. PICK k \in ks : /\ RangeUpper(ks) = NumSamplesWithin(k)
                          /\ \A i \in ks : RangeUpper(ks) >= NumSamplesWithin(i)
      BY <1>3, RangeUpperIs DEF HistoryInv
    <2> QED
      BY <1>1, <1>3, <2>1
  <1> QED
    BY <1>2, <1>3

LEMMA RangesWiden ==
    ASSUME HistoryInv, NEW ks \in SUBSET (1..Len(presences)), NEW more \in SUBSET (1..Len(presences)),
           ks \subseteq more
    PROVE  RangeUpper(ks) \in Nat /\ RangeUpper(more) \in Nat /\ RangeUpper(ks) <= RangeUpper(more)
  <1>1. /\ RangeUpper(ks) \in Nat /\ RangeUpper(more) \in Nat
        /\ \A i \in more : NumSamplesWithin(i) <= RangeUpper(more)
        /\ IF ks = {} THEN RangeUpper(ks) = 0 ELSE \E k \in ks : RangeUpper(ks) = NumSamplesWithin(k)
    BY RangesAreBounds DEF RangesBound
  <1> QED
    BY <1>1

\* A prolonged history has the presences of a mode that it had, and wider ranges.
LEMMA RangesProlonged ==
    ASSUME HistoryInv, HistoryInv', Prolonged, NEW m, NEW s
    PROVE  /\ PresencesIn(m, s) \subseteq PresencesIn(m, s)'
           /\ RangeUpper(PresencesIn(m, s)) \in Nat /\ RangeUpper(PresencesIn(m, s))' \in Nat
           /\ RangeUpper(PresencesIn(m, s)) <= RangeUpper(PresencesIn(m, s))'
  <1> DEFINE ks == PresencesIn(m, s)
  <1>1. /\ Len(presences) \in Nat /\ \A k \in 1..Len(presences) : presences'[k] = presences[k]
        /\ 1..Len(presences) \subseteq 1..Len(presences')
    BY Times, PresencesAre DEF Prolonged, HistoryInv
  <1>2. ks \in SUBSET (1..Len(presences)) /\ ks' \in SUBSET (1..Len(presences'))
    BY DEF PresencesIn
  <1>3. ks \subseteq ks'
    BY <1>1 DEF PresencesIn
  <1>4. RangesBound /\ RangesBound'
    BY RangesAreBounds, PTL
  <1>5. /\ RangeUpper(ks) \in Nat
        /\ IF ks = {} THEN RangeUpper(ks) = 0 ELSE \E k \in ks : RangeUpper(ks) = NumSamplesWithin(k)
    BY <1>2, <1>4 DEF RangesBound
  <1>6. /\ RangeUpper(ks)' \in Nat
        /\ \A i \in ks' : NumSamplesWithin(i)' \in Nat /\ NumSamplesWithin(i)' <= RangeUpper(ks)'
    BY <1>2, <1>4 DEF RangesBound
  <1>7. \A i \in 1..Len(presences) : NumSamplesWithin(i)' = NumSamplesWithin(i)
    BY <1>1 DEF NumSamplesWithin
  <1>8. CASE ks = {}
    BY <1>3, <1>5, <1>6, <1>8
  <1>9. CASE ks # {}
    <2>1. PICK k \in ks : RangeUpper(ks) = NumSamplesWithin(k)
      BY <1>5, <1>9
    <2>2. NumSamplesWithin(k)' = NumSamplesWithin(k) /\ k \in ks'
      BY <1>2, <1>3, <1>7, <2>1
    <2> QED
      BY <2>1, <2>2, <1>3, <1>5, <1>6
  <1> QED
    BY <1>8, <1>9

\* If the robot can be looked ahead at a time, from a snapshot that is not later, then
\* it can be from that of the time itself, and the mode has been held for less than the
\* longest of its presences.
LEMMA LookedAhead ==
    ASSUME HistoryInv, ~failure, NEW s \in Nat, NEW t \in Nat, s <= t, CanLookAhead(s, t)
    PROVE  /\ t \in Past /\ ModeAt(t) \in Modes /\ HasEntry(ModeAt(t), t)
           /\ CanLookAhead(t, t) /\ LeftBefore(ModeAt(t), t, t)
           /\ PresencesIn(ModeAt(t), t) # {} /\ HasSamplesAt(ModeAt(t), t)
           /\ SampleIndex(ModeAt(t), t) < NumSamples(ModeAt(t), t)
           /\ SampleIndex(ModeAt(t), t) \in Nat
           /\ \A u \in Nat : s <= u =>
                 /\ RangeUpper(PresencesIn(ModeAt(t), u)) \in Nat
                 /\ SampleIndex(ModeAt(t), t) <= RangeUpper(PresencesIn(ModeAt(t), u))
  <1> DEFINE m == ModeAt(t)
             r(u) == RangeUpper(PresencesIn(m, u))
  <1>1. /\ t <= latestTime /\ m # NoMode /\ HasSamplesAt(m, t) /\ HasEntry(m, t)
        /\ t - EntryTime(m, t) < Step * r(s) /\ LeftBefore(m, s, t)
    BY DEF CanLookAhead
  <1>2. PICK k \in 1..Len(presences) :
            /\ presences[k].mode = m /\ t > presences[k].to
            /\ \A i \in 1..k : presences[i].from < s
    BY <1>1 DEF LeftBefore
  <1>3. HistoryTypeOK /\ Seen /\ m \in Modes
    <2>1. HistoryTypeOK
      BY DEF HistoryInv
    <2>2. Len(presences) \in Nat
      BY <2>1, Times, PresencesAre
    <2>3. presences # <<>>
      BY <1>2, <2>2
    <2> HIDE DEF m
    <2>4. Seen
      BY <2>3 DEF HistoryInv, Fresh
    <2> QED
      BY <2>1, <2>4, <1>1, ModeAtIs DEF m
  <1>4. /\ \A i \in 1..Len(presences) : presences[i].from \in Nat /\ presences[i].to \in Nat
        /\ presences[1].to <= presences[k].to /\ presences # <<>> /\ latestTime \in Nat
        /\ Len(presences) \in Nat
    <2>1. presences \in Seq(Presence) /\ latestTime \in Nat
      BY <1>3, Times
    <2>2. /\ Len(presences) \in Nat
          /\ \A i \in 1..Len(presences) : presences[i].from \in Nat /\ presences[i].to \in Nat
      BY <2>1, PresencesAre
    <2>3. /\ presences # <<>>
          /\ \A i, j \in 1..Len(presences) : i <= j => presences[i].to <= presences[j].to
      BY <1>3 DEF Seen, Linked
    <2> HIDE DEF m
    <2>4. 1 \in 1..Len(presences) /\ 1 <= k
      BY <2>2
    <2> QED
      BY <2>1, <2>2, <2>3, <2>4
  <1>5. t \in Past
    <2>1. Head(presences) = presences[1] /\ presences[1].to \in Nat
      BY <1>2, <1>4
    <2>2. presences[1].to <= t
      BY <1>2, <1>4, <2>1
    <2> QED
      BY <1>1, <1>4, <2>1, <2>2 DEF Past
  <1>6. LeftBefore(m, t, t)
    <2>1. \A i \in 1..k : presences[i].from < t
      BY <1>2, <1>4
    <2> HIDE DEF m
    <2> QED
      BY <1>2, <2>1 DEF LeftBefore
  <1>7. PresencesIn(m, t) # {}
    <2>1. presences[k].to <= t
      BY <1>2, <1>4
    <2> HIDE DEF m
    <2> QED
      BY <1>2, <2>1 DEF PresencesIn
  <1>8. EntryTime(m, t) \in Nat /\ EntryTime(m, t) <= t
    BY <1>1, <1>3, EntryIsEarlier
  <1>9. \A u \in Nat : s <= u => r(u) \in Nat /\ r(s) \in Nat /\ r(s) <= r(u)
    <2> TAKE u \in Nat
    <2> HAVE s <= u
    <2>1. /\ PresencesIn(m, s) \in SUBSET (1..Len(presences))
          /\ PresencesIn(m, u) \in SUBSET (1..Len(presences))
          /\ PresencesIn(m, s) \subseteq PresencesIn(m, u)
      <3> HIDE DEF m
      <3> QED
        BY <1>4 DEF PresencesIn
    <2> QED
      BY <2>1, RangesWiden
  <1>10. SampleIndex(m, t) \in Nat /\ SampleIndex(m, t) < r(s)
    <2>1. t - EntryTime(m, t) \in Nat /\ r(s) \in Nat
      BY <1>8, <1>9
    <2> HIDE DEF m, r
    <2> QED
      BY <2>1, <1>1, Divides, DivideBounds DEF SampleIndex
  <1>11. CanLookAhead(t, t)
    <2>1. Step * r(s) <= Step * r(t) /\ Step * r(s) \in Nat /\ Step * r(t) \in Nat
      <3>1. r(s) \in Nat /\ r(t) \in Nat /\ r(s) <= r(t) /\ Step \in Nat
        BY <1>9, TimesAssumption
      <3> HIDE DEF r
      <3> QED
        BY <3>1, Mult
    <2>2. t - EntryTime(m, t) < Step * r(t)
      <3>1. t - EntryTime(m, t) \in Nat
        BY <1>8
      <3> HIDE DEF m, r
      <3> QED
        BY <2>1, <3>1, <1>1
    <2> QED
      BY <2>2, <1>1, <1>6 DEF CanLookAhead
  <1>12. SampleIndex(m, t) < NumSamples(m, t)
    <2>1. SamplesCover
      BY SamplesAreCovered
    <2> QED
      BY <2>1, <1>5, <1>11 DEF SamplesCover
  <1>13. \A u \in Nat : s <= u => r(u) \in Nat /\ SampleIndex(m, t) <= r(u)
    <2> HIDE DEF m, r
    <2> QED
      BY <1>9, <1>10
  <1> QED
    BY <1>1, <1>3, <1>5, <1>6, <1>7, <1>10, <1>11, <1>12, <1>13

\* A later state is seen alike from the past, and with it the jobs that began there.
Kept == \A s \in Past : ModeAt(s)' = ModeAt(s) /\ CanLookAhead(s, s)' = CanLookAhead(s, s)
Preserved ==
    Unpurged' => /\ ~failure /\ Seen /\ HistoryInv' /\ Prolonged /\ Unpurged
                 /\ latestTime' \in Nat /\ latestTime <= latestTime'
                 /\ 0 \notin Gaps => Kept

LEMMA StatePreserves ==
    ASSUME HistoryInv, HistoryNext, latestMode # NoMode
    PROVE  Preserved
  <1> SUFFICES ASSUME Unpurged'
               PROVE  /\ ~failure /\ Seen /\ HistoryInv' /\ Prolonged /\ Unpurged
                      /\ latestTime' \in Nat /\ latestTime <= latestTime'
                      /\ 0 \notin Gaps => Kept
    BY DEF Preserved
  <1>1. PICK m \in Modes, p \in Points, t \in 0..MaxTime :
            /\ latestTime <= t /\ Acquire(m, p, t) /\ t \in Nat /\ latestTime \in Nat
            /\ 0 \notin Gaps => latestTime < t
    <2>1. PICK m \in Modes : \E p \in Places[m], gap \in Gaps :
              latestTime + gap <= MaxTime /\ Acquire(m, p, latestTime + gap)
      BY DEF HistoryNext
    <2>2. PICK p \in Places[m], gap \in Gaps :
              latestTime + gap <= MaxTime /\ Acquire(m, p, latestTime + gap)
      BY <2>1
    <2>3. PICK t : t = latestTime + gap
      OBVIOUS
    <2>4. latestTime \in Nat /\ MaxTime \in Nat /\ gap \in Nat
      BY Times, TimesAssumption DEF HistoryInv
    <2>5. t \in 0..MaxTime /\ latestTime <= t /\ (0 \notin Gaps => latestTime < t)
      BY <2>2, <2>3, <2>4
    <2>6. p \in Points /\ Acquire(m, p, t)
      BY <2>2, <2>3 DEF Points
    <2> QED
      BY <2>4, <2>5, <2>6
  <1>2. /\ ~failure /\ Seen /\ ~failure' /\ latestTime' = t /\ Prolonged /\ Unpurged
        /\ Head(presences') = Head(presences)
    BY <1>1, AcquireProlongs
  <1>3. HistoryInv'
    BY HistoryStep
  <1>4. ASSUME 0 \notin Gaps, NEW s \in Past
        PROVE  ModeAt(s)' = ModeAt(s) /\ CanLookAhead(s, s)' = CanLookAhead(s, s)
    <2>1. s < t /\ s \in Nat /\ s <= latestTime'
      <3>1. s \in Nat /\ s <= latestTime
        BY PastIsSeen
      <3> QED
        BY <3>1, <1>1, <1>2, <1>4
    <2>2. ObservedAt(s)' = ObservedAt(s)
      BY <1>1, <1>2, <2>1, InvSeen, AcquireLater, ObservedKept
    <2> QED
      BY <2>2 DEF ObservedAt
  <1> QED
    BY <1>1, <1>2, <1>3, <1>4 DEF Kept

LEMMA NothingPreserves ==
    ASSUME HistoryInv, HistoryInv', ~failure,
           UNCHANGED <<presences, states, latestMode, latestTime, buffer, traces>>
    PROVE  Preserved
  <1> SUFFICES ASSUME Unpurged'
               PROVE  /\ Seen /\ Prolonged /\ Unpurged
                      /\ latestTime' \in Nat /\ latestTime <= latestTime' /\ Kept
    BY DEF Preserved
  <1>1. Unpurged /\ Seen /\ latestTime \in Nat
    BY Times DEF Unpurged, HistoryInv, Fresh
  <1>2. Prolonged
    BY DEF Prolonged
  <1>3. ASSUME NEW s \in Past
        PROVE  ModeAt(s)' = ModeAt(s) /\ CanLookAhead(s, s)' = CanLookAhead(s, s)
    <2>1. s <= latestTime' /\ LaterPresences(s)
      BY PastIsSeen DEF LaterPresences
    <2>2. /\ LaterEntries(traces, traces', s)
          /\ \A x \in Modes : LaterEntries(states[x], states'[x], s)
      BY DEF LaterEntries
    <2>3. ObservedAt(s)' = ObservedAt(s)
      BY <2>1, <2>2, InvSeen, ObservedKept
    <2> QED
      BY <2>3 DEF ObservedAt
  <1> QED
    BY <1>1, <1>2, <1>3 DEF Kept

-----------------------------------------------------------------------------
(* Jobs whose snapshots hold what they ask for.                             *)

\* What is assured under the strong equivalence of states at different times, while
\* nothing is purged.
Assured == 0 \notin Gaps /\ Strong /\ Unpurged

\* Every mode of the trace has been left by the time of the job.
Founded(j) ==
    /\ j.snapshot = j.initial
    /\ \A i \in 1..Len(j.trace) : PresencesIn(j.trace[i], j.initial) # {}

\* The job begins in the mode of the robot, which can be looked ahead.
Ahead(j) == Head(j.trace) = ModeAt(j.initial) /\ CanLookAhead(j.initial, j.initial)

\* The range of the samples in the starting mode reaches the sample of the initial time.
Reaches(j) ==
    HasEntry(Head(j.trace), j.initial) =>
        Start(j) <= RangeUpper(PresencesIn(Head(j.trace), j.snapshot))

SoundJobs == {j \in FitJobs : j.snapshot <= j.initial /\ (Assured => Founded(j))}
ReadyJobs == {j \in SoundJobs : /\ j.human \in HumanSamples
                                /\ Unpurged => Reaches(j)
                                /\ Assured => Ahead(j)}

LEMMA JobsStay ==
    ASSUME HistoryInv, latestTime' \in Nat, latestTime <= latestTime', factory' = factory, Preserved
    PROVE  /\ SoundJobs \subseteq SoundJobs' /\ ReadyJobs \subseteq ReadyJobs'
           /\ \A q \in Seq(SoundJobs) : q \in Seq(SoundJobs)'
           /\ \A q \in Seq(ReadyJobs) : q \in Seq(ReadyJobs)'
  <1>1. latestTime \in Nat /\ FitJobs \subseteq FitJobs' /\ FitJobs \subseteq Job
    BY Times, FitLater DEF HistoryInv, FitJobs
  <1>2. Assured' => Assured /\ Unpurged' /\ 0 \notin Gaps
    BY DEF Assured, Strong, Preserved
  <1>3. ASSUME NEW j \in SoundJobs
        PROVE  j \in SoundJobs'
    <2>1. j \in FitJobs' /\ j.snapshot <= j.initial
      BY <1>1 DEF SoundJobs
    <2>2. ASSUME Assured'
          PROVE  Founded(j)'
      <3>1. Founded(j) /\ HistoryInv' /\ Prolonged
        BY <1>2, <2>2 DEF SoundJobs, Preserved
      <3>2. \A m : PresencesIn(m, j.initial) \subseteq PresencesIn(m, j.initial)'
        BY <3>1, RangesProlonged
      <3> QED
        BY <3>1, <3>2 DEF Founded
    <2> QED
      BY <2>1, <2>2 DEF SoundJobs
  <1>4. ASSUME NEW j \in ReadyJobs
        PROVE  j \in ReadyJobs'
    <2>1. j \in SoundJobs /\ j \in SoundJobs' /\ j.human \in HumanSamples
      BY <1>3 DEF ReadyJobs
    <2>2. j \in FitJobs /\ j.initial \in Nat /\ j.snapshot \in Nat /\ j.initial <= latestTime
      BY <2>1, JobFields DEF SoundJobs, FitJobs
    <2>3. ASSUME Unpurged'
          PROVE  Reaches(j)'
      <3> DEFINE m == Head(j.trace)
      <3>1. /\ Reaches(j) /\ Seen /\ HistoryInv' /\ Prolonged
        BY <2>3 DEF ReadyJobs, Preserved
      <3> SUFFICES ASSUME HasEntry(m, j.initial)'
                   PROVE  SampleIndex(m, j.initial)' <= RangeUpper(PresencesIn(m, j.snapshot))'
        BY DEF Reaches, Start
      <3>2. /\ HasEntry(m, j.initial) /\ SampleIndex(m, j.initial) \in Nat
            /\ SampleIndex(m, j.initial)' \in Nat
            /\ SampleIndex(m, j.initial)' <= SampleIndex(m, j.initial)
        BY <2>2, <3>1, EntryProlonged
      <3>3. /\ RangeUpper(PresencesIn(m, j.snapshot)) \in Nat
            /\ RangeUpper(PresencesIn(m, j.snapshot))' \in Nat
            /\ RangeUpper(PresencesIn(m, j.snapshot)) <= RangeUpper(PresencesIn(m, j.snapshot))'
        BY <3>1, RangesProlonged
      <3>4. SampleIndex(m, j.initial) <= RangeUpper(PresencesIn(m, j.snapshot))
        BY <3>1, <3>2 DEF Reaches, Start
      <3> HIDE DEF m
      <3> QED
        BY <3>2, <3>3, <3>4
    <2>4. ASSUME Assured'
          PROVE  Ahead(j)'
      <3>1. Ahead(j) /\ ~failure /\ Kept
        BY <1>2, <2>4 DEF ReadyJobs, Preserved
      <3>2. j.initial \in Past
        BY <3>1, <2>2, LookedAhead DEF Ahead
      <3> QED
        BY <3>1, <3>2 DEF Ahead, Kept
    <2> QED
      BY <2>1, <2>3, <2>4 DEF ReadyJobs
  <1>5. SoundJobs \subseteq SoundJobs' /\ ReadyJobs \subseteq ReadyJobs'
    BY <1>3, <1>4
  <1>6. \A q \in Seq(SoundJobs) : q \in Seq(SoundJobs')
    BY <1>5
  <1>7. \A q \in Seq(ReadyJobs) : q \in Seq(ReadyJobs')
    BY <1>5
  <1> QED
    BY <1>5, <1>6, <1>7

\* The modes of the trace at a time are those that have been left by then.
LEMMA TraceHolds ==
    ASSUME HistoryInv, NEW s \in Past, NEW m \in Modes
    PROVE  PresencesIn(m, s) # {} <=> \E i \in 1..Len(TraceAt(s)) : TraceAt(s)[i] = m
  <1> DEFINE left == {k \in 1..Len(presences) : presences[k].mode # NoMode /\ presences[k].to <= s}
             trace == TraceAt(s)
  <1>1. /\ Len(trace) = Cardinality(left)
        /\ \A k \in left : trace[Rank(left, k)] = presences[k].mode
    BY InvSeen, TracesOfPast DEF Rank
  <1>2. /\ \A k \in left : Rank(left, k) \in 1..Cardinality(left)
        /\ \A i \in 1..Cardinality(left) : \E k \in left : Rank(left, k) = i
    <2>1. IsFiniteSet(left) /\ left \subseteq Int
      <3>1. IsFiniteSet(1..Len(presences)) /\ left \subseteq 1..Len(presences)
        <4>1. Len(presences) \in Nat
          BY Times, PresencesAre DEF HistoryInv
        <4>2. IsFiniteSet(1..Len(presences))
          BY <4>1, FS_Interval
        <4> QED
          BY <4>2
      <3>2. \A i \in left : i \in Int
        OBVIOUS
      <3> HIDE DEF left
      <3> QED
        BY <3>1, <3>2, FS_Subset
    <2> HIDE DEF left
    <2> QED
      BY <2>1, PlacesRanked
  <1>3. ASSUME NEW k \in PresencesIn(m, s)
        PROVE  k \in left /\ presences[k].mode = m
    BY ModesAssumption DEF PresencesIn
  <1>4. ASSUME NEW k \in left, presences[k].mode = m
        PROVE  k \in PresencesIn(m, s)
    BY <1>4 DEF PresencesIn
  <1> HIDE DEF left, trace
  <1>5. ASSUME NEW k \in PresencesIn(m, s)
        PROVE  \E i \in 1..Len(trace) : trace[i] = m
    BY <1>1, <1>2, <1>3
  <1>6. ASSUME NEW i \in 1..Len(trace), trace[i] = m
        PROVE  PresencesIn(m, s) # {}
    <2>1. PICK k \in left : Rank(left, k) = i
      BY <1>1, <1>2
    <2> QED
      BY <2>1, <1>1, <1>4, <1>6
  <1> QED
    BY <1>5, <1>6 DEF trace

LEMMA NewJobReady ==
    ASSUME HistoryInv, ~failure, NEW s \in Nat, NEW t \in 0..MaxTime, t <= latestTime, s <= t,
           CanLookAhead(s, t), NEW h \in HumanSamples \cup {NoSample}
    PROVE  NewJob(t, h) \in SoundJobs /\ (h \in HumanSamples => NewJob(t, h) \in ReadyJobs)
  <1> DEFINE c == NewJob(t, h)
             m == ModeAt(t)
  <1>1. t \in Nat
    BY TimesAssumption
  <1>2. /\ m \in Modes /\ HasEntry(m, t) /\ CanLookAhead(t, t) /\ PresencesIn(m, t) # {}
        /\ SampleIndex(m, t) <= RangeUpper(PresencesIn(m, t))
    BY <1>1, LookedAhead
  <1>3. c \in FitJobs /\ c.human = h /\ c.initial = t /\ c.snapshot = t /\ c.trace = <<m>>
    BY <1>2, NewJobFits, ModesAssumption DEF HistoryInv
  <1> HIDE DEF c, m
  <1>4. Head(c.trace) = m /\ Len(c.trace) = 1 /\ c.trace[1] = m
    BY <1>3
  <1>5. Founded(c) /\ c.snapshot <= c.initial
    BY <1>1, <1>2, <1>3, <1>4 DEF Founded
  <1>6. Reaches(c) /\ Ahead(c)
    BY <1>2, <1>3, <1>4 DEF Reaches, Start, Ahead, m
  <1> QED
    BY <1>3, <1>5, <1>6 DEF SoundJobs, ReadyJobs, c

LEMMA LeftEarlier ==
    ASSUME HistoryInv, NEW m, NEW s \in Nat, NEW t \in Nat, s <= t, PresencesIn(m, s) # {}
    PROVE  PresencesIn(m, t) # {}
  <1>1. PICK k \in 1..Len(presences) : presences[k].mode = m /\ presences[k].to <= s
    BY DEF PresencesIn
  <1>2. presences[k].to \in Nat
    BY Times, PresencesAre DEF HistoryInv
  <1>3. presences[k].to <= t
    BY <1>1, <1>2
  <1> QED
    BY <1>1, <1>3 DEF PresencesIn

LEMMA PostponeSound ==
    ASSUME HistoryInv, NEW j \in SoundJobs, NEW t \in 0..MaxTime, t <= latestTime, j.initial < t
    PROVE  Postpone(j, t) \in SoundJobs
  <1> DEFINE c == Postpone(j, t)
  <1>1. /\ j \in FitJobs /\ j.snapshot <= j.initial /\ j.initial \in Nat /\ j.snapshot \in Nat
        /\ t \in Nat
    BY JobFields, TimesAssumption DEF SoundJobs, FitJobs
  <1>2. /\ c \in FitJobs /\ c.initial = t /\ c.trace = j.trace
        /\ c.snapshot = IF Reuse THEN SnapshotOf(j, t) ELSE t
    BY <1>1, PostponeFits
  <1>3. SnapshotOf(j, t) = IF Strong THEN t ELSE j.snapshot
    BY DEF SnapshotOf
  <1> HIDE DEF c
  <1>4. c.snapshot <= c.initial
    BY <1>1, <1>2, <1>3
  <1>5. ASSUME Assured
        PROVE  Founded(c)
    <2>1. Founded(j) /\ Strong
      BY <1>5 DEF SoundJobs, Assured
    <2>2. c.snapshot = t
      BY <2>1, <1>2, <1>3
    <2>3. \A i \in 1..Len(c.trace) : PresencesIn(c.trace[i], t) # {}
      BY <2>1, <1>1, <1>2, LeftEarlier DEF Founded
    <2> QED
      BY <2>2, <2>3, <1>2 DEF Founded
  <1> QED
    BY <1>2, <1>4, <1>5 DEF SoundJobs, c

\* The job that reuses what another has computed.
LEMMA ReducedReady ==
    ASSUME HistoryInv, ~failure, NEW j \in SoundJobs, NEW t \in 0..MaxTime, t <= latestTime,
           j.initial < t, CanLookAhead(j.snapshot, t), NEW h \in HumanSamples,
           Lower(j, t) >= 0, Resume(j, t, h).sections # <<>>
    PROVE  Reduced(j, Resume(j, t, h), UpperOf(j, Resume(j, t, h), t), t) \in ReadyJobs
  <1> DEFINE c == Reduced(j, Resume(j, t, h), UpperOf(j, Resume(j, t, h), t), t)
             m == ModeAt(t)
  <1>1. /\ j \in FitJobs /\ j.snapshot <= j.initial /\ j.initial \in Nat /\ j.snapshot \in Nat
        /\ t \in Nat /\ j.snapshot <= t
    BY JobFields, TimesAssumption DEF SoundJobs, FitJobs
  <1>2. /\ c \in WaitingJobs /\ c.human = h /\ c.initial = t /\ c.snapshot = SnapshotOf(j, t)
        /\ Head(c.trace) = m
        /\ \A i \in 1..Len(c.trace) : \E k \in 1..Len(j.trace) : c.trace[i] = j.trace[k]
    BY <1>1, ReducedFits
  <1>3. SnapshotOf(j, t) = IF Strong THEN t ELSE j.snapshot
    BY DEF SnapshotOf
  <1>4. /\ CanLookAhead(t, t)
        /\ \A u \in Nat : j.snapshot <= u =>
              SampleIndex(m, t) <= RangeUpper(PresencesIn(m, u))
    BY <1>1, LookedAhead
  <1> HIDE DEF c, m
  <1>5. c.snapshot <= c.initial /\ c.snapshot \in Nat /\ j.snapshot <= c.snapshot
    BY <1>1, <1>2, <1>3
  <1>6. ASSUME Assured
        PROVE  Founded(c)
    <2>1. Founded(j) /\ Strong
      BY <1>6 DEF SoundJobs, Assured
    <2>2. c.snapshot = t
      BY <2>1, <1>2, <1>3
    <2>3. \A i \in 1..Len(c.trace) : PresencesIn(c.trace[i], t) # {}
      <3> TAKE i \in 1..Len(c.trace)
      <3>1. PICK k \in 1..Len(j.trace) : c.trace[i] = j.trace[k]
        BY <1>2
      <3> QED
        BY <3>1, <2>1, <1>1, LeftEarlier DEF Founded
    <2> QED
      BY <2>2, <2>3, <1>2 DEF Founded
  <1>7. Reaches(c)
    BY <1>2, <1>4, <1>5 DEF Reaches, Start
  <1>8. Ahead(c)
    BY <1>2, <1>4 DEF Ahead, m
  <1> QED
    BY <1>2, <1>5, <1>6, <1>7, <1>8 DEF SoundJobs, ReadyJobs, WaitingJobs, c

\* The full trace of a job, whose modes have all been left by its time.
LEMMA FullTraceIs ==
    ASSUME HistoryInv, ~failure, NEW j \in ReadyJobs, Assured
    PROVE  /\ j.initial \in Past /\ HasTrace(j.initial) /\ TraceAt(j.initial) # <<>>
           /\ FullTrace(j) \in Seq(Modes) /\ FullTrace(j) # <<>>
           /\ \A i \in 1..Len(FullTrace(j)) : PresencesIn(FullTrace(j)[i], j.initial) # {}
           /\ Occurrences(FullTrace(j)) # {}
  <1> DEFINE s == j.initial
             first == TraceAt(s)
             full == FullTrace(j)
  <1>1. /\ j \in FitJobs /\ j \in Job /\ s \in Nat /\ Founded(j)
        /\ Head(j.trace) = ModeAt(s) /\ CanLookAhead(s, s)
    BY JobFields DEF ReadyJobs, SoundJobs, FitJobs, Ahead
  <1>2. /\ j.trace \in Seq(Modes) /\ Len(j.trace) \in Nat /\ Len(j.trace) >= 1
        /\ Mode(j) \in Modes /\ Mode(j) = j.trace[Len(j.trace)]
    BY <1>1, JobFields DEF FitJobs
  <1>3. s \in Past /\ ModeAt(s) \in Modes /\ LeftBefore(ModeAt(s), s, s)
    BY <1>1, LookedAhead
  <1>4. first \in Seq(Modes) /\ HasTrace(s) /\ first # <<>> /\ Last(first) # ModeAt(s)
    BY <1>3, TraceEnds
  <1>5. full = first \o j.trace
    <2>1. Last(first) # Head(j.trace)
      BY <1>1, <1>4
    <2> QED
      BY <2>1 DEF FullTrace, Merge
  <1>6. /\ \A i \in 1..Len(j.trace) : PresencesIn(j.trace[i], s) # {}
    BY <1>1 DEF Founded
  <1>7. \A i \in 1..Len(first) : PresencesIn(first[i], s) # {}
    <2> TAKE i \in 1..Len(first)
    <2>1. first[i] \in Modes
      BY <1>4
    <2> QED
      BY <2>1, <1>3, TraceHolds
  <1>8. PICK k \in 1..Len(first) : first[k] = Mode(j)
    <2>1. PresencesIn(Mode(j), s) # {}
      BY <1>2, <1>6
    <2> QED
      BY <2>1, <1>2, <1>3, TraceHolds
  <1> HIDE DEF first, full, s
  <1>9. /\ full \in Seq(Modes) /\ Len(full) = Len(first) + Len(j.trace) /\ Len(first) \in Nat
        /\ \A i \in 1..Len(full) : full[i] = IF i <= Len(first) THEN first[i]
                                             ELSE j.trace[i - Len(first)]
    BY <1>2, <1>4, <1>5
  <1>10. full[Len(full)] = Mode(j) /\ Len(full) \in 1..Len(full)
    BY <1>2, <1>9
  <1>11. k \in 1..(Len(full) - 1) /\ full[k] = Last(full)
    BY <1>2, <1>8, <1>9, <1>10 DEF Last
  <1>12. k \in Occurrences(full)
    BY <1>11 DEF Occurrences
  <1>13. \A i \in 1..Len(full) : PresencesIn(full[i], s) # {}
    <2> TAKE i \in 1..Len(full)
    <2>1. CASE i <= Len(first)
      BY <2>1, <1>7, <1>9
    <2>2. CASE ~(i <= Len(first))
      <3>1. i - Len(first) \in 1..Len(j.trace)
        BY <2>2, <1>2, <1>9
      <3> QED
        BY <2>2, <3>1, <1>6, <1>9
    <2> QED
      BY <2>1, <2>2
  <1>14. full # <<>>
    BY <1>10
  <1> QED
    BY <1>3, <1>4, <1>9, <1>12, <1>13, <1>14 DEF first, full, s

\* No assertion on the way of a job fails.
LEMMA ReadyCan ==
    ASSUME HistoryInv, ~failure, NEW j \in ReadyJobs, Assured
    PROVE  /\ CanSearch(j) /\ CanGoOn(j)
           /\ HasIndex(Head(j.trace), j.initial, j.snapshot)
  <1>1. /\ j \in FitJobs /\ j \in Job /\ j.initial \in Nat /\ j.snapshot = j.initial
        /\ Head(j.trace) = ModeAt(j.initial) /\ CanLookAhead(j.initial, j.initial)
        /\ \A i \in 1..Len(j.trace) : PresencesIn(j.trace[i], j.initial) # {}
    BY JobFields DEF ReadyJobs, SoundJobs, FitJobs, Ahead, Founded
  <1>2. Len(j.trace) \in 1..Len(j.trace) /\ Mode(j) \in Modes /\ Mode(j) = j.trace[Len(j.trace)]
    BY <1>1, JobFields DEF FitJobs
  <1>3. HasIndex(Head(j.trace), j.initial, j.snapshot)
    BY <1>1, LookedAhead DEF HasIndex
  <1>4. HasSamplesAt(Mode(j), j.snapshot)
    <2>1. j.initial \in Past
      BY <1>1, LookedAhead
    <2>2. PresencesIn(Mode(j), j.initial) # {}
      BY <1>1, <1>2
    <2> QED
      BY <2>1, <2>2, <1>1, <1>2, RangeWithinSamples
  <1>5. CanSearch(j)
    BY <1>3, <1>4 DEF CanSearch
  <1>6. CanGoOn(j)
    <2>1. /\ HasTrace(j.initial) /\ TraceAt(j.initial) # <<>>
          /\ FullTrace(j) \in Seq(Modes) /\ FullTrace(j) # <<>>
          /\ Occurrences(FullTrace(j)) # {}
      BY FullTraceIs
    <2>2. NextModes(FullTrace(j)) # {}
      BY <2>1, NextModesAreSuccessors
    <2> QED
      BY <2>1, <2>2 DEF CanGoOn
  <1> QED
    BY <1>3, <1>5, <1>6

\* A job that goes on to a next mode.
LEMMA NextReady ==
    ASSUME HistoryInv, ~failure, NEW j \in ReadyJobs, NEW c \in FitJobs, NEW m,
           m \in NextModes(FullTrace(j)), c.trace = Append(j.trace, m),
           c.human \in HumanSamples, c.initial = j.initial, c.snapshot = j.snapshot
    PROVE  c \in ReadyJobs
  <1>1. /\ j \in FitJobs /\ j \in Job /\ c \in Job /\ j.snapshot <= j.initial
        /\ j.human \in HumanSamples
    BY DEF ReadyJobs, SoundJobs, FitJobs
  <1>2. /\ j.trace \in Seq(Modes) /\ c.trace \in Seq(Modes) /\ Len(j.trace) \in Nat
        /\ Len(j.trace) >= 1 /\ Head(j.trace) = j.trace[1] /\ Head(c.trace) = c.trace[1]
    BY <1>1, JobFields DEF FitJobs
  <1>3. /\ Len(c.trace) = Len(j.trace) + 1 /\ c.trace[Len(j.trace) + 1] = m
        /\ \A i \in 1..Len(j.trace) : c.trace[i] = j.trace[i]
    <2> DEFINE R == Modes \cup {m}
    <2>1. j.trace \in Seq(R) /\ m \in R
      BY <1>2
    <2> HIDE DEF R
    <2> QED
      BY <2>1
  <1>4. Head(c.trace) = Head(j.trace)
    BY <1>2, <1>3
  <1>5. ASSUME Assured
        PROVE  Founded(c) /\ Ahead(c)
    <2>1. /\ FullTrace(j) \in Seq(Modes) /\ FullTrace(j) # <<>>
          /\ \A i \in 1..Len(FullTrace(j)) : PresencesIn(FullTrace(j)[i], j.initial) # {}
      BY <1>5, FullTraceIs
    <2>2. PICK i \in Occurrences(FullTrace(j)) : m = FullTrace(j)[i + 1]
      BY <2>1, NextModesAreSuccessors
    <2>3. i + 1 \in 1..Len(FullTrace(j))
      BY <2>1, <2>2 DEF Occurrences
    <2>4. PresencesIn(m, j.initial) # {}
      BY <2>1, <2>2, <2>3
    <2>5. Founded(j) /\ Ahead(j)
      BY <1>5 DEF ReadyJobs, SoundJobs
    <2>6. \A k \in 1..Len(c.trace) : PresencesIn(c.trace[k], j.initial) # {}
      <3> TAKE k \in 1..Len(c.trace)
      <3>1. CASE k \in 1..Len(j.trace)
        BY <3>1, <2>5, <1>3 DEF Founded
      <3>2. CASE k \notin 1..Len(j.trace)
        <4>1. k = Len(j.trace) + 1
          BY <3>2, <1>2, <1>3
        <4> QED
          BY <4>1, <2>4, <1>3
      <3> QED
        BY <3>1, <3>2
    <2> QED
      BY <2>5, <2>6, <1>4 DEF Founded, Ahead
  <1>6. Unpurged => Reaches(c)
    BY <1>4 DEF ReadyJobs, Reaches, Start
  <1> QED
    BY <1>1, <1>5, <1>6 DEF ReadyJobs, SoundJobs

-----------------------------------------------------------------------------
(* Awakening keeps jobs sound.                                              *)

\* Awakening does not fail when all of the modes of the trace have been left.
LEMMA ResumePossible ==
    ASSUME HistoryInv, ~failure, Assured, NEW j \in SoundJobs, NEW t \in 0..MaxTime,
           t <= latestTime, j.initial < t, CanLookAhead(j.snapshot, t), NEW h \in HumanSamples
    PROVE  CanResume(j, Resume(j, t, h), t)
  <1>1. PICK r : r = Resume(j, t, h)
    OBVIOUS
  <1>2. /\ j \in FitJobs /\ j.snapshot <= j.initial /\ j.initial \in Nat /\ j.snapshot \in Nat
        /\ t \in Nat /\ j.snapshot <= t /\ j.initial <= t /\ Strong /\ Founded(j)
        /\ j.trace \in Seq(Modes)
    BY JobFields, TimesAssumption DEF SoundJobs, FitJobs, Assured
  <1>3. SnapshotOf(j, t) = t
    BY <1>2 DEF SnapshotOf
  <1>4. t \in Past /\ HasIndex(ModeAt(t), t, t)
    BY <1>2, LookedAhead DEF HasIndex
  <1>5. ASSUME Lower(j, t) >= 0, r.sections # <<>>
        PROVE  /\ HasSamplesAt(j.trace[Lower(j, t) + LastUpperTrace(r.sections) + 1], t)
               /\ CanReduce(j.trace, Lower(j, t) + 1, UpperOf(j, r, t) + 1)
               /\ UpperOf(j, r, t) = Len(j.trace) => CanGoOn(Reduced(j, r, Len(j.trace), t))
    <2>1. PICK i : i = Lower(j, t) + LastUpperTrace(r.sections) + 1
      OBVIOUS
    <2>2. i \in 1..Len(j.trace) /\ CanReduce(j.trace, Lower(j, t) + 1, UpperOf(j, r, t) + 1)
      BY <1>1, <1>2, <1>5, <2>1, ReducedFits
    <2>3. j.trace[i] \in Modes /\ PresencesIn(j.trace[i], j.initial) # {}
      BY <1>2, <2>2 DEF Founded
    <2>4. PresencesIn(j.trace[i], t) # {}
      BY <1>2, <2>3, LeftEarlier
    <2>5. HasSamplesAt(j.trace[i], t)
      BY <1>4, <2>3, <2>4, RangeWithinSamples
    <2>6. Reduced(j, r, UpperOf(j, r, t), t) \in ReadyJobs
      BY <1>1, <1>5, ReducedReady
    <2>7. CanGoOn(Reduced(j, r, UpperOf(j, r, t), t))
      BY <2>6, ReadyCan
    <2> QED
      BY <2>1, <2>2, <2>5, <2>7
  <1> QED
    BY <1>1, <1>3, <1>4, <1>5 DEF CanResume

LEMMA ReawakenSound ==
    ASSUME HistoryInv, ~failure, NEW j \in SoundJobs, NEW t \in 0..MaxTime,
           t <= latestTime, j.initial < t, CanLookAhead(j.snapshot, t), NEW h \in HumanSamples,
           CanResume(j, Resume(j, t, h), t)
    PROVE  LET woken == Reawaken(j, Resume(j, t, h), t, h)
           IN  woken.kept \in Seq(SoundJobs) /\ woken.moved \in Seq(ReadyJobs)
  <1>1. PICK r : r = Resume(j, t, h)
    OBVIOUS
  <1>2. /\ j \in FitJobs /\ j.snapshot \in Nat /\ t \in Nat /\ j.snapshot <= t
    BY JobFields, TimesAssumption DEF SoundJobs, FitJobs
  <1>3. CASE Lower(j, t) < 0 \/ r.sections = <<>>
    <2>1. PICK c : c = NewJob(t, h)
      OBVIOUS
    <2>2. c \in ReadyJobs
      BY <1>2, <2>1, NewJobReady
    <2>3. Reawaken(j, r, t, h) = [kept |-> <<>>, moved |-> <<c>>]
      BY <1>3, <2>1 DEF Reawaken
    <2>4. <<c>> \in Seq(ReadyJobs) /\ <<>> \in Seq(SoundJobs)
      BY <2>2, SingleJob, EmptyJobs
    <2> QED
      BY <1>1, <2>3, <2>4
  <1>4. CASE Lower(j, t) >= 0 /\ r.sections # <<>>
    <2>1. PICK c : c = Reduced(j, r, UpperOf(j, r, t), t)
      OBVIOUS
    <2>2. c \in ReadyJobs /\ c \in SoundJobs /\ c \in FitJobs
      BY <1>1, <1>4, <2>1, ReducedReady DEF ReadyJobs, SoundJobs
    <2>3. Reawaken(j, r, t, h) = GoOn(c, UpperOf(j, r, t) = Len(j.trace))
      <3>1. ~(Lower(j, t) < 0 \/ r.sections = <<>>)
        BY <1>2, <1>4, LowerIs
      <3> QED
        BY <3>1, <2>1 DEF Reawaken
    <2>4. <<c>> \in Seq(ReadyJobs) /\ <<c>> \in Seq(SoundJobs)
          /\ <<>> \in Seq(ReadyJobs) /\ <<>> \in Seq(SoundJobs)
      BY <2>2, SingleJob, EmptyJobs
    <2>5. CASE UpperOf(j, r, t) # Len(j.trace)
      <3>1. Reawaken(j, r, t, h) = [kept |-> <<>>, moved |-> <<c>>]
        BY <2>3, <2>5 DEF GoOn
      <3> QED
        BY <1>1, <3>1, <2>4
    <2>6. CASE UpperOf(j, r, t) = Len(j.trace) /\ HasLooped(c.trace)
      <3>1. Reawaken(j, r, t, h) = [kept |-> <<c>>, moved |-> <<>>]
        BY <2>3, <2>6 DEF GoOn
      <3> QED
        BY <1>1, <3>1, <2>4
    <2>7. CASE UpperOf(j, r, t) = Len(j.trace) /\ ~HasLooped(c.trace)
      <3>1. PICK moved : moved = NextJobs(c)
        OBVIOUS
      <3>2. Reawaken(j, r, t, h) = [kept |-> <<>>, moved |-> moved]
        BY <2>3, <2>7, <3>1 DEF GoOn
      <3>3. CanGoOn(c)
        BY <1>1, <1>4, <2>1, <2>7 DEF CanResume
      <3>4. /\ moved \in Seq(FitJobs)
            /\ \A k \in 1..Len(moved) :
                  /\ moved[k].human = c.human /\ moved[k].initial = c.initial
                  /\ moved[k].snapshot = c.snapshot
                  /\ \E m \in NextModes(FullTrace(c)) : moved[k].trace = Append(c.trace, m)
        BY <2>2, <3>1, <3>3, NextJobsFit DEF HistoryInv
      <3>5. \A k \in 1..Len(moved) : moved[k] \in ReadyJobs
        <4> TAKE k \in 1..Len(moved)
        <4>1. PICK next : next = moved[k]
          OBVIOUS
        <4>2. next \in FitJobs /\ next.human \in HumanSamples
          BY <2>2, <3>4, <4>1 DEF ReadyJobs
        <4>3. PICK m \in NextModes(FullTrace(c)) : next.trace = Append(c.trace, m)
          BY <3>4, <4>1
        <4>4. next.initial = c.initial /\ next.snapshot = c.snapshot
          BY <3>4, <4>1
        <4>5. next \in ReadyJobs
          BY <2>2, <4>2, <4>3, <4>4, NextReady
        <4> QED
          BY <4>1, <4>5
      <3>6. moved \in Seq(ReadyJobs)
        BY <3>4, <3>5
      <3> QED
        BY <1>1, <3>2, <3>6, <2>4
    <2> QED
      BY <2>5, <2>6, <2>7
  <1> QED
    BY <1>2, <1>3, <1>4, LowerIs

SoundWakings(t) ==
    {acc \in Wakings(t) : /\ acc.kept \in Seq(SoundJobs) /\ acc.moved \in Seq(ReadyJobs)
                          /\ Assured => ~acc.failed}

LEMMA AwakenSound ==
    ASSUME JobsInv, ~failure, HasInstance, NEW j \in SoundJobs,
           NEW acc \in SoundWakings(Latest.time)
    PROVE  Awaken(acc, j) \in SoundWakings(Latest.time)
  <1>1. PICK t, h, new : t = Latest.time /\ h = Latest.sample /\ new = Awaken(acc, j)
    OBVIOUS
  <1>2. /\ HistoryInv /\ HistoryTypeOK /\ instances \in Instances
        /\ t \in 0..MaxTime /\ t <= latestTime /\ h \in HumanSamples \cup {NoSample}
        /\ j \in FitJobs /\ j.snapshot \in Nat /\ j.initial \in Nat /\ t \in Nat
        /\ j.snapshot <= j.initial
    BY <1>1, LatestIs, JobFields, TimesAssumption
       DEF JobsInv, HistoryInv, Instances, SoundJobs, FitJobs
  <1>3. /\ acc \in Wakings(t) /\ acc.kept \in Seq(SoundJobs) /\ acc.moved \in Seq(ReadyJobs)
        /\ Assured => ~acc.failed
    BY <1>1 DEF SoundWakings
  <1>4. new \in Wakings(t)
    BY <1>1, <1>2, <1>3, AwakenKeeps DEF Instances
  <1>5. SUFFICES /\ new.kept \in Seq(SoundJobs) /\ new.moved \in Seq(ReadyJobs)
                 /\ Assured => ~new.failed
    BY <1>1, <1>4 DEF SoundWakings
  <1>6. PICK due \in BOOLEAN : due <=> j.initial < t /\ CanLookAhead(j.snapshot, t)
    OBVIOUS
  <1>7. CASE ~due
    <2>1. new = [acc EXCEPT !.kept = Append(@, j)]
      BY <1>1, <1>6, <1>7 DEF Awaken
    <2>2. new.kept = Append(acc.kept, j) /\ new.moved = acc.moved /\ new.failed = acc.failed
      BY <1>3, <2>1 DEF Wakings
    <2>3. Append(acc.kept, j) \in Seq(SoundJobs)
      BY <1>3
    <2> QED
      BY <1>3, <2>2, <2>3
  <1>8. CASE due /\ h = NoSample
    <2>1. PICK c : c = Postpone(j, t)
      OBVIOUS
    <2>2. c \in SoundJobs
      BY <1>2, <1>6, <1>8, <2>1, PostponeSound
    <2>3. new = [acc EXCEPT !.kept = Append(@, c),
                            !.registered = IF Reuse THEN Register(@, <<c>>) ELSE @]
      BY <1>1, <1>6, <1>8, <2>1 DEF Awaken
    <2>4. new.kept = Append(acc.kept, c) /\ new.moved = acc.moved /\ new.failed = acc.failed
      BY <1>3, <2>3 DEF Wakings
    <2>5. Append(acc.kept, c) \in Seq(SoundJobs)
      BY <1>3, <2>2
    <2> QED
      BY <1>3, <2>4, <2>5
  <1>9. CASE due /\ h # NoSample /\ ~Reuse
    <2>1. PICK c : c = NewJob(t, h)
      OBVIOUS
    <2>2. c \in ReadyJobs
      <3>1. h \in HumanSamples /\ j.snapshot <= t /\ CanLookAhead(j.snapshot, t)
        BY <1>2, <1>6, <1>9
      <3> QED
        BY <2>1, <3>1, <1>2, NewJobReady
    <2>3. new = [acc EXCEPT !.moved = IF IsPrimary(j.path) THEN Append(@, c) ELSE @]
      BY <1>1, <1>6, <1>9, <2>1 DEF Awaken
    <2>4. /\ new.moved = IF IsPrimary(j.path) THEN Append(acc.moved, c) ELSE acc.moved
          /\ new.kept = acc.kept /\ new.failed = acc.failed
      BY <1>3, <2>3 DEF Wakings
    <2>5. Append(acc.moved, c) \in Seq(ReadyJobs)
      BY <1>3, <2>2
    <2> QED
      BY <1>3, <2>4, <2>5
  <1>10. CASE due /\ h # NoSample /\ Reuse
    <2>0. h \in HumanSamples /\ j.initial < t /\ CanLookAhead(j.snapshot, t) /\ ModeAt(t) # NoMode
      BY <1>2, <1>6, <1>10 DEF CanLookAhead
    <2>1. PICK r : r = Resume(j, t, h)
      OBVIOUS
    <2>2. new = AwakenReusing(acc, j, r, t, h)
      BY <1>1, <1>6, <1>10, <2>1 DEF Awaken
    <2>3. CASE ~CanResume(j, r, t)
      <3>1. new = [acc EXCEPT !.failed = TRUE]
        BY <2>2, <2>3 DEF AwakenReusing
      <3>2. new.kept = acc.kept /\ new.moved = acc.moved
        BY <1>3, <3>1 DEF Wakings
      <3>3. ~Assured
        BY <1>2, <2>0, <2>1, <2>3, ResumePossible
      <3> QED
        BY <1>3, <3>2, <3>3
    <2>4. CASE CanResume(j, r, t)
      <3>1. PICK woken : woken = Reawaken(j, r, t, h)
        OBVIOUS
      <3>2. /\ woken.kept \in Seq(FitJobs) /\ woken.moved \in Seq(WaitingAt(t))
        BY <1>2, <2>0, <2>1, <2>4, <3>1, ReawakenKeeps
      <3>3. woken.kept \in Seq(SoundJobs) /\ woken.moved \in Seq(ReadyJobs)
        BY <1>2, <2>0, <2>1, <2>4, <3>1, ReawakenSound
      <3>4. new = Take(acc, woken)
        BY <2>2, <2>4, <3>1 DEF AwakenReusing
      <3>5. /\ new.kept = acc.kept \o woken.kept /\ new.moved = acc.moved \o Accepted(acc, woken)
            /\ new.failed = acc.failed
        BY <1>3, <3>4 DEF Take, Wakings
      <3>6. Accepted(acc, woken) \in Seq(ReadyJobs)
        <4> DEFINE places == {i \in 1..Len(woken.moved) :
                                 Acceptable(acc.registered, woken.moved[i])}
        <4>1. places \subseteq 1..Len(woken.moved)
          OBVIOUS
        <4>2. EntriesAt(woken.moved, places) \in Seq(ReadyJobs)
          <5> HIDE DEF places
          <5> QED
            BY <4>1, <3>3, ChosenEntries
        <4> QED
          BY <4>2 DEF Accepted
      <3>7. /\ acc.kept \o woken.kept \in Seq(SoundJobs)
            /\ acc.moved \o Accepted(acc, woken) \in Seq(ReadyJobs)
        BY <1>3, <3>3, <3>6
      <3> QED
        BY <1>3, <3>5, <3>7
    <2> QED
      BY <2>3, <2>4
  <1> QED
    BY <1>2, <1>7, <1>8, <1>9, <1>10

LEMMA AwokenSound ==
    ASSUME JobsInv, ~failure, sleeping \in Seq(SoundJobs)
    PROVE  Awoken \in SoundWakings(Latest.time)
  <1> DEFINE W == SoundWakings(Latest.time)
             S == [n \in 0..Len(sleeping) |-> W]
             start == [kept |-> <<>>, moved |-> <<>>, registered |-> registered, failed |-> FALSE]
  <1>1. Len(sleeping) \in Nat
    OBVIOUS
  <1>2. start \in W
    <2>1. /\ <<>> \in Seq(FitJobs) /\ <<>> \in Seq(WaitingAt(Latest.time))
          /\ <<>> \in Seq(SoundJobs) /\ <<>> \in Seq(ReadyJobs)
      BY EmptyJobs
    <2>2. start \in Wakings(Latest.time)
      BY <2>1 DEF Wakings, JobsInv
    <2> QED
      BY <2>1, <2>2 DEF SoundWakings
  <1>3. ASSUME NEW n \in 1..Len(sleeping), NEW acc \in W
        PROVE  Awaken(acc, sleeping[n]) \in W
    <2>1. sleeping # <<>> /\ sleeping[n] \in SoundJobs
      <3>1. Len(sleeping) # 0
        BY <1>1
      <3> QED
        BY <3>1, EmptySeq
    <2>2. HasInstance
      BY <2>1 DEF JobsInv
    <2> QED
      BY <2>1, <2>2, AwakenSound
  <1> HIDE DEF W, start
  <1>4. start \in S[0] /\ \A n \in 1..Len(sleeping) : \A acc \in S[n - 1] :
                             Awaken(acc, sleeping[n]) \in S[n]
    <2>1. 0 \in 0..Len(sleeping) /\ \A n \in 1..Len(sleeping) : n \in 0..Len(sleeping)
                                                             /\ n - 1 \in 0..Len(sleeping)
      BY <1>1
    <2> QED
      BY <2>1, <1>2, <1>3
  <1>5. S[Len(sleeping)] = W
    BY <1>1
  <1> HIDE DEF S
  <1>6. Awoken \in S[Len(sleeping)]
    BY <1>1, <1>4, AwokenKeeps DEF start
  <1> QED
    BY <1>5, <1>6 DEF W

-----------------------------------------------------------------------------
(* No step makes a job unsound, and none fails with sound jobs.             *)

\* The inductive invariant of jobs that are sound, those that wait even ready to be
\* searched: it relates each job to what the history keeps of its snapshot.
SoundQueues ==
    /\ waiting # <<>> \/ sleeping # <<>> => latestMode # NoMode
    /\ waiting \in Seq(ReadyJobs) /\ sleeping \in Seq(SoundJobs)
SoundInv == (Assured => ~failure) /\ (~failure => SoundQueues)

LEMMA NoQueues == waiting = <<>> /\ sleeping = <<>> => SoundQueues
BY EmptySeq DEF SoundQueues

LEMMA SoundInitial == Init => SoundInv
BY NoQueues DEF Init, HistoryInit, SoundInv

\* A step that leaves the history as it is keeps what is said of its jobs.
LEMMA QueuesStay ==
    ASSUME HistoryInv, HistoryInv', ~failure, factory' = factory,
           UNCHANGED <<presences, states, latestMode, latestTime, buffer, traces>>,
           waiting' = waiting \/ waiting' \in Seq(ReadyJobs),
           sleeping' = sleeping \/ sleeping' \in Seq(SoundJobs),
           waiting' # <<>> \/ sleeping' # <<>> => latestMode # NoMode, SoundQueues
    PROVE  SoundQueues'
  <1>1. Preserved
    BY NothingPreserves
  <1>2. latestTime \in Nat /\ latestTime' = latestTime /\ latestTime <= latestTime'
    BY Times DEF HistoryInv
  <1>3. \A q \in Seq(SoundJobs) : q \in Seq(SoundJobs)'
    BY <1>1, <1>2, JobsStay
  <1>4. \A q \in Seq(ReadyJobs) : q \in Seq(ReadyJobs)'
    BY <1>1, <1>2, JobsStay
  <1> QED
    BY <1>3, <1>4 DEF SoundQueues

LEMMA AssuredStays ==
    ASSUME factory' = factory, presences' = presences
    PROVE  Assured' <=> Assured
BY DEF Assured, Strong, Unpurged

LEMMA SoundStays ==
    ASSUME JobsInv, JobsInv', SoundInv, factory' = factory, failure' = failure,
           UNCHANGED <<presences, states, latestMode, latestTime, buffer, traces>>,
           waiting' = waiting, sleeping' = sleeping
    PROVE  SoundInv'
  <1>1. ASSUME ~failure PROVE SoundQueues'
    <2>1. SoundQueues
      BY <1>1 DEF SoundInv
    <2>2. HistoryInv /\ HistoryInv'
      BY DEF JobsInv
    <2>3. waiting' # <<>> \/ sleeping' # <<>> => latestMode # NoMode
      BY <2>1 DEF SoundQueues
    <2> QED
      BY <1>1, <2>1, <2>2, <2>3, QueuesStay
  <1>2. Assured' <=> Assured
    BY AssuredStays
  <1> QED
    BY <1>1, <1>2 DEF SoundInv

LEMMA ProcessSound == JobsInv /\ JobsInv' /\ SoundInv /\ Process => SoundInv'
  <1> SUFFICES ASSUME JobsInv, JobsInv', SoundInv, Process PROVE SoundInv'
    OBVIOUS
  <1>1. /\ ~failure /\ failure' \in BOOLEAN
        /\ UNCHANGED <<presences, states, latestMode, latestTime, buffer, traces,
                       factory, instances, pending, registered, handling>>
        /\ failure' => \E k \in 1..Len(waiting) : Breaks(waiting[k])
        /\ \/ waiting' = waiting /\ sleeping' = sleeping
           \/ \E k \in 1..Len(waiting) : \E c : Sleeps(k, c)
           \/ \E k \in 1..Len(waiting) : \E next : GoesOn(k, next)
    BY ProcessCases
  <1>2. HistoryInv /\ HistoryInv' /\ factory \in Factories /\ SoundQueues
    BY <1>1 DEF JobsInv, SoundInv
  <1>3. waiting \in Seq(ReadyJobs) /\ sleeping \in Seq(SoundJobs)
    BY <1>2 DEF SoundQueues
  <1>4. \A k \in 1..Len(waiting) : waiting[k] \in ReadyJobs
    BY <1>3, ElementOfSeq
  <1>5. Assured' => ~failure'
    <2> SUFFICES ASSUME Assured, failure' PROVE FALSE
      BY <1>1, AssuredStays
    <2>1. PICK k \in 1..Len(waiting) : Breaks(waiting[k])
      BY <1>1
    <2>2. PICK j : j = waiting[k]
      OBVIOUS
    <2>3. j \in ReadyJobs /\ Breaks(j)
      BY <2>1, <2>2, <1>4
    <2>4. CanSearch(j) /\ CanGoOn(j) /\ HasIndex(Head(j.trace), j.initial, j.snapshot)
      BY <2>3, <1>1, <1>2, ReadyCan
    <2>5. j \in FitJobs /\ j.human \in HumanSamples
      BY <2>3 DEF ReadyJobs, SoundJobs
    <2>6. Search(j).ok
      BY <2>4, <2>5, <1>1, <1>2, SearchKeeps
    <2> QED
      BY <2>3, <2>4, <2>6 DEF Breaks
  <1>6. /\ waiting' = waiting \/ waiting' \in Seq(ReadyJobs)
        /\ sleeping' = sleeping \/ sleeping' \in Seq(SoundJobs)
    <2>1. ASSUME NEW k \in 1..Len(waiting), NEW c, Sleeps(k, c)
          PROVE  waiting' \in Seq(ReadyJobs) /\ sleeping' \in Seq(SoundJobs)
      <3>1. PICK j : j = waiting[k]
        OBVIOUS
      <3>2. /\ c \in FitJobs /\ c.initial = j.initial /\ c.trace = j.trace
            /\ c.snapshot = j.snapshot
            /\ waiting' = RemoveAt(waiting, k) /\ sleeping' = Append(sleeping, c)
        BY <2>1, <3>1 DEF Sleeps
      <3>3. j \in SoundJobs
        BY <3>1, <1>4 DEF ReadyJobs
      <3>4. c \in SoundJobs
        BY <3>2, <3>3 DEF SoundJobs, Founded
      <3>5. waiting' \in Seq(ReadyJobs)
        BY <3>2, <1>3, Removed
      <3>6. sleeping' \in Seq(SoundJobs)
        BY <3>2, <3>4, <1>3
      <3> QED
        BY <3>5, <3>6
    <2>2. ASSUME NEW k \in 1..Len(waiting), NEW next, GoesOn(k, next)
          PROVE  waiting' \in Seq(ReadyJobs) /\ sleeping' = sleeping
      <3>1. PICK j : j = waiting[k]
        OBVIOUS
      <3>2. /\ next \in Seq(WaitingJobs) /\ sleeping' = sleeping
            /\ waiting' = RemoveAt(waiting, k) \o next
            /\ \A n \in 1..Len(next) :
                  /\ next[n].initial = j.initial /\ next[n].snapshot = j.snapshot
                  /\ \E m \in NextModes(FullTrace(j)) : next[n].trace = Append(j.trace, m)
        BY <2>2, <3>1 DEF GoesOn
      <3>3. ASSUME NEW n \in 1..Len(next)
            PROVE  next[n] \in ReadyJobs
        <4>1. PICK c : c = next[n]
          OBVIOUS
        <4>2. c \in WaitingJobs
          BY <4>1, <3>2, ElementOfSeq
        <4>3. c \in FitJobs /\ c.human \in HumanSamples
          BY <4>2 DEF WaitingJobs
        <4>4. PICK m \in NextModes(FullTrace(j)) : c.trace = Append(j.trace, m)
          BY <4>1, <3>2
        <4>5. c.initial = j.initial /\ c.snapshot = j.snapshot /\ j \in ReadyJobs
          BY <4>1, <3>1, <3>2, <1>4
        <4>6. c \in ReadyJobs
          BY <4>3, <4>4, <4>5, <1>1, <1>2, NextReady
        <4> QED
          BY <4>1, <4>6
      <3>4. next \in Seq(ReadyJobs)
        BY <3>2, <3>3
      <3>5. RemoveAt(waiting, k) \in Seq(ReadyJobs)
        BY <1>3, Removed
      <3> QED
        BY <3>2, <3>4, <3>5, ConcatProperties
    <2> QED
      BY <2>1, <2>2, <1>1
  <1>7. ASSUME waiting' # <<>> \/ sleeping' # <<>>
        PROVE  latestMode # NoMode
    <2>1. \A k \in 1..Len(waiting) : waiting # <<>>
      BY EmptySeq DEF JobsInv
    <2> QED
      BY <2>1, <1>1, <1>2, <1>7 DEF SoundQueues
  <1>8. SoundQueues'
    BY <1>1, <1>2, <1>6, <1>7, QueuesStay
  <1> QED
    BY <1>5, <1>8 DEF SoundInv

LEMMA HandleSound == JobsInv /\ JobsInv' /\ SoundInv /\ Handle => SoundInv'
  <1> SUFFICES ASSUME JobsInv, JobsInv', SoundInv, Handle PROVE SoundInv'
    OBVIOUS
  <1>1. PICK woken, t : woken = Awoken /\ t = Latest.time
    OBVIOUS
  <1>2. /\ ~failure /\ failure' \in BOOLEAN /\ failure' = woken.failed
        /\ UNCHANGED <<presences, states, latestMode, latestTime, buffer, traces,
                       factory, instances>>
        /\ Handled(woken) \/ \E c : PromotedWith(woken, c)
    BY <1>1, HandleCases
  <1>3. HistoryInv /\ HistoryInv' /\ SoundQueues
    BY <1>2 DEF JobsInv, SoundInv
  <1>4. waiting \in Seq(ReadyJobs) /\ sleeping \in Seq(SoundJobs)
    BY <1>3 DEF SoundQueues
  <1>5. /\ woken.kept \in Seq(SoundJobs) /\ woken.moved \in Seq(ReadyJobs)
        /\ Assured => ~woken.failed
    BY <1>1, <1>2, <1>4, AwokenSound DEF SoundWakings
  <1>6. Assured' => ~failure'
    BY <1>2, <1>5, AssuredStays
  <1>7. waiting \o woken.moved \in Seq(ReadyJobs)
    BY <1>4, <1>5, ConcatProperties
  <1>8. CASE Handled(woken)
    <2>1. waiting' \in Seq(ReadyJobs) /\ sleeping' \in Seq(SoundJobs)
      BY <1>5, <1>7, <1>8 DEF Handled
    <2>2. ASSUME waiting' # <<>> \/ sleeping' # <<>>
          PROVE  latestMode # NoMode
      <3> SUFFICES ASSUME waiting = <<>>, sleeping = <<>> PROVE FALSE
        BY <1>3 DEF SoundQueues
      <3>1. woken.kept = <<>> /\ woken.moved = <<>>
        BY <1>1, AwokenNone
      <3>2. waiting \o woken.moved = <<>>
        BY <3>1
      <3> QED
        BY <3>1, <3>2, <2>2, <1>8 DEF Handled
    <2>3. SoundQueues'
      BY <2>1, <2>2, <1>2, <1>3, QueuesStay
    <2> QED
      BY <2>3, <1>6 DEF SoundInv
  <1>9. ASSUME NEW c, PromotedWith(woken, c)
        PROVE  SoundInv'
    <2>1. /\ HasInstance /\ c = NewJob(t, Latest.sample) /\ CanLookAhead(t, t)
          /\ \/ /\ c \in WaitingJobs
                /\ sleeping' = woken.kept /\ waiting' = waiting \o woken.moved \o <<c>>
             \/ sleeping' = woken.kept \o <<c>> /\ waiting' = waiting \o woken.moved
      BY <1>1, <1>9 DEF PromotedWith
    <2>2. PICK h : h = Latest.sample
      OBVIOUS
    <2>3. t \in 0..MaxTime /\ t <= latestTime /\ h \in HumanSamples \cup {NoSample} /\ t \in Nat
      BY <1>1, <2>1, <2>2, LatestIs, TimesAssumption DEF JobsInv, Instances
    <2>4. c \in SoundJobs /\ (h \in HumanSamples => c \in ReadyJobs)
      BY <1>2, <1>3, <2>1, <2>2, <2>3, NewJobReady
    <2>5. c \in WaitingJobs => c \in ReadyJobs
      <3>1. c.human = h
        BY <2>1, <2>2 DEF NewJob
      <3>2. c \in WaitingJobs => c.human \in HumanSamples
        BY DEF WaitingJobs
      <3> QED
        BY <3>1, <3>2, <2>4
    <2>6. PICK one : one = <<c>>
      OBVIOUS
    <2>7. one \in Seq(SoundJobs) /\ (c \in WaitingJobs => one \in Seq(ReadyJobs))
      BY <2>4, <2>5, <2>6
    <2>8. waiting' \in Seq(ReadyJobs) /\ sleeping' \in Seq(SoundJobs)
      <3>1. CASE c \in WaitingJobs /\ sleeping' = woken.kept /\ waiting' = waiting \o woken.moved \o one
        BY <3>1, <2>7, <1>5, <1>7, ConcatProperties
      <3>2. CASE sleeping' = woken.kept \o one /\ waiting' = waiting \o woken.moved
        BY <3>2, <2>7, <1>5, <1>7, ConcatProperties
      <3> QED
        BY <3>1, <3>2, <2>1, <2>6
    <2>9. latestMode # NoMode
      BY <1>2, <1>3, <2>1, <2>3, LookedAhead, PastIsSeen, ModesAssumption DEF Seen
    <2>10. SoundQueues'
      BY <2>8, <2>9, <1>2, <1>3, QueuesStay
    <2> QED
      BY <2>10, <1>6 DEF SoundInv
  <1> QED
    BY <1>2, <1>8, <1>9

LEMMA RobotStateSound == JobsInv /\ JobsInv' /\ SoundInv /\ RobotState => SoundInv'
  <1> SUFFICES ASSUME JobsInv, JobsInv', SoundInv, RobotState PROVE SoundInv'
    OBVIOUS
  <1>1. /\ HistoryNext /\ factory' = factory /\ waiting' = waiting /\ sleeping' = sleeping
    BY DEF RobotState, jobVars
  <1>2. HistoryInv /\ HistoryTypeOK
    BY DEF JobsInv, HistoryInv
  <1>3. ~failure /\ latestTime' \in Nat /\ latestTime <= latestTime' /\ SoundQueues
    BY <1>1, <1>2, TimesGrow, TimesAssumption DEF SoundInv
  <1>4. Assured' => ~failure'
    BY <1>1, <1>2, HistoryStep DEF Assured, Unpurged
  <1>5. CASE latestMode = NoMode
    <2>1. waiting = <<>> /\ sleeping = <<>>
      BY <1>3, <1>5 DEF SoundQueues
    <2>2. SoundQueues'
      BY <2>1, <1>1, EmptySeq DEF SoundQueues
    <2> QED
      BY <2>2, <1>4 DEF SoundInv
  <1>6. CASE latestMode # NoMode
    <2>1. Preserved
      BY <1>1, <1>2, <1>6, StatePreserves
    <2>2. \A q \in Seq(SoundJobs) : q \in Seq(SoundJobs)'
      BY <2>1, <1>1, <1>2, <1>3, JobsStay
    <2>3. \A q \in Seq(ReadyJobs) : q \in Seq(ReadyJobs)'
      BY <2>1, <1>1, <1>2, <1>3, JobsStay
    <2>4. waiting' \in Seq(ReadyJobs)' /\ sleeping' \in Seq(SoundJobs)'
      BY <2>2, <2>3, <1>1, <1>3 DEF SoundQueues
    <2>5. latestMode' # NoMode
      <3>1. PICK m \in Modes : \E p \in Places[m], gap \in Gaps : Acquire(m, p, latestTime + gap)
        BY <1>1 DEF HistoryNext
      <3>2. latestMode' = m
        BY <3>1 DEF Acquire
      <3> QED
        BY <3>2, ModesAssumption
    <2>6. ~failure' => SoundQueues'
      BY <2>4, <2>5 DEF SoundQueues
    <2> QED
      BY <2>6, <1>4 DEF SoundInv
  <1> QED
    BY <1>5, <1>6

\* The jobs are sound, and those that wait ready, whatever is done: with nothing purged
\* their snapshots are kept, and what has been looked up of them before can be looked
\* up again (state.cpp:320-383, runtime_io.cpp:184-203, runtime.cpp:153-190).
THEOREM SoundInvariance == Spec => []SoundInv
  <1>1. JobsInv /\ JobsInv' /\ SoundInv /\ HumanState => SoundInv'
    BY SoundStays DEF HumanState, history, jobVars
  <1>2. JobsInv /\ JobsInv' /\ SoundInv /\ UNCHANGED vars => SoundInv'
    BY SoundStays DEF vars, history, jobVars
  <1>3. JobsInv /\ JobsInv' /\ SoundInv /\ [Next]_vars => SoundInv'
    BY <1>1, <1>2, RobotStateSound, HandleSound, ProcessSound DEF Next
  <1> QED
    BY <1>3, SoundInitial, JobsInvariance, PTL DEF Spec

\* With the strong equivalence, as long as no purge has removed what a job may look
\* back to and no two states of the robot have the same time, no assertion on the way
\* of a job fails, for any geometry, policy, history and human states: a job has been
\* looked up in its snapshot when it was created or awakened, and the snapshot stays
\* (lookahead_job.cpp:157-218, lookahead_job_factory.cpp:35-185, state.cpp:320-415).
THEOREM StrongNeverFailsHolds == Spec => [](0 \notin Gaps /\ Unpurged => StrongNeverFails)
  <1>1. SoundInv => (0 \notin Gaps /\ Unpurged => StrongNeverFails)
    BY DEF SoundInv, Assured, StrongNeverFails
  <1> QED
    BY <1>1, SoundInvariance, PTL

\* The interval of a notification never goes below zero, for any geometry, factory and
\* history, as long as no purge has removed a presence: the longest time spent in the
\* starting mode only grows, and was more than the time spent in it when it was looked
\* up (runtime.cpp:170-178, runtime_io.cpp:184-203, state.cpp:320-331).
THEOREM NotificationInRangeHolds == Spec => [](Unpurged => NotificationInRange)
  <1>1. ASSUME JobsInv, SoundInv, Unpurged
        PROVE  NotificationInRange
    <2> SUFFICES ASSUME ~failure, NEW j \in ToSet(waiting), CanSearch(j), Search(j).hit >= 0,
                        HasIndex(Head(j.trace), j.initial, j.snapshot)
                 PROVE  IF Len(j.trace) = 1 THEN Search(j).hit >= Start(j)
                        ELSE RangeUpper(PresencesIn(Head(j.trace), j.snapshot)) >= Start(j)
      BY DEF NotificationInRange
    <2>1. j \in ReadyJobs
      <3>1. waiting \in Seq(ReadyJobs)
        BY <1>1 DEF SoundInv, SoundQueues
      <3>2. PICK k \in 1..Len(waiting) : j = waiting[k]
        BY <3>1 DEF ToSet
      <3> QED
        BY <3>1, <3>2, ElementOfSeq
    <2>2. /\ j \in FitJobs /\ j.human \in HumanSamples /\ Reaches(j)
          /\ HasEntry(Head(j.trace), j.initial)
      BY <2>1, <1>1 DEF ReadyJobs, SoundJobs, HasIndex
    <2>3. First(j) \in Nat /\ First(j) <= Search(j).hit
      BY <2>2, <1>1, SearchKeeps DEF JobsInv
    <2>4. CASE Len(j.trace) = 1
      <3>1. First(j) = Start(j)
        BY <2>4 DEF First
      <3> QED
        BY <2>3, <2>4, <3>1
    <2>5. CASE Len(j.trace) # 1
      BY <2>2, <2>5 DEF Reaches
    <2> QED
      BY <2>4, <2>5
  <1> QED
    BY <1>1, JobsInvariance, SoundInvariance, PTL
=============================================================================
