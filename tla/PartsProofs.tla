------------------------------- MODULE PartsProofs ------------------------------
(***************************************************************************)
(* Proofs about what the look-ahead is built from, for any times, period,     *)
(* retention and distances that obey the triangle inequality.                *)
(*                                                                         *)
(* The history of a robot (RobotHistory): its inductive invariant, and what   *)
(* follows from it of traces, samples, snapshots and the modes that may come  *)
(* next.  HistoryInv: the presences are linked one to the next, the traces    *)
(* follow them, the samples of a mode grow and cover each of its presences,   *)
(* and the buffer is ahead of what is stored for the current mode, unless     *)
(* the robot is new or a purge has failed.                                  *)
(*                                                                         *)
(* Then the operators: the comparisons of modes (ModeValues), the samples of  *)
(* segments and their distances (Segments), and barriers (Barriers): what a   *)
(* check tells, the bisection, and the order that checks keep.               *)
(***************************************************************************)
EXTENDS HistoryReaders, Barriers, ModeValues, Segments,
        SequenceTheorems, FiniteSetTheorems, WellFoundedInduction, TLAPS

-----------------------------------------------------------------------------
(* Searches in the entries of the history, and the number of samples of a time.*)

\* A set of numbers has a least one: the intervals 1..n are ordered by inclusion.
LEMMA LeastOf ==
    ASSUME NEW T, T \subseteq Nat, T # {}
    PROVE  \E n \in T : \A i \in T : ~(i < n)
  <1> DEFINE R == StrictSubsetOrdering(Nat)
             Below == {1..i : i \in T}
  <1>1. Below # {} /\ Below \subseteq FiniteSubsetsOf(Nat)
    <2>1. \A i \in T : i \in Nat /\ IsFiniteSet(1..i)
      BY FS_Interval
    <2>2. \A i \in T : 1..i \in FiniteSubsetsOf(Nat)
      BY <2>1 DEF FiniteSubsetsOf
    <2> QED BY <2>2
  <1>2. \E X \in Below : \A Y \in Below : ~(<<Y, X>> \in R)
    <2>1. IsWellFoundedOn(R, FiniteSubsetsOf(Nat))
      BY FS_StrictSubsetOrderingWellFounded
    <2> HIDE DEF R, Below
    <2> QED BY <1>1, <2>1, WFMin
  <1>3. PICK n \in T : \A Y \in Below : ~(<<Y, 1..n>> \in R)
    BY <1>2
  <1>4. ASSUME NEW i \in T, i < n
        PROVE  FALSE
    <2>1. i \in Nat /\ n \in Nat
      OBVIOUS
    <2>2. n \in 1..n /\ n \notin 1..i
      BY <1>4, <2>1
    <2>3. 1..i \subseteq 1..n /\ 1..i # 1..n /\ 1..n \subseteq Nat
      <3>1. 1..i \subseteq 1..n /\ 1..n \subseteq Nat
        BY <1>4, <2>1
      <3> QED BY <2>2, <3>1
    <2>4. <<1..i, 1..n>> \in R
      BY <2>3 DEF StrictSubsetOrdering
    <2> QED BY <1>3, <2>4
  <1> QED
    BY <1>3, <1>4

\* The time of a number of samples (state.cpp:286).
LEMMA Divides ==
    ASSUME NEW a \in Nat
    PROVE  a \div Step \in Nat /\ Step * (a \div Step) <= a /\ a < Step * (a \div Step) + Step
  BY TimesAssumption

LEMMA Mult ==
    ASSUME NEW a \in Nat, NEW b \in Nat, NEW c \in Nat, a <= b
    PROVE c * a <= c * b
  OBVIOUS

LEMMA DivideBounds ==
    ASSUME NEW a \in Nat, NEW n \in Nat
    PROVE  /\ a > Step * n => a \div Step >= n
           /\ a <= Step * n => a \div Step <= n
           /\ a < Step * n => a \div Step < n
  <1> DEFINE q == a \div Step
  <1>1. q \in Nat /\ Step * q <= a /\ a < Step * q + Step
    BY Divides
  <1>2. Step \in Nat \ {0}
    BY TimesAssumption
  <1> HIDE DEF q
  <1>3. Step * (q + 1) = Step * q + Step
    BY <1>1, <1>2
  <1>4. q + 1 <= n => Step * (q + 1) <= Step * n
    BY <1>1, <1>2, Mult
  <1>5. n <= q => Step * n <= Step * q
    BY <1>1, <1>2, Mult
  <1>6. n + 1 <= q => Step * (n + 1) <= Step * q
    BY <1>1, <1>2, Mult
  <1>7. Step * (n + 1) = Step * n + Step
    BY <1>2
  <1>8. Step * n \in Nat /\ Step * q \in Nat
    BY <1>1, <1>2
  <1>9. a > Step * n => q >= n
    BY <1>1, <1>2, <1>3, <1>4, <1>8
  <1>10. a <= Step * n => q <= n
    BY <1>1, <1>2, <1>6, <1>7, <1>8
  <1>11. a < Step * n => q < n
    BY <1>1, <1>5, <1>8
  <1> QED
    BY <1>9, <1>10, <1>11 DEF q

\* The entry found from the front is the first of those that match.
LEMMA MinIs ==
    ASSUME NEW T, T \subseteq Nat, T # {}
    PROVE  Min(T) \in T /\ \A i \in T : Min(T) <= i
  <1>1. PICK n \in T : \A i \in T : ~(i < n)
    BY LeastOf
  <1>2. \A i \in T : n =< i
    BY <1>1
  <1> QED
    BY <1>2 DEF Min

\* The entry found from the back is the last of those that match.
LEMMA MaxIs ==
    ASSUME NEW n \in Nat, NEW T, T \subseteq 1..n, T # {}
    PROVE  Max(T) \in T /\ \A i \in T : i <= Max(T)
  <1> DEFINE U == {n - i : i \in T}
  <1>1. U \subseteq Nat /\ U # {}
    <2>1. \A i \in T : n - i \in Nat
      OBVIOUS
    <2> QED
      BY <2>1
  <1>2. PICK u \in U : \A i \in U : ~(i < u)
    BY <1>1, LeastOf
  <1>3. PICK k \in T : u = n - k
    BY <1>2
  <1>4. \A i \in T : k >= i
    <2> TAKE i \in T
    <2>1. n - i \in U
      OBVIOUS
    <2>2. ~(n - i < n - k)
      BY <2>1, <1>2, <1>3
    <2> QED
      BY <2>2
  <1>5. \E x \in T : \A y \in T : x >= y
    BY <1>4
  <1>6. Max(T) \in T /\ \A i \in T : Max(T) >= i
    BY <1>5 DEF Max
  <1> QED
    BY <1>6

\* The last entry that is not later than s.
LEMMA LastUpToIs ==
    ASSUME NEW E, Len(E) \in Nat, NEW s \in Nat
    PROVE  /\ LastUpTo(E, s) \in 0..Len(E)
           /\ LastUpTo(E, s) > 0 => E[LastUpTo(E, s)].time <= s
           /\ \A k \in 1..Len(E) : E[k].time <= s => k <= LastUpTo(E, s)
  <1> DEFINE I == {i \in 1..Len(E) : E[i].time <= s}
  <1>1. LastUpTo(E, s) = IF I # {} THEN Max(I) ELSE 0
    BY DEF LastUpTo, SelectLastInSeq
  <1>2. I # {} => Max(I) \in I /\ \A i \in I : i <= Max(I)
    BY MaxIs
  <1> QED
    BY <1>1, <1>2

LEMMA LastUpToEquals ==
    ASSUME NEW E, Len(E) \in Nat, NEW s \in Nat, NEW n \in 0..Len(E),
           n > 0 => E[n].time <= s,
           \A k \in (n + 1)..Len(E) : ~(E[k].time <= s)
    PROVE  LastUpTo(E, s) = n
  <1> DEFINE K == LastUpTo(E, s)
  <1>1. /\ K \in 0..Len(E) /\ (K > 0 => E[K].time <= s)
        /\ \A k \in 1..Len(E) : E[k].time <= s => k <= K
    BY LastUpToIs
  <1> HIDE DEF K
  <1>2. ~(K > n)
    <2> SUFFICES ASSUME K > n PROVE FALSE
      OBVIOUS
    <2>1. K \in (n + 1)..Len(E) /\ K > 0
      BY <1>1
    <2> QED
      BY <2>1, <1>1
  <1>3. n <= K
    <2>1. CASE n = 0
      BY <2>1, <1>1
    <2>2. CASE n > 0
      <3>1. n \in 1..Len(E) /\ E[n].time <= s
        BY <2>2
      <3> QED
        BY <3>1, <1>1
    <2> QED
      BY <2>1, <2>2
  <1> QED
    BY <1>1, <1>2, <1>3 DEF K

\* Entries that are later than s change nothing.
LEMMA LastUpToAppend ==
    ASSUME NEW R, NEW E \in Seq(R), NEW s \in Nat, NEW e \in R, ~(e.time <= s)
    PROVE  LastUpTo(Append(E, e), s) = LastUpTo(E, s)
  <1> DEFINE F == Append(E, e)
             n == LastUpTo(E, s)
  <1>1. /\ Len(E) \in Nat /\ Len(F) = Len(E) + 1 /\ F[Len(E) + 1] = e
        /\ \A k \in 1..Len(E) : F[k] = E[k]
    OBVIOUS
  <1>2. /\ n \in 0..Len(E) /\ (n > 0 => E[n].time <= s)
        /\ \A k \in 1..Len(E) : E[k].time <= s => k <= n
    BY <1>1, LastUpToIs
  <1>3. n \in 0..Len(F) /\ (n > 0 => F[n].time <= s)
    BY <1>1, <1>2
  <1>4. \A k \in (n + 1)..Len(F) : ~(F[k].time <= s)
    BY <1>1, <1>2
  <1>5. Len(F) \in Nat
    BY <1>1
  <1> HIDE DEF F, n
  <1>6. LastUpTo(F, s) = n
    BY <1>3, <1>4, <1>5, LastUpToEquals
  <1> QED
    BY <1>6 DEF F, n

-----------------------------------------------------------------------------
(* The presences and traces of a robot, when its mode changes.              *)

\* The types of the entries of the history, and what its presences and traces have in common.
TraceEntry == [time : 0..MaxTime, trace : Seq(Modes)]

\* The presences up to now, t, in mode m: each starts as the one before ends, in the
\* mode it was left for, which is another, and only the first, of no length, is of
\* no mode.
Linked(ps, m, t) ==
    /\ ps # <<>>
    /\ \A k \in 1..Len(ps) :
          /\ ps[k].from <= ps[k].to /\ ps[k].to <= t
          /\ ps[k].mode = NoMode => k = 1 /\ ps[k].from = ps[k].to
    /\ \A k \in 1..(Len(ps) - 1) : ps[k].exit = ps[k + 1].mode /\ ps[k].to = ps[k + 1].from
    /\ Last(ps).exit = m
    /\ \A i, k \in 1..Len(ps) : i <= k => ps[i].to <= ps[k].to
    /\ \A k \in 1..Len(ps) : ps[k].exit # ps[k].mode

\* The number of presences that have added no mode to the traces.
Skipped(ps) == IF ps[1].mode = NoMode THEN 1 ELSE 0

\* There is a trace for each presence, of the time of its end, with the modes of
\* the presences up to it; the first of a history is empty, as its presence.
Follow(ts, ps) ==
    /\ Len(ts) = Len(ps)
    /\ \A k \in 1..Len(ts) :
          /\ ts[k].time = IF k > Skipped(ps) THEN ps[k].to ELSE 0
          /\ Len(ts[k].trace) = k - Skipped(ps)
          /\ \A i \in 1..(k - Skipped(ps)) : ts[k].trace[i] = ps[i + Skipped(ps)].mode

\* Before the first state.
Fresh ==
    /\ presences = <<>> /\ latestMode = NoMode /\ buffer = <<>>
    /\ states = [m \in Modes |-> <<>>]
    /\ traces = <<[time |-> 0, trace |-> <<>>]>>

\* From the first state on, unless a purge has emptied the history.
Seen ==
    /\ latestMode \in Modes
    /\ Linked(presences, latestMode, latestTime)
    /\ Follow(traces, presences)

LEMMA PresenceTimes ==
    ASSUME NEW p \in Presence
    PROVE  /\ p.from \in Nat /\ p.to \in Nat /\ p.from \in 0..MaxTime /\ p.to \in 0..MaxTime
           /\ p.mode \in Modes \cup {NoMode} /\ p.exit \in Modes
  BY TimesAssumption DEF Presence

LEMMA PresencesAre ==
    ASSUME NEW ps \in Seq(Presence)
    PROVE  /\ Len(ps) \in Nat
           /\ \A k \in 1..Len(ps) : ps[k] \in Presence /\ ps[k].from \in Nat /\ ps[k].to \in Nat
           /\ ps # <<>> => Len(ps) > 0
  BY PresenceTimes

\* A change of mode adds a presence that continues the last.
LEMMA EnteredPresences ==
    ASSUME HistoryTypeOK, NEW m \in Modes, NEW t \in 0..MaxTime, latestTime <= t,
           Fresh \/ Seen
    PROVE  /\ Entered(m, t).presences \in Seq(Presence)
           /\ Linked(Entered(m, t).presences, m, t)
  <1> DEFINE p == PresenceLeft(m, t)
             n == Len(presences)
  <1>1. p \in Presence /\ p.mode = latestMode /\ p.exit = m /\ p.to = t
    <2>1. ASSUME presences # <<>> PROVE Last(presences).to \in 0..MaxTime
      <3>1. presences[Len(presences)] \in Presence
        BY <2>1, PresencesAre DEF HistoryTypeOK
      <3> QED
        BY <3>1, PresenceTimes DEF Last
    <2> QED
      BY <2>1 DEF PresenceLeft, Presence, HistoryTypeOK
  <1>2. presences \in Seq(Presence) /\ n \in Nat /\ latestTime \in Nat /\ t \in Nat
    BY TimesAssumption DEF HistoryTypeOK
  <1>3. CASE Fresh
    <2>1. Entered(m, t).presences = Append(presences, p) /\ p.from = t
      BY <1>3, ModesAssumption DEF Entered, Fresh, PresenceLeft
    <2>2. Append(presences, p) = <<p>>
      BY <1>3 DEF Fresh
    <2>3. <<p>> \in Seq(Presence) /\ Len(<<p>>) = 1 /\ <<p>>[1] = p
      BY <1>1
    <2>4. Linked(<<p>>, m, t)
      <3>1. p.exit # p.mode
        BY <1>1, <1>3, ModesAssumption DEF Fresh
      <3> QED
        BY <3>1, <2>3, <2>1, <1>1, <1>2 DEF Linked, Last
    <2> QED
      BY <2>1, <2>2, <2>3, <2>4
  <1>4. CASE Seen /\ m = latestMode
    <2>1. Entered(m, t).presences = presences
      BY <1>4 DEF Entered
    <2>2. \A k \in 1..n : presences[k].to \in Nat
      BY <1>2, PresencesAre
    <2>3. Linked(presences, m, t)
      BY <1>4, <1>2, <2>2 DEF Seen, Linked
    <2> QED
      BY <2>1, <2>3, <1>2
  <1>5. CASE Seen /\ m # latestMode
    <2> DEFINE q == Append(presences, p)
    <2>1. Entered(m, t).presences = q
      BY <1>5 DEF Entered
    <2>2. /\ n > 0 /\ Len(q) = n + 1 /\ q[n + 1] = p /\ q \in Seq(Presence)
          /\ \A k \in 1..n : q[k] = presences[k]
      BY <1>1, <1>2, <1>5 DEF Seen, Linked
    <2>3. p.from = presences[n].to /\ p.mode # NoMode
      BY <1>1, <1>5, <2>2, ModesAssumption DEF Seen, Linked, PresenceLeft, Last
    <2>4. /\ \A k \in 1..n : presences[k].to \in Nat /\ presences[k].to <= t
          /\ \A k \in 1..n : presences[k].to <= presences[n].to
          /\ presences[n].exit = latestMode
      <3>1. \A k \in 1..n : presences[k].to \in Nat
        BY <1>2, PresencesAre
      <3> QED
        BY <3>1, <1>5, <1>2, <2>2 DEF Seen, Linked, Last
    <2> HIDE DEF q, p, n
    <2>5. \A k \in 1..Len(q) :
          /\ q[k].from <= q[k].to /\ q[k].to <= t
          /\ q[k].mode = NoMode => k = 1 /\ q[k].from = q[k].to
      <3>1. \A k \in 1..n : /\ presences[k].from <= presences[k].to
                            /\ presences[k].mode = NoMode => k = 1 /\ presences[k].from = presences[k].to
        BY <1>5 DEF Seen, Linked, n
      <3>2. p.from <= p.to
        BY <1>1, <2>3, <2>4, <2>2, <1>2
      <3> QED
        BY <3>1, <3>2, <2>2, <2>3, <2>4, <1>1, <1>2
    <2>6. \A k \in 1..(Len(q) - 1) : q[k].exit = q[k + 1].mode /\ q[k].to = q[k + 1].from
      <3>1. \A k \in 1..(n - 1) : presences[k].exit = presences[k + 1].mode /\ presences[k].to = presences[k + 1].from
        BY <1>5 DEF Seen, Linked, n
      <3>2. TAKE k \in 1..(Len(q) - 1)
      <3>3. CASE k = n
        BY <3>3, <2>2, <2>3, <2>4, <1>1, <1>2
      <3>4. CASE k # n
        <4>1. k \in 1..(n - 1) /\ k + 1 \in 1..n /\ k \in 1..n
          BY <3>4, <2>2, <1>2
        <4> QED
          BY <3>1, <4>1, <2>2
      <3> QED
        BY <3>3, <3>4, Zenon
    <2>7. Last(q).exit = m
      BY <2>2, <1>1 DEF Last
    <2>8. \A i, k \in 1..Len(q) : i <= k => q[i].to <= q[k].to
      <3>1. \A i, k \in 1..n : i <= k => presences[i].to <= presences[k].to
        BY <1>5 DEF Seen, Linked, n
      <3> QED
        BY <3>1, <2>2, <2>4, <1>1, <1>2
    <2>9. q # <<>>
      BY <2>2, <1>2
    <2>10. \A k \in 1..Len(q) : q[k].exit # q[k].mode
      <3>1. \A k \in 1..n : presences[k].exit # presences[k].mode
        BY <1>5 DEF Seen, Linked, n
      <3> QED
        BY <3>1, <2>2, <1>1, <1>2, <1>5
    <2> QED
      BY <2>1, <2>2, <2>5, <2>6, <2>7, <2>8, <2>9, <2>10 DEF Linked
  <1> QED
    BY <1>3, <1>4, <1>5

\* A change of mode adds the trace of the presence it adds.
LEMMA EnteredTraces ==
    ASSUME HistoryTypeOK, NEW m \in Modes, NEW t \in 0..MaxTime, latestTime <= t,
           Fresh \/ Seen
    PROVE  /\ Entered(m, t).traces \in Seq(TraceEntry)
           /\ Follow(Entered(m, t).traces, Entered(m, t).presences)
  <1> DEFINE p == PresenceLeft(m, t)
             n == Len(presences)
  <1>1. p.mode = latestMode /\ p.to = t
    BY DEF PresenceLeft
  <1>2. /\ presences \in Seq(Presence) /\ n \in Nat /\ t \in Nat
        /\ traces \in Seq(TraceEntry)
    BY TimesAssumption DEF HistoryTypeOK, TraceEntry
  <1>3. CASE Fresh
    <2>1. Entered(m, t).presences = <<p>> /\ Entered(m, t).traces = traces
      BY <1>3, ModesAssumption DEF Entered, Fresh, TraceLeaving
    <2>2. Len(<<p>>) = 1 /\ <<p>>[1] = p /\ Skipped(<<p>>) = 1
      BY <1>1, <1>3 DEF Skipped, Fresh
    <2>3. Len(traces) = 1 /\ traces[1].time = 0 /\ traces[1].trace = <<>>
      BY <1>3 DEF Fresh
    <2> HIDE DEF p
    <2> QED
      BY <2>1, <2>2, <2>3, <1>2 DEF Follow
  <1>4. CASE Seen /\ m = latestMode
    BY <1>2, <1>4 DEF Entered, Seen
  <1>5. CASE Seen /\ m # latestMode
    <2> DEFINE q == Append(presences, p)
               B == Skipped(presences)
               e == [time |-> t, trace |-> Append(Last(traces).trace, latestMode)]
               u == Append(traces, e)
    <2>1. Entered(m, t).presences = q /\ Entered(m, t).traces = u
      BY <1>5, ModesAssumption DEF Entered, TraceLeaving, Seen
    <2>2. /\ n > 0 /\ Len(q) = n + 1 /\ q[n + 1] = p
          /\ \A k \in 1..n : q[k] = presences[k]
      BY <1>2, <1>5 DEF Seen, Linked
    <2>3. Len(traces) = n /\ B \in {0, 1}
      BY <1>5 DEF Seen, Follow, Skipped
    <2> DEFINE o == Last(traces).trace
    <2>4. /\ Len(o) = n - B /\ n - B \in Nat /\ o \in Seq(Modes)
          /\ \A i \in 1..(n - B) : o[i] = presences[i + B].mode
      <3>1. n \in 1..Len(traces) /\ Last(traces) = traces[n] /\ Last(traces) \in TraceEntry
        BY <2>2, <2>3, <1>2 DEF Last
      <3> QED
        BY <3>1, <2>2, <2>3, <1>5, <1>2 DEF Seen, Follow, TraceEntry
    <2>5. /\ e.time = t /\ e.trace \in Seq(Modes) /\ Len(e.trace) = n + 1 - B
          /\ e.trace[n + 1 - B] = latestMode
          /\ \A i \in 1..(n - B) : e.trace[i] = o[i]
      BY <2>4, <2>2, <2>3, <1>2, <1>5 DEF Seen
    <2>6. e \in TraceEntry
      BY <2>5, <1>5 DEF TraceEntry, Seen
    <2>7. /\ u \in Seq(TraceEntry) /\ Len(u) = n + 1 /\ u[n + 1] = e
          /\ \A k \in 1..n : u[k] = traces[k]
      BY <2>6, <2>3, <1>2
    <2>8. Skipped(q) = B
      BY <2>2, <1>2 DEF Skipped
    <2>9. \A k \in 1..n :
          /\ traces[k].time = IF k > B THEN presences[k].to ELSE 0
          /\ Len(traces[k].trace) = k - B
          /\ \A i \in 1..(k - B) : traces[k].trace[i] = presences[i + B].mode
      BY <2>3, <1>5 DEF Seen, Follow
    <2> HIDE DEF u, q, e, p, B, o, n
    <2>10. \A i \in 1..(n + 1 - B) : e.trace[i] = q[i + B].mode
      <3> TAKE i \in 1..(n + 1 - B)
      <3>1. CASE i = n + 1 - B
        <4>1. i + B = n + 1
          BY <3>1, <2>3, <1>2
        <4> QED
          BY <3>1, <4>1, <2>2, <2>5, <1>1
      <3>2. CASE i # n + 1 - B
        <4>1. i \in 1..(n - B) /\ i + B \in 1..n
          BY <3>2, <2>3, <1>2
        <4> QED
          BY <4>1, <2>2, <2>4, <2>5
      <3> QED
        BY <3>1, <3>2
    <2>11. /\ u[n + 1].time = IF n + 1 > B THEN q[n + 1].to ELSE 0
           /\ Len(u[n + 1].trace) = n + 1 - B
           /\ \A i \in 1..(n + 1 - B) : u[n + 1].trace[i] = q[i + B].mode
      BY <2>2, <2>3, <2>5, <2>7, <2>10, <1>1, <1>2
    <2>12. \A k \in 1..n :
          /\ u[k].time = IF k > B THEN q[k].to ELSE 0
          /\ Len(u[k].trace) = k - B
          /\ \A i \in 1..(k - B) : u[k].trace[i] = q[i + B].mode
      <3> TAKE k \in 1..n
      <3>1. \A i \in 1..(k - B) : i + B \in 1..n
        BY <2>3, <1>2
      <3> QED
        BY <3>1, <2>2, <2>7, <2>9
    <2>13. \A k \in 1..(n + 1) :
          /\ u[k].time = IF k > B THEN q[k].to ELSE 0
          /\ Len(u[k].trace) = k - B
          /\ \A i \in 1..(k - B) : u[k].trace[i] = q[i + B].mode
      <3> TAKE k \in 1..(n + 1)
      <3>1. CASE k = n + 1
        BY <3>1, <2>11, <2>3, <1>2
      <3>2. CASE k # n + 1
        <4>1. k \in 1..n
          BY <3>2, <1>2
        <4> QED
          BY <4>1, <2>12
      <3> QED
        BY <3>1, <3>2
    <2>14. Follow(u, q)
      BY <2>2, <2>7, <2>8, <2>13 DEF Follow
    <2> QED
      BY <2>1, <2>7, <2>14
  <1> QED
    BY <1>3, <1>4, <1>5

-----------------------------------------------------------------------------
(* The purge of old presences and traces.                                   *)

LEMMA Suffix ==
    ASSUME NEW R, NEW q \in Seq(R), NEW a \in 1..Len(q)
    PROVE  /\ SubSeq(q, a, Len(q)) \in Seq(R)
           /\ Len(SubSeq(q, a, Len(q))) = Len(q) - a + 1
           /\ \A k \in 1..(Len(q) - a + 1) : SubSeq(q, a, Len(q))[k] = q[a - 1 + k]
           /\ a = 1 => SubSeq(q, a, Len(q)) = q
  OBVIOUS

\* What remains of the presences after a purge is linked.
LEMMA SuffixLinked ==
    ASSUME NEW ps \in Seq(Presence), NEW m, NEW t \in 0..MaxTime, Linked(ps, m, t),
           NEW a \in 1..Len(ps)
    PROVE  Linked(SubSeq(ps, a, Len(ps)), m, t)
  <1> DEFINE q == SubSeq(ps, a, Len(ps))
             n == Len(ps) - a + 1
  <1>1. /\ Len(q) = n /\ n \in Nat /\ n >= 1 /\ q # <<>>
        /\ \A k \in 1..n : q[k] = ps[a - 1 + k]
    <2>1. /\ Len(q) = n /\ q \in Seq(Presence)
          /\ \A k \in 1..n : q[k] = ps[a - 1 + k]
      BY Suffix
    <2>2. n \in Nat /\ n >= 1
      BY PresencesAre
    <2> HIDE DEF q, n
    <2>3. q # <<>>
      BY <2>1, <2>2
    <2> QED
      BY <2>1, <2>2, <2>3
  <1>2. \A k \in 1..n : a - 1 + k \in 1..Len(ps)
    BY PresencesAre
  <1>3. \A k \in 1..(n - 1) : a - 1 + k \in 1..(Len(ps) - 1) /\ a - 1 + (k + 1) = (a - 1 + k) + 1
                              /\ k \in 1..n /\ k + 1 \in 1..n
    BY PresencesAre
  <1>4. a - 1 + n = Len(ps) /\ n \in 1..n
    BY <1>1
  <1> HIDE DEF q, n
  <1>5. \A k \in 1..Len(q) :
          /\ q[k].from <= q[k].to /\ q[k].to <= t
          /\ q[k].mode = NoMode => k = 1 /\ q[k].from = q[k].to
    <2> TAKE k \in 1..Len(q)
    <2>1. a - 1 + k \in 1..Len(ps) /\ q[k] = ps[a - 1 + k] /\ (a - 1 + k = 1 => k = 1)
      BY <1>1, <1>2
    <2> QED
      BY <2>1 DEF Linked
  <1>6. \A k \in 1..(Len(q) - 1) : q[k].exit = q[k + 1].mode /\ q[k].to = q[k + 1].from
    <2> TAKE k \in 1..(Len(q) - 1)
    <2>1. /\ a - 1 + k \in 1..(Len(ps) - 1) /\ q[k] = ps[a - 1 + k]
          /\ q[k + 1] = ps[(a - 1 + k) + 1]
      <3>1. k \in 1..(n - 1)
        BY <1>1
      <3>2. /\ a - 1 + k \in 1..(Len(ps) - 1) /\ a - 1 + (k + 1) = (a - 1 + k) + 1
            /\ k \in 1..n /\ k + 1 \in 1..n
        BY <3>1, <1>3
      <3>3. q[k + 1] = ps[a - 1 + (k + 1)] /\ q[k] = ps[a - 1 + k]
        BY <3>2, <1>1
      <3> QED
        BY <3>2, <3>3
    <2> QED
      BY <2>1 DEF Linked
  <1>7. Last(q).exit = m
    BY <1>1, <1>4 DEF Linked, Last
  <1>8. \A i, k \in 1..Len(q) : i <= k => q[i].to <= q[k].to
    <2> TAKE i, k \in 1..Len(q)
    <2>1. /\ a - 1 + k \in 1..Len(ps) /\ q[k] = ps[a - 1 + k]
          /\ a - 1 + i \in 1..Len(ps) /\ q[i] = ps[a - 1 + i]
      BY <1>1, <1>2
    <2>2. i <= k => a - 1 + i <= a - 1 + k
      BY <1>1
    <2> QED
      BY <2>1, <2>2 DEF Linked
  <1>9. \A k \in 1..Len(q) : q[k].exit # q[k].mode
    <2> TAKE k \in 1..Len(q)
    <2>1. a - 1 + k \in 1..Len(ps) /\ q[k] = ps[a - 1 + k]
      BY <1>1, <1>2
    <2> QED
      BY <2>1 DEF Linked
  <1>10. Linked(q, m, t)
    BY <1>1, <1>5, <1>6, <1>7, <1>8, <1>9 DEF Linked
  <1> QED
    BY <1>10 DEF q

LEMMA TracesAre ==
    ASSUME NEW ts \in Seq(TraceEntry)
    PROVE  /\ Len(ts) \in Nat
           /\ \A k \in 1..Len(ts) : ts[k] \in TraceEntry /\ ts[k].time \in 0..MaxTime /\ ts[k].trace \in Seq(Modes)
  <1>1. \A k \in 1..Len(ts) : ts[k] \in TraceEntry
    OBVIOUS
  <1> QED
    BY <1>1 DEF TraceEntry

\* Traces that grow by one mode each are reduced to as many modes as there are traces.
LEMMA TracesReduced ==
    ASSUME NEW ts \in Seq(TraceEntry), NEW b \in Nat,
           \A k \in 1..Len(ts) : Len(ts[k].trace) = b + k
    PROVE  /\ ReduceTraces(ts) \in Seq(TraceEntry) /\ Len(ReduceTraces(ts)) = Len(ts)
           /\ \A k \in 1..Len(ts) :
                 /\ ReduceTraces(ts)[k].time = ts[k].time
                 /\ Len(ReduceTraces(ts)[k].trace) = k
                 /\ \A i \in 1..k : ReduceTraces(ts)[k].trace[i] = ts[k].trace[b + i]
           /\ b = 0 => ReduceTraces(ts) = ts
  <1> DEFINE size(k) == Len(ts[k].trace)
             desired(k) == Cardinality({size(j) : j \in 1..k})
             R == ReduceTraces(ts)
  <1>1. R = [k \in 1..Len(ts) |-> [ts[k] EXCEPT !.trace =
                ReduceBetween(@, size(k) - desired(k) + 1, size(k))]]
    BY DEF ReduceTraces
  <1>2. \A k \in 1..Len(ts) : desired(k) = k
    <2> TAKE k \in 1..Len(ts)
    <2>1. {size(j) : j \in 1..k} = (b + 1)..(b + k)
      <3>1. \A j \in 1..k : size(j) = b + j
        OBVIOUS
      <3>2. \A x \in (b + 1)..(b + k) : x - b \in 1..k /\ size(x - b) = x
        BY <3>1
      <3>3. \A j \in 1..k : b + j \in (b + 1)..(b + k)
        OBVIOUS
      <3> HIDE DEF size
      <3> QED
        BY <3>1, <3>2, <3>3
    <2>2. Cardinality((b + 1)..(b + k)) = k
      <3>1. b + 1 <= b + k /\ b + 1 \in Int /\ b + k \in Int /\ (b + k) - (b + 1) + 1 = k
        OBVIOUS
      <3> QED
        BY <3>1, FS_Interval
    <2> HIDE DEF size
    <2> QED
      BY <2>1, <2>2
  <1>3. \A k \in 1..Len(ts) :
           R[k] = [ts[k] EXCEPT !.trace = SubSeq(ts[k].trace, b + 1, b + k)]
    <2> TAKE k \in 1..Len(ts)
    <2>1. size(k) - desired(k) + 1 = b + 1 /\ size(k) = b + k
      <3>1. size(k) = b + k /\ desired(k) = k
        BY <1>2
      <3> HIDE DEF size, desired
      <3> QED
        BY <3>1
    <2> HIDE DEF size, desired
    <2> QED
      BY <1>1, <2>1 DEF ReduceBetween
  <1> HIDE DEF R
  <1>4. \A k \in 1..Len(ts) :
          /\ R[k].time = ts[k].time /\ R[k].trace = SubSeq(ts[k].trace, b + 1, b + k)
          /\ R[k] \in TraceEntry
          /\ Len(R[k].trace) = k
          /\ \A i \in 1..k : R[k].trace[i] = ts[k].trace[b + i]
          /\ b = 0 => R[k] = ts[k]
    <2> TAKE k \in 1..Len(ts)
    <2> DEFINE tr == ts[k].trace
    <2>1. ts[k] \in TraceEntry /\ tr \in Seq(Modes) /\ Len(tr) = b + k /\ b + 1 \in 1..(b + k)
      BY TracesAre
    <2>2. /\ SubSeq(tr, b + 1, b + k) \in Seq(Modes)
          /\ Len(SubSeq(tr, b + 1, b + k)) = k
          /\ \A i \in 1..k : SubSeq(tr, b + 1, b + k)[i] = tr[b + i]
          /\ b = 0 => SubSeq(tr, b + 1, b + k) = tr
      BY <2>1
    <2> HIDE DEF tr
    <2>3. R[k] = [ts[k] EXCEPT !.trace = SubSeq(tr, b + 1, b + k)]
      BY <1>3 DEF tr
    <2>4. R[k].time = ts[k].time /\ R[k].trace = SubSeq(tr, b + 1, b + k) /\ R[k] \in TraceEntry
      BY <2>1, <2>2, <2>3 DEF TraceEntry
    <2>5. b = 0 => R[k] = ts[k]
      BY <2>1, <2>2, <2>3 DEF TraceEntry, tr
    <2> QED
      BY <2>2, <2>4, <2>5 DEF tr
  <1>5. Len(ts) \in Nat
    OBVIOUS
  <1>6. R \in Seq(TraceEntry) /\ Len(R) = Len(ts)
    <2>1. R = [k \in 1..Len(ts) |-> R[k]]
      <3> HIDE DEF size, desired
      <3> QED
        BY <1>1, Zenon
    <2>2. \A k \in 1..Len(ts) : R[k] \in TraceEntry
      BY <1>4
    <2> QED
      BY <2>1, <2>2, <1>5
  <1>7. b = 0 => R = ts
    <2> SUFFICES ASSUME b = 0 PROVE R = ts
      OBVIOUS
    <2>1. \A k \in 1..Len(ts) : R[k] = ts[k]
      BY <1>4
    <2> QED
      BY <2>1, <1>6
  <1> QED
    BY <1>4, <1>6, <1>7 DEF R

\* The purge cuts presences and traces at the same entry: the only pair of entries with
\* different times is the first of a history, and its presence, which has no length,
\* starts before the retention whenever something is purged.
LEMMA PurgeKeeps ==
    ASSUME NEW ps \in Seq(Presence), NEW ts \in Seq(TraceEntry), NEW m \in Modes,
           NEW t \in 0..MaxTime, Linked(ps, m, t), Follow(ts, ps), Purge(t, ps, ts)
    PROVE  /\ presences' \in Seq(Presence) /\ traces' \in Seq(TraceEntry) /\ failure' \in BOOLEAN
           /\ failure' => presences' = <<>>
           /\ ~failure' => \E a \in 1..Len(ps) :
                 /\ presences' = SubSeq(ps, a, Len(ps))
                 /\ Linked(presences', m, t) /\ Follow(traces', presences')
                 /\ a = 1 => traces' = ts
                 /\ a > 1 => ps[1].to < ps[a].to
  <1> DEFINE limit == t - Retention
             B == Skipped(ps)
             I == {k \in 1..Len(ps) : ps[k].to >= limit}
             J == {k \in 1..Len(ts) : ts[k].time >= limit}
             a == Min(I)
             kp == SubSeq(ps, a, Len(ps))
             kt == SubSeq(ts, a, Len(ts))
  <1>1. /\ Len(ps) \in Nat /\ Len(ps) >= 1 /\ Len(ts) = Len(ps)
        /\ \A k \in 1..Len(ps) : ps[k].from \in Nat /\ ps[k].to \in Nat
        /\ t \in Nat /\ Retention \in Nat /\ Period \in Nat
        /\ limit \in Int
        /\ B \in {0, 1}
    BY PresencesAre, TimesAssumption DEF Linked, Follow, Skipped
  <1>2. \A k \in 1..Len(ps) :
           /\ ts[k].time = IF k > B THEN ps[k].to ELSE 0
           /\ Len(ts[k].trace) = k - B
           /\ \A i \in 1..(k - B) : ts[k].trace[i] = ps[i + B].mode
    BY <1>1 DEF Follow
  <1>3. CASE ~PurgeDue(t, ps)
    <2>1. presences' = ps /\ traces' = ts /\ failure' = FALSE
      BY <1>3 DEF Purge
    <2>2. 1 \in 1..Len(ps) /\ presences' = SubSeq(ps, 1, Len(ps)) /\ ~(1 > 1)
      BY <2>1, <1>1
    <2>3. Linked(presences', m, t) /\ Follow(traces', presences')
      BY <2>1
    <2> HIDE DEF limit, B, I, J, a, kp, kt
    <2> QED
      BY <2>1, <2>2, <2>3
  <1>4. CASE PurgeDue(t, ps)
    <2>1. limit > ps[1].from /\ limit > 0
      <3>1. Head(ps) = ps[1] /\ ps[1].from \in Nat
        BY <1>1
      <3>2. t - Head(ps).from > Retention + Period
        BY <1>4 DEF PurgeDue
      <3> QED
        BY <3>1, <3>2, <1>1
    <2>2. B = 1 => ps[1].from = ps[1].to /\ 1 \notin I
      BY <2>1, <1>1 DEF Skipped, Linked
    <2>3. I = J
      <3>1. ASSUME NEW k \in 1..Len(ps)
            PROVE  ps[k].to >= limit <=> ts[k].time >= limit
        <4>1. CASE k > B
          BY <4>1, <1>2
        <4>2. CASE ~(k > B)
          <5>1. k = 1 /\ B = 1
            BY <4>2, <1>1
          <5>2. ts[k].time = 0
            BY <4>2, <1>2
          <5> QED
            BY <5>1, <5>2, <2>1, <2>2, <1>1
        <4> QED
          BY <4>1, <4>2
      <3> QED
        BY <3>1, <1>1
    <2> DEFINE cp == KeepFrom(ps, IF I # {} THEN a ELSE 0)
               ct == KeepFrom(ts, IF I # {} THEN a ELSE 0)
    <2>4. /\ presences' = cp /\ traces' = ReduceTraces(ct)
          /\ failure' = (cp = <<>> \/ ct = <<>>)
      <3>1. SelectInSeq(ps, LAMBDA p : p.to >= t - Retention) = IF I # {} THEN a ELSE 0
        BY DEF SelectInSeq
      <3>2. SelectInSeq(ts, LAMBDA e : e.time >= t - Retention) = IF J # {} THEN Min(J) ELSE 0
        BY DEF SelectInSeq
      <3> QED
        BY <3>1, <3>2, <2>3, <1>4 DEF Purge, KeptPresences, KeptTraces
    <2>5. CASE I = {}
      <3>1. cp = <<>> /\ ct = <<>>
        BY <2>5 DEF KeepFrom
      <3>2. <<>> \in Seq(TraceEntry) /\ Len(<<>>) = 0 /\ <<>> \in Seq(Presence)
        OBVIOUS
      <3>3. ReduceTraces(<<>>) \in Seq(TraceEntry)
        <4>1. \A k \in 1..Len(<<>>) : Len(<<>>[k].trace) = 0 + k
          BY <3>2
        <4> QED
          BY <4>1, <3>2, TracesReduced
      <3> QED
        BY <3>1, <3>2, <3>3, <2>4
    <2>6. CASE I # {}
      <3>1. a \in I /\ \A k \in I : a <= k
        <4>1. I \subseteq Nat
          BY <1>1
        <4> HIDE DEF I
        <4> QED
          BY <2>6, <4>1, MinIs
      <3>2. a \in 1..Len(ps) /\ a > B /\ ps[a].to >= limit
        BY <3>1, <2>2, <1>1
      <3>3. cp = kp /\ ct = kt
        <4>1. a # 0
          BY <3>2
        <4> HIDE DEF I, a
        <4> QED
          BY <2>6, <4>1 DEF KeepFrom
      <3> HIDE DEF a
      <3> DEFINE n == Len(ps) - a + 1
                 b == a - 1 - B
      <3>4. /\ kp \in Seq(Presence) /\ Len(kp) = n
            /\ \A k \in 1..n : kp[k] = ps[a - 1 + k]
            /\ a = 1 => kp = ps
        BY <3>2, Suffix
      <3>5. /\ kt \in Seq(TraceEntry) /\ Len(kt) = n
            /\ \A k \in 1..n : kt[k] = ts[a - 1 + k]
            /\ a = 1 => kt = ts
        BY <3>2, <1>1, Suffix
      <3>6. n \in Nat /\ n >= 1 /\ b \in Nat /\ \A k \in 1..n : a - 1 + k \in 1..Len(ps) /\ a - 1 + k > B
        BY <3>2, <1>1
      <3>7. Linked(kp, m, t)
        BY <3>2, SuffixLinked
      <3> HIDE DEF kp, kt, I, J, limit, cp, ct
      <3>8. \A k \in 1..Len(kt) : Len(kt[k].trace) = b + k
        <4> TAKE k \in 1..Len(kt)
        <4>1. /\ k \in 1..n /\ a - 1 + k \in 1..Len(ps) /\ kt[k] = ts[a - 1 + k]
          BY <3>5, <3>6
        <4>2. Len(kt[k].trace) = (a - 1 + k) - B
          <5> DEFINE x == a - 1 + k
          <5>1. x \in 1..Len(ps) /\ kt[k] = ts[x]
            BY <4>1
          <5> HIDE DEF x
          <5>2. Len(ts[x].trace) = x - B
            BY <5>1, <1>2
          <5>3. Len(kt[k].trace) = x - B
            BY <5>1, <5>2
          <5> QED
            BY <5>3 DEF x
        <4> QED
          BY <4>1, <4>2, <3>2, <1>1
      <3> DEFINE R == ReduceTraces(kt)
      <3>9. /\ R \in Seq(TraceEntry) /\ Len(R) = n
            /\ \A k \in 1..n :
                  /\ R[k].time = kt[k].time
                  /\ Len(R[k].trace) = k
                  /\ \A i \in 1..k : R[k].trace[i] = kt[k].trace[b + i]
            /\ b = 0 => R = kt
        <4> HIDE DEF b
        <4>1. /\ R \in Seq(TraceEntry) /\ Len(R) = Len(kt)
              /\ \A k \in 1..Len(kt) :
                  /\ R[k].time = kt[k].time
                  /\ Len(R[k].trace) = k
                  /\ \A i \in 1..k : R[k].trace[i] = kt[k].trace[b + i]
              /\ b = 0 => R = kt
          BY <3>5, <3>6, <3>8, TracesReduced
        <4> QED
          BY <4>1, <3>5
      <3> HIDE DEF R
      <3>10. Skipped(kp) = 0
        <4>1. kp[1] = ps[a]
          <5>1. 1 \in 1..n /\ a - 1 + 1 = a
            BY <3>2, <3>6, <1>1
          <5> HIDE DEF n
          <5>2. kp[1] = ps[a - 1 + 1]
            BY <5>1, <3>4
          <5> QED
            BY <5>1, <5>2
        <4>2. ps[a].mode = NoMode => a = 1
          BY <3>2 DEF Linked
        <4>3. a = 1 => B = 0
          BY <3>2, <1>1
        <4>4. B = 0 => ps[1].mode # NoMode
          BY DEF Skipped
        <4> QED
          BY <4>1, <4>2, <4>3, <4>4 DEF Skipped
      <3>11. \A k \in 1..n :
                /\ R[k].time = kp[k].to
                /\ \A i \in 1..k : R[k].trace[i] = kp[i].mode
        <4> TAKE k \in 1..n
        <4>1. /\ a - 1 + k \in 1..Len(ps) /\ a - 1 + k > B
              /\ kt[k] = ts[a - 1 + k] /\ kp[k] = ps[a - 1 + k]
          BY <3>4, <3>5, <3>6
        <4>2. R[k].time = kp[k].to
          BY <4>1, <1>2, <3>9
        <4>3. ASSUME NEW i \in 1..k
              PROVE  R[k].trace[i] = kp[i].mode
          <5>1. b + i \in 1..((a - 1 + k) - B) /\ (b + i) + B = a - 1 + i /\ i \in 1..n
            <6>1. a \in Nat /\ k \in Nat /\ i \in Nat /\ B \in Nat /\ 1 <= i /\ i <= k /\ k <= n
              BY <3>2, <3>6, <1>1
            <6>2. b + i >= 1 /\ b + i \in Nat
              BY <6>1, <3>6
            <6>3. b + i <= (a - 1 + k) - B /\ (b + i) + B = a - 1 + i
              BY <6>1
            <6> QED
              BY <6>1, <6>2, <6>3, <3>6
          <5>2. R[k].trace[i] = ts[a - 1 + k].trace[b + i]
            BY <4>1, <3>9
          <5>3. ts[a - 1 + k].trace[b + i] = ps[(b + i) + B].mode
            BY <4>1, <5>1, <1>2
          <5>4. kp[i] = ps[a - 1 + i]
            BY <5>1, <3>4
          <5> QED
            BY <5>1, <5>2, <5>3, <5>4
        <4> QED
          BY <4>2, <4>3
      <3>12. Follow(R, kp)
        <4>1. \A k \in 1..n : k > 0 /\ k - 0 = k /\ \A i \in 1..k : i + 0 = i
          OBVIOUS
        <4> QED
          BY <4>1, <3>4, <3>9, <3>10, <3>11, <3>6 DEF Follow
      <3>13. a = 1 => R = ts
        <4>1. a = 1 => b = 0
          BY <3>2, <1>1
        <4> QED
          BY <4>1, <3>5, <3>9
      <3>14. a > 1 => ps[1].to < ps[a].to
        <4> SUFFICES ASSUME a > 1 PROVE ps[1].to < ps[a].to
          OBVIOUS
        <4>1. 1 \notin I
          BY <3>1, <3>2, <1>1
        <4>2. ~(ps[1].to >= limit)
          BY <4>1, <1>1 DEF I
        <4> QED
          BY <4>2, <3>2, <1>1
      <3>15. kp # <<>> /\ kt # <<>>
        BY <3>4, <3>5, <3>6
      <3>16. presences' = kp /\ traces' = R /\ failure' = FALSE
        BY <3>3, <3>15, <2>4 DEF R
      <3>17. kp = SubSeq(ps, a, Len(ps))
        BY DEF kp
      <3> QED
        BY <3>2, <3>4, <3>7, <3>9, <3>12, <3>13, <3>14, <3>16, <3>17
    <2> QED
      BY <2>5, <2>6
  <1> QED
    BY <1>3, <1>4

-----------------------------------------------------------------------------
(* The samples of a robot.                                                  *)

\* The samples stored for modes, and how far they reach.
SampleEntry == [time : 0..MaxTime, samples : Seq(SUBSET Points)]

\* What is stored for a mode later is at least as long.
Growing(st, now) ==
    \A m \in Modes :
        /\ \A k \in 1..Len(st[m]) : st[m][k].samples # <<>> /\ st[m][k].time <= now
        /\ \A i, k \in 1..Len(st[m]) : i <= k =>
              st[m][i].time <= st[m][k].time /\ Len(st[m][i].samples) <= Len(st[m][k].samples)

\* An entry is stored at the end of the presence that is as long as it.
CoversPresence(entries, p) ==
    \E i \in 1..Len(entries) :
        entries[i].time = p.to /\ (p.to - p.from) \div Step <= Len(entries[i].samples)

Covered(ps, st) ==
    \A k \in 1..Len(ps) : ps[k].mode # NoMode => CoversPresence(st[ps[k].mode], ps[k])

\* The buffer is not shorter than what is stored for the current mode, and has the
\* sample of the latest time.
Buffered(ps, st, buf, m, now) ==
    /\ buf # <<>>
    /\ st[m] # <<>> => /\ Len(Last(st[m]).samples) <= Len(buf)
                       /\ (now - Last(ps).to) \div Step < Len(buf)

LEMMA Repeated ==
    ASSUME NEW x \in SUBSET Points, NEW n \in Int
    PROVE  Repeat(x, n) \in Seq(SUBSET Points) /\ Len(Repeat(x, n)) = IF n > 0 THEN n ELSE 0
  BY DEF Repeat

\* Samples are padded to the length of the presence.
LEMMA Padded ==
    ASSUME NEW buf \in Seq(SUBSET Points), buf # <<>>, NEW elapsed \in Nat
    PROVE  /\ Pad(buf, elapsed) \in Seq(SUBSET Points)
           /\ Len(buf) <= Len(Pad(buf, elapsed))
           /\ elapsed \div Step <= Len(Pad(buf, elapsed))
  <1> DEFINE n == Len(buf)
             d == elapsed \div Step
  <1>1. n \in Nat /\ n > 0 /\ Last(buf) \in SUBSET Points
    BY DEF Last
  <1>2. d \in Nat /\ (elapsed > Step * n => d >= n) /\ (elapsed <= Step * n => d <= n)
    BY <1>1, Divides, DivideBounds
  <1>3. Step * n \in Nat
    BY <1>1, TimesAssumption
  <1>4. CASE elapsed > Step * n
    <2> DEFINE r == Repeat(Last(buf), d - (n - 1))
    <2>1. Pad(buf, elapsed) = buf \o r
      BY <1>4 DEF Pad
    <2>2. r \in Seq(SUBSET Points) /\ Len(r) = d - (n - 1)
      <3>1. d - (n - 1) \in Int /\ d - (n - 1) > 0
        BY <1>1, <1>2, <1>4
      <3> HIDE DEF d, n
      <3> QED
        BY <1>1, <3>1, Repeated
    <2> HIDE DEF r
    <2>3. buf \o r \in Seq(SUBSET Points) /\ Len(buf \o r) = n + Len(r)
      BY <2>2
    <2>4. Len(buf \o r) = d + 1
      BY <2>2, <2>3, <1>1, <1>2
    <2> HIDE DEF d
    <2>5. n <= Len(buf \o r) /\ d <= Len(buf \o r)
      BY <2>4, <1>1, <1>2, <1>4
    <2> QED
      BY <2>1, <2>3, <2>5 DEF d
  <1>5. CASE ~(elapsed > Step * n)
    <2>1. Pad(buf, elapsed) = buf
      BY <1>5 DEF Pad
    <2>2. elapsed <= Step * n
      BY <1>5, <1>3
    <2> HIDE DEF d, n
    <2> QED
      BY <2>1, <2>2, <1>1, <1>2 DEF n, d
  <1> QED
    BY <1>4, <1>5

\* The sample at an index is added, and those that are missing before it.
LEMMA Added ==
    ASSUME NEW buf \in Seq(SUBSET Points), NEW p \in Points, NEW index \in Nat \ {0}, NEW missing \in Int,
           missing <= 1 \/ buf # <<>>, index <= Len(buf) + (IF missing > 0 THEN missing ELSE 0)
    PROVE  /\ AddSample(buf, p, index, missing) \in Seq(SUBSET Points)
           /\ Len(AddSample(buf, p, index, missing)) = Len(buf) + (IF missing > 0 THEN missing ELSE 0)
  <1> DEFINE r == Repeat(Last(buf), missing - 1)
             x == IF missing > 0 THEN buf \o r \o <<{}>> ELSE buf
             n == Len(buf) + (IF missing > 0 THEN missing ELSE 0)
  <1>1. Len(buf) \in Nat
    OBVIOUS
  <1>2. x \in Seq(SUBSET Points) /\ Len(x) = n
    <2>1. CASE missing > 0
      <3>1. r \in Seq(SUBSET Points) /\ Len(r) = missing - 1
        <4>1. CASE missing = 1
          BY <4>1 DEF Repeat
        <4>2. CASE missing > 1
          <5>1. Last(buf) \in SUBSET Points /\ missing - 1 \in Int /\ missing - 1 > 0
            BY <4>2 DEF Last
          <5> QED
            BY <5>1, Repeated
        <4> QED
          BY <2>1, <4>1, <4>2
      <3> HIDE DEF r
      <3>2. buf \o r \in Seq(SUBSET Points) /\ Len(buf \o r) = Len(buf) + Len(r)
        BY <3>1
      <3>3. <<{}>> \in Seq(SUBSET Points) /\ Len(<<{}>>) = 1
        OBVIOUS
      <3>4. /\ (buf \o r) \o <<{}>> \in Seq(SUBSET Points)
            /\ Len((buf \o r) \o <<{}>>) = Len(buf \o r) + 1
        BY <3>2, <3>3
      <3> QED
        BY <2>1, <3>1, <3>2, <3>4
    <2>2. CASE ~(missing > 0)
      BY <2>2, <1>1
    <2> QED
      BY <2>1, <2>2
  <1>3. AddSample(buf, p, index, missing) = [x EXCEPT ![index] = x[index] \cup {p}]
    BY DEF AddSample
  <1> HIDE DEF x
  <1>4. index \in 1..Len(x) /\ x[index] \cup {p} \in SUBSET Points
    BY <1>1, <1>2
  <1> DEFINE y == x[index] \cup {p}
  <1> HIDE DEF y
  <1>5. [x EXCEPT ![index] = y] \in Seq(SUBSET Points) /\ Len([x EXCEPT ![index] = y]) = Len(x)
    BY <1>2, <1>4 DEF y
  <1> QED
    BY <1>2, <1>3, <1>5 DEF y

LEMMA StatesAre ==
    ASSUME NEW st \in [Modes -> Seq(SampleEntry)], NEW m \in Modes
    PROVE  /\ st[m] \in Seq(SampleEntry) /\ Len(st[m]) \in Nat
           /\ \A k \in 1..Len(st[m]) :
                 /\ st[m][k] \in SampleEntry /\ st[m][k].time \in Nat
                 /\ st[m][k].samples \in Seq(SUBSET Points) /\ Len(st[m][k].samples) \in Nat
           /\ st[m] # <<>> => Len(st[m]) \in 1..Len(st[m]) /\ Last(st[m]) = st[m][Len(st[m])]
  <1>1. st[m] \in Seq(SampleEntry) /\ Len(st[m]) \in Nat
    OBVIOUS
  <1>2. \A k \in 1..Len(st[m]) : st[m][k] \in SampleEntry
    BY <1>1
  <1>3. \A e \in SampleEntry : /\ e.time \in Nat /\ e.samples \in Seq(SUBSET Points)
                               /\ Len(e.samples) \in Nat
    BY TimesAssumption DEF SampleEntry
  <1> QED
    BY <1>1, <1>2, <1>3 DEF Last

Stored ==
    /\ Growing(states, latestTime)
    /\ Covered(presences, states)
    /\ Buffered(presences, states, buffer, latestMode, latestTime)

\* The samples that are stored when the latest mode is left.
LEMMA LeftStates ==
    ASSUME HistoryTypeOK, NEW t \in 0..MaxTime, latestTime <= t, Seen, Stored,
           NEW padded \in Seq(SUBSET Points), padded # <<>>, Len(buffer) <= Len(padded),
           NEW p \in Presence, p.mode = latestMode, p.to = t,
           (p.to - p.from) \div Step <= Len(padded),
           NEW left, left = [states EXCEPT ![latestMode] = Append(@, [time |-> t, samples |-> padded])]
    PROVE  /\ left \in [Modes -> Seq(SampleEntry)]
           /\ Growing(left, t)
           /\ Covered(Append(presences, p), left)
  <1> DEFINE c == latestMode
             e == [time |-> t, samples |-> padded]
             n == Len(states[c])
  <1>1. /\ states \in [Modes -> Seq(SampleEntry)] /\ c \in Modes /\ t \in Nat /\ latestTime \in Nat
        /\ presences \in Seq(Presence) /\ buffer \in Seq(SUBSET Points)
    <2>1. latestTime \in 0..MaxTime /\ t \in 0..MaxTime /\ MaxTime \in Nat
      BY TimesAssumption DEF HistoryTypeOK
    <2>2. t \in Nat /\ latestTime \in Nat
      BY <2>1
    <2> QED
      BY <2>2 DEF HistoryTypeOK, Seen, SampleEntry
  <1>2. /\ states[c] \in Seq(SampleEntry) /\ n \in Nat
        /\ \A k \in 1..n : states[c][k] \in SampleEntry /\ states[c][k].time \in Nat
                           /\ Len(states[c][k].samples) \in Nat
    BY <1>1, StatesAre
  <1>3. e \in SampleEntry /\ e.time = t /\ e.samples = padded /\ Len(padded) \in Nat
    BY DEF SampleEntry
  <1> HIDE DEF e
  <1>4. left = [states EXCEPT ![c] = Append(states[c], e)]
    BY DEF e
  <1>5. /\ left \in [Modes -> Seq(SampleEntry)] /\ left[c] = Append(states[c], e)
        /\ \A m \in Modes : m # c => left[m] = states[m]
    BY <1>1, <1>2, <1>3, <1>4
  <1>6. /\ Len(left[c]) = n + 1 /\ left[c][n + 1] = e
        /\ \A k \in 1..n : left[c][k] = states[c][k]
    BY <1>2, <1>3, <1>5
  <1>7. \A k \in 1..n : states[c][k].time <= latestTime /\ states[c][k].samples # <<>>
    BY <1>1 DEF Stored, Growing
  <1>8. \A k \in 1..n : Len(states[c][k].samples) <= Len(padded)
    <2> TAKE k \in 1..n
    <2>1. states[c] # <<>> /\ n \in 1..n /\ k <= n
      BY <1>2
    <2>2. Last(states[c]) = states[c][n]
      BY DEF Last
    <2>3. Len(states[c][n].samples) <= Len(buffer)
      BY <2>1, <2>2 DEF Stored, Buffered
    <2>4. Len(states[c][k].samples) <= Len(states[c][n].samples)
      BY <2>1, <1>1 DEF Stored, Growing
    <2> QED
      BY <2>1, <2>3, <2>4, <1>1, <1>2, <1>3
  <1>9. Growing(left, t)
    <2>1. ASSUME NEW m \in Modes
          PROVE  /\ \A k \in 1..Len(left[m]) : left[m][k].samples # <<>> /\ left[m][k].time <= t
                 /\ \A i, k \in 1..Len(left[m]) : i <= k =>
                      /\ left[m][i].time <= left[m][k].time
                      /\ Len(left[m][i].samples) <= Len(left[m][k].samples)
      <3>1. CASE m = c
        <4>1. \A k \in 1..(n + 1) : left[c][k].samples # <<>> /\ left[c][k].time <= t
          <5> TAKE k \in 1..(n + 1)
          <5>1. CASE k = n + 1
            BY <5>1, <1>6, <1>3, <1>1, <1>2
          <5>2. CASE k # n + 1
            <6>1. k \in 1..n
              BY <5>2, <1>2
            <6> QED
              BY <6>1, <1>6, <1>7, <1>1, <1>2
          <5> QED
            BY <5>1, <5>2
        <4>2. \A i, k \in 1..(n + 1) : i <= k =>
                 /\ left[c][i].time <= left[c][k].time
                 /\ Len(left[c][i].samples) <= Len(left[c][k].samples)
          <5> TAKE i, k \in 1..(n + 1)
          <5>1. CASE i = n + 1
            <6>1. i <= k => k = i
              BY <5>1, <1>2
            <6> QED
              BY <6>1, <5>1, <1>6, <1>3, <1>1, <1>2
          <5>2. CASE i # n + 1 /\ k = n + 1
            <6>1. i \in 1..n
              BY <5>2, <1>2
            <6>2. left[c][i] = states[c][i] /\ left[c][k] = e
              BY <6>1, <5>2, <1>6, <1>2
            <6>3. states[c][i].time <= t
              <7>1. states[c][i].time <= latestTime /\ states[c][i].time \in Nat
                BY <6>1, <1>2, <1>7
              <7> QED
                BY <7>1, <1>1
            <6> QED
              BY <6>1, <6>2, <6>3, <1>3, <1>8
          <5>3. CASE i # n + 1 /\ k # n + 1
            <6>1. i \in 1..n /\ k \in 1..n
              BY <5>3, <1>2
            <6>2. left[c][i] = states[c][i] /\ left[c][k] = states[c][k]
              BY <6>1, <1>6
            <6> QED
              BY <6>1, <6>2, <1>1 DEF Stored, Growing
          <5> QED
            BY <5>1, <5>2, <5>3
        <4> QED
          BY <3>1, <4>1, <4>2, <1>6
      <3>2. CASE m # c
        <4>1. left[m] = states[m]
          BY <3>2, <1>5
        <4>2. \A k \in 1..Len(states[m]) : states[m][k].time \in Nat /\ states[m][k].time <= t
          <5>1. \A k \in 1..Len(states[m]) : states[m][k].time <= latestTime
            BY DEF Stored, Growing
          <5>2. \A k \in 1..Len(states[m]) : states[m][k].time \in Nat
            BY <1>1, StatesAre
          <5> QED
            BY <5>1, <5>2, <1>1
        <4> QED
          BY <4>1, <4>2 DEF Stored, Growing
      <3> QED
        BY <3>1, <3>2
    <2> QED
      BY <2>1 DEF Growing
  <1>10. Covered(Append(presences, p), left)
    <2> DEFINE q == Append(presences, p)
               l == Len(presences)
    <2>1. l \in Nat /\ Len(q) = l + 1 /\ q[l + 1] = p /\ \A k \in 1..l : q[k] = presences[k]
      BY <1>1
    <2> HIDE DEF q, l
    <2>2. ASSUME NEW k \in 1..Len(q), q[k].mode # NoMode
          PROVE  CoversPresence(left[q[k].mode], q[k])
      <3>1. CASE k = l + 1
        <4>1. q[k] = p /\ q[k].mode = c
          BY <3>1, <2>1
        <4>2. n + 1 \in 1..Len(left[c])
          BY <1>2, <1>6
        <4> QED
          BY <4>1, <4>2, <1>3, <1>6 DEF CoversPresence
      <3>2. CASE k # l + 1
        <4>1. k \in 1..l /\ q[k] = presences[k]
          BY <3>2, <2>1
        <4>2. presences[k] \in Presence /\ presences[k].mode \in Modes
          <5>1. presences[k] \in Presence
            BY <4>1, <1>1, PresencesAre DEF l
          <5> QED
            BY <5>1, <4>1, <2>2, PresenceTimes
        <4>3. CoversPresence(states[presences[k].mode], presences[k])
          BY <4>1, <2>2 DEF Stored, Covered, l
        <4>4. CASE presences[k].mode = c
          <5>1. PICK i \in 1..n : states[c][i].time = presences[k].to /\
                   (presences[k].to - presences[k].from) \div Step <= Len(states[c][i].samples)
            BY <4>3, <4>4 DEF CoversPresence
          <5>2. i \in 1..Len(left[c]) /\ left[c][i] = states[c][i]
            BY <1>6, <1>2
          <5> QED
            BY <5>1, <5>2, <4>1, <4>4 DEF CoversPresence
        <4>5. CASE presences[k].mode # c
          BY <4>1, <4>2, <4>3, <4>5, <1>5
        <4> QED
          BY <4>4, <4>5
      <3> QED
        BY <3>1, <3>2
    <2>3. Covered(q, left)
      BY <2>2 DEF Covered
    <2> QED
      BY <2>3 DEF q
  <1> QED
    BY <1>5, <1>9, <1>10

-----------------------------------------------------------------------------
(* The inductive invariant of the history of a robot.                       *)

\* The inductive invariant: the history is linked, followed, growing, covered and buffered.
HistoryInv ==
    /\ HistoryTypeOK
    /\ failure \/ Fresh \/ (Seen /\ Stored)

LEMMA Times ==
    ASSUME HistoryTypeOK
    PROVE  /\ latestTime \in Nat /\ MaxTime \in Nat /\ presences \in Seq(Presence)
           /\ states \in [Modes -> Seq(SampleEntry)] /\ buffer \in Seq(SUBSET Points)
           /\ traces \in Seq(TraceEntry)
  <1>1. latestTime \in 0..MaxTime /\ MaxTime \in Nat
    BY TimesAssumption DEF HistoryTypeOK
  <1>2. latestTime \in Nat
    BY <1>1
  <1>3. presences \in Seq(Presence) /\ buffer \in Seq(SUBSET Points)
    BY DEF HistoryTypeOK
  <1>4. states \in [Modes -> Seq(SampleEntry)]
    BY DEF HistoryTypeOK, SampleEntry
  <1>5. traces \in Seq(TraceEntry)
    BY DEF HistoryTypeOK, TraceEntry
  <1> QED
    BY <1>1, <1>2, <1>3, <1>4, <1>5

\* From the last change of mode on the samples of the latest mode begin there.
LEMMA EntryOfLatest ==
    ASSUME NEW m, NEW t, t >= Last(presences).to
    PROVE  EntryTime(m, t) = Last(presences).to
  BY DEF EntryTime

LEMMA LastPresence ==
    ASSUME HistoryTypeOK, Seen
    PROVE  /\ Len(presences) > 0 /\ Len(presences) \in 1..Len(presences)
           /\ Last(presences) = presences[Len(presences)]
           /\ Last(presences) \in Presence /\ Last(presences).to \in Nat
           /\ Last(presences).to <= latestTime
  <1>1. presences # <<>> /\ presences \in Seq(Presence)
    BY DEF HistoryTypeOK, Seen, Linked
  <1>2. Len(presences) > 0 /\ Len(presences) \in 1..Len(presences)
    BY <1>1, PresencesAre
  <1> QED
    BY <1>1, <1>2, PresencesAre DEF Last, Seen, Linked

\* A change of mode stores the buffer of the mode left and takes up that of the mode entered.
LEMMA EnteredStates ==
    ASSUME HistoryTypeOK, NEW m \in Modes, NEW t \in 0..MaxTime, latestTime <= t,
           Fresh \/ (Seen /\ Stored)
    PROVE  LET e == Entered(m, t)
           IN  /\ e.states \in [Modes -> Seq(SampleEntry)] /\ e.buffer \in Seq(SUBSET Points)
               /\ Growing(e.states, t) /\ Covered(e.presences, e.states)
               /\ e.states[m] # <<>> => Len(Last(e.states[m]).samples) <= Len(e.buffer)
  <1> DEFINE e == Entered(m, t)
             p == PresenceLeft(m, t)
  <1>1. /\ latestTime \in Nat /\ t \in Nat /\ MaxTime \in Nat /\ presences \in Seq(Presence)
        /\ states \in [Modes -> Seq(SampleEntry)] /\ buffer \in Seq(SUBSET Points)
    <2>1. t \in Nat
      BY Times
    <2> QED
      BY <2>1, Times
  <1>2. CASE Fresh
    <2>1. latestMode = NoMode /\ m # latestMode /\ states[m] = <<>>
      BY <1>2, ModesAssumption DEF Fresh
    <2>2. e.states = states /\ e.buffer = <<>> /\ e.presences = Append(presences, p)
      BY <2>1 DEF Entered
    <2>3. Append(presences, p) = <<p>> /\ p.mode = NoMode
      BY <1>2 DEF Fresh, PresenceLeft
    <2>4. Growing(states, t)
      <3>1. \A k \in Modes : states[k] = <<>>
        BY <1>2 DEF Fresh
      <3>2. \A k \in Modes : 1..Len(states[k]) = {}
        BY <3>1
      <3> QED
        BY <3>2 DEF Growing
    <2>5. Covered(<<p>>, states)
      <3>1. \A k \in 1..Len(<<p>>) : <<p>>[k] = p
        OBVIOUS
      <3> QED
        BY <3>1, <2>3 DEF Covered
    <2>6. <<>> \in Seq(SUBSET Points)
      OBVIOUS
    <2> HIDE DEF e, p
    <2>7. /\ e.states \in [Modes -> Seq(SampleEntry)] /\ e.buffer \in Seq(SUBSET Points)
          /\ Growing(e.states, t) /\ Covered(e.presences, e.states)
          /\ e.states[m] = <<>>
      BY <2>1, <2>2, <2>3, <2>4, <2>5, <2>6, <1>1
    <2> QED
      BY <2>7 DEF e
  <1>3. CASE Seen /\ Stored /\ m = latestMode
    <2>1. e.states = states /\ e.buffer = buffer /\ e.presences = presences
      BY <1>3 DEF Entered
    <2>2. Growing(states, t)
      <3>1. ASSUME NEW k \in Modes, NEW i \in 1..Len(states[k])
            PROVE  states[k][i].time <= t
        <4>1. states[k][i].time <= latestTime /\ states[k][i].time \in Nat
          BY <1>3, <1>1, StatesAre DEF Stored, Growing
        <4> QED
          BY <4>1, <1>1
      <3> QED
        BY <3>1, <1>3 DEF Stored, Growing
    <2>3. states[m] # <<>> => Len(Last(states[m]).samples) <= Len(buffer)
      BY <1>3 DEF Stored, Buffered
    <2> HIDE DEF e
    <2>4. /\ e.states \in [Modes -> Seq(SampleEntry)] /\ e.buffer \in Seq(SUBSET Points)
          /\ Growing(e.states, t) /\ Covered(e.presences, e.states)
          /\ e.states[m] # <<>> => Len(Last(e.states[m]).samples) <= Len(e.buffer)
      BY <2>1, <2>2, <2>3, <1>1, <1>3 DEF Stored
    <2> QED
      BY <2>4 DEF e
  <1>4. CASE Seen /\ Stored /\ m # latestMode
    <2> DEFINE entry == Last(presences).to
               padded == Pad(buffer, t - entry)
               left == [states EXCEPT ![latestMode] = Append(@, [time |-> t, samples |-> padded])]
    <2>1. latestMode \in Modes /\ latestMode # NoMode
      BY <1>4, ModesAssumption DEF Seen
    <2>2. entry \in Nat /\ entry <= t /\ t - entry \in Nat /\ presences # <<>>
      <3>1. entry \in Nat /\ entry <= latestTime
        BY <1>4, LastPresence
      <3> HIDE DEF entry
      <3>2. presences # <<>>
        BY <1>4 DEF Seen, Linked
      <3> QED
        BY <3>1, <3>2, <1>1
    <2>3. EntryTime(latestMode, t) = entry
      <3>1. t >= Last(presences).to
        BY <2>2, <1>1
      <3> QED
        BY <3>1, EntryOfLatest
    <2>4. /\ e.states = left
          /\ e.buffer = IF left[m] = <<>> THEN <<>> ELSE Last(left[m]).samples
          /\ e.presences = Append(presences, p)
      BY <1>4, <2>1, <2>3 DEF Entered
    <2>5. buffer # <<>>
      BY <1>4 DEF Stored, Buffered
    <2>6. /\ padded \in Seq(SUBSET Points)
          /\ Len(buffer) <= Len(padded)
          /\ (t - entry) \div Step <= Len(padded)
      <3> HIDE DEF entry
      <3> QED
        BY <2>2, <2>5, <1>1, Padded
    <2>7. p \in Presence /\ p.mode = latestMode /\ p.to = t /\ p.from = entry
      <3>1. entry \in 0..MaxTime /\ t \in 0..MaxTime
        BY <2>2, <1>1
      <3>2. p = [mode |-> latestMode, exit |-> m, from |-> entry, to |-> t]
        BY <2>2 DEF PresenceLeft
      <3> HIDE DEF p, entry
      <3> QED
        BY <3>1, <3>2, <2>1 DEF Presence
    <2>8. padded # <<>>
      <3>1. Len(buffer) > 0
        BY <2>5, <1>1
      <3> HIDE DEF padded
      <3> QED
        BY <3>1, <2>6, <1>1
    <2> HIDE DEF p, padded, entry
    <2>9. /\ left \in [Modes -> Seq(SampleEntry)]
          /\ Growing(left, t)
          /\ Covered(Append(presences, p), left)
      BY <2>6, <2>7, <2>8, <1>4, LeftStates
    <2> HIDE DEF left, e
    <2>10. CASE left[m] = <<>>
      <3>1. e.buffer = <<>> /\ <<>> \in Seq(SUBSET Points) /\ e.states[m] = <<>>
        BY <2>4, <2>10
      <3> QED
        BY <3>1, <2>4, <2>9 DEF e
    <2>11. CASE left[m] # <<>>
      <3>1. e.buffer = Last(left[m]).samples /\ e.states[m] = left[m]
        BY <2>4, <2>11
      <3>2. Last(left[m]).samples \in Seq(SUBSET Points) /\ Len(Last(left[m]).samples) \in Nat
        <4>1. /\ Len(left[m]) \in 1..Len(left[m]) /\ Last(left[m]) = left[m][Len(left[m])]
              /\ \A k \in 1..Len(left[m]) : /\ left[m][k].samples \in Seq(SUBSET Points)
                                            /\ Len(left[m][k].samples) \in Nat
          BY <2>9, <2>11, StatesAre
        <4> QED
          BY <4>1
      <3>3. Len(Last(e.states[m]).samples) <= Len(e.buffer)
        BY <3>1, <3>2
      <3> QED
        BY <3>1, <3>2, <3>3, <2>4, <2>9 DEF e
    <2> QED
      BY <2>10, <2>11
  <1> QED
    BY <1>2, <1>3, <1>4

LEMMA SuffixCovered ==
    ASSUME NEW ps \in Seq(Presence), NEW a \in 1..Len(ps), NEW st, Covered(ps, st)
    PROVE  Covered(SubSeq(ps, a, Len(ps)), st)
  <1> DEFINE q == SubSeq(ps, a, Len(ps))
  <1>1. /\ Len(q) = Len(ps) - a + 1
        /\ \A k \in 1..(Len(ps) - a + 1) : q[k] = ps[a - 1 + k]
    BY Suffix
  <1>2. \A k \in 1..(Len(ps) - a + 1) : a - 1 + k \in 1..Len(ps)
    BY PresencesAre
  <1> HIDE DEF q
  <1>3. \A k \in 1..Len(q) : q[k].mode # NoMode => CoversPresence(st[q[k].mode], q[k])
    <2> TAKE k \in 1..Len(q)
    <2>1. a - 1 + k \in 1..Len(ps) /\ q[k] = ps[a - 1 + k]
      BY <1>1, <1>2
    <2> QED
      BY <2>1 DEF Covered
  <1>4. Covered(q, st)
    BY <1>3 DEF Covered
  <1> QED
    BY <1>4 DEF q

\* The sample of a state is the last one of the buffer, or is there already.
LEMMA SampledReaches ==
    ASSUME NEW m \in Modes, NEW p \in Points, NEW t \in Nat,
           NEW ps \in Seq(Presence), Linked(ps, m, t),
           NEW st \in [Modes -> Seq(SampleEntry)], Growing(st, t),
           NEW buf \in Seq(SUBSET Points),
           st[m] # <<>> => Len(Last(st[m]).samples) <= Len(buf),
           NEW sampled, sampled = Sampled(ps, st, buf, m, p, t)
    PROVE  /\ sampled \in Seq(SUBSET Points) /\ sampled # <<>>
           /\ Len(sampled) \in Nat /\ Len(sampled) >= Len(buf)
           /\ st[m] # <<>> => (t - Last(ps).to) \div Step < Len(sampled)
  <1> DEFINE entry == Last(ps).to
             index == (t - entry) \div Step
             stored == IF st[m] = <<>> THEN 0 ELSE Len(Last(st[m]).samples)
  <1>1. t \in Nat
    OBVIOUS
  <1>2. sampled = IF stored = 0 THEN AddSample(buf, p, Len(buf) + 1, 1)
                  ELSE AddSample(buf, p, index + 1, index - (stored - 1))
    BY DEF Sampled
  <1>5. entry \in Nat /\ entry <= t /\ Len(ps) \in 1..Len(ps)
    <2>1. Len(ps) \in 1..Len(ps) /\ ps[Len(ps)].to \in Nat
      BY PresencesAre DEF Linked
    <2> QED
      BY <2>1 DEF Linked, Last
  <1>6. index \in Nat
    <2>1. t - entry \in Nat
      BY <1>5, <1>1
    <2> HIDE DEF entry
    <2> QED
      BY <2>1, Divides
  <1>7. stored \in Nat /\ stored <= Len(buf) /\ (st[m] # <<>> => stored > 0) /\ Len(buf) \in Nat
    <2>1. CASE st[m] = <<>>
      BY <2>1
    <2>2. CASE st[m] # <<>>
      <3>1. /\ Len(st[m]) \in 1..Len(st[m]) /\ Last(st[m]) = st[m][Len(st[m])]
            /\ \A k \in 1..Len(st[m]) : st[m][k].samples \in Seq(SUBSET Points)
        BY <2>2, StatesAre
      <3>2. Last(st[m]).samples \in Seq(SUBSET Points) /\ Last(st[m]).samples # <<>>
        BY <3>1 DEF Growing
      <3>3. Len(Last(st[m]).samples) \in Nat /\ Len(Last(st[m]).samples) > 0
        BY <3>2
      <3> QED
        BY <2>2, <3>3
    <2> QED
      BY <2>1, <2>2
  <1> HIDE DEF entry
  <1>8. /\ sampled \in Seq(SUBSET Points) /\ Len(sampled) >= Len(buf) /\ Len(sampled) > 0
        /\ st[m] # <<>> => index < Len(sampled)
    <2> DEFINE n == Len(buf)
    <2>1. CASE stored = 0
      <3>1. n + 1 \in Nat \ {0} /\ 1 \in Int /\ n + 1 <= n + (IF 1 > 0 THEN 1 ELSE 0)
        BY <1>7
      <3>2. /\ AddSample(buf, p, n + 1, 1) \in Seq(SUBSET Points)
            /\ Len(AddSample(buf, p, n + 1, 1)) = n + (IF 1 > 0 THEN 1 ELSE 0)
        <4>1. 1 <= 1
          OBVIOUS
        <4> HIDE DEF n, stored, index
        <4> QED
          BY <3>1, <4>1, <1>7, Added DEF n
      <3>3. ~(st[m] # <<>>)
        BY <2>1, <1>7
      <3> HIDE DEF stored
      <3> QED
        BY <3>2, <3>3, <2>1, <1>2, <1>7
    <2>2. CASE stored # 0
      <3> DEFINE missing == index - (stored - 1)
      <3> HIDE DEF index, stored
      <3>1. /\ index + 1 \in Nat \ {0} /\ missing \in Int
            /\ index + 1 <= n + (IF missing > 0 THEN missing ELSE 0)
        <4>1. n \in Nat /\ index \in Nat /\ stored \in Nat /\ stored > 0 /\ stored <= n
          BY <2>2, <1>6, <1>7
        <4> HIDE DEF n
        <4> QED
          BY <4>1
      <3>2. buf # <<>>
        BY <2>2, <1>7
      <3> HIDE DEF missing
      <3>3. /\ AddSample(buf, p, index + 1, missing) \in Seq(SUBSET Points)
            /\ Len(AddSample(buf, p, index + 1, missing)) = n + (IF missing > 0 THEN missing ELSE 0)
        BY <3>1, <3>2, Added
      <3>4. sampled = AddSample(buf, p, index + 1, missing)
        BY <2>2, <1>2 DEF missing
      <3>5. n \in Nat /\ n > 0
        BY <2>2, <1>7
      <3>6. /\ sampled \in Seq(SUBSET Points)
            /\ Len(sampled) = n + (IF missing > 0 THEN missing ELSE 0)
        BY <3>3, <3>4
      <3>7. Len(sampled) >= n /\ Len(sampled) > 0 /\ index < Len(sampled)
        <4> HIDE DEF n
        <4> DEFINE L == Len(sampled)
        <4>1. L = n + (IF missing > 0 THEN missing ELSE 0)
          BY <3>6
        <4> HIDE DEF L
        <4>2. L >= n /\ L > 0 /\ index < L
          <5>1. CASE missing > 0
            BY <5>1, <4>1, <3>1, <3>5, <1>6
          <5>2. CASE ~(missing > 0)
            BY <5>2, <4>1, <3>1, <3>5, <1>6
          <5> QED
            BY <5>1, <5>2
        <4> QED
          BY <4>2 DEF L
      <3> QED
        BY <3>6, <3>7
    <2> QED
      BY <2>1, <2>2
  <1>9. sampled # <<>> /\ Len(sampled) \in Nat
    BY <1>8
  <1> QED
    BY <1>8, <1>9 DEF index, entry

\* The purge after a state keeps the invariant.
LEMMA PurgedKeeps ==
    ASSUME NEW m \in Modes, NEW t \in 0..MaxTime,
           NEW ps \in Seq(Presence), Linked(ps, m, t),
           NEW ts \in Seq(TraceEntry), Follow(ts, ps),
           states' \in [Modes -> Seq(SampleEntry)], Growing(states', t), Covered(ps, states'),
           buffer' \in Seq(SUBSET Points), buffer' # <<>>,
           states'[m] # <<>> => Len(Last(states'[m]).samples) <= Len(buffer'),
           states'[m] # <<>> => (t - Last(ps).to) \div Step < Len(buffer'),
           latestMode' = m, latestTime' = t, Purge(t, ps, ts)
    PROVE  HistoryInv' /\ (failure' => presences' = <<>>)
  <1>5. Len(ps) \in 1..Len(ps)
    BY PresencesAre DEF Linked
  <1>10. /\ presences' \in Seq(Presence) /\ traces' \in Seq(TraceEntry) /\ failure' \in BOOLEAN
         /\ failure' => presences' = <<>>
         /\ ~failure' => \E a \in 1..Len(ps) :
               /\ presences' = SubSeq(ps, a, Len(ps))
               /\ Linked(presences', m, t) /\ Follow(traces', presences')
    BY PurgeKeeps
  <1>11. HistoryTypeOK'
    <2>1. \A k \in 1..Len(presences') : presences'[k].from <= presences'[k].to
      <3>1. CASE failure'
        BY <3>1, <1>10
      <3>2. CASE ~failure'
        BY <3>2, <1>10 DEF Linked
      <3> QED
        BY <3>1, <3>2
    <2>2. states' \in [Modes -> Seq([time : 0..MaxTime, samples : Seq(SUBSET Points)])]
      BY DEF SampleEntry
    <2>3. traces' \in Seq([time : 0..MaxTime, trace : Seq(Modes)])
      BY <1>10 DEF TraceEntry
    <2> QED
      BY <1>10, <2>1, <2>2, <2>3 DEF HistoryTypeOK
  <1>12. ASSUME ~failure'
         PROVE  Seen' /\ Stored'
    <2>1. PICK a \in 1..Len(ps) :
             /\ presences' = SubSeq(ps, a, Len(ps))
             /\ Linked(presences', m, t) /\ Follow(traces', presences')
      BY <1>10, <1>12
    <2>2. Seen'
      BY <2>1 DEF Seen
    <2>3. Growing(states', latestTime') /\ Covered(presences', states')
      BY <2>1, SuffixCovered
    <2>4. Last(presences') = Last(ps)
      <3> DEFINE n == Len(ps) - a + 1
      <3>1. n \in 1..n /\ a - 1 + n = Len(ps)
        BY <1>5
      <3>2. Len(presences') = n /\ \A k \in 1..n : presences'[k] = ps[a - 1 + k]
        BY <2>1, Suffix
      <3> HIDE DEF n
      <3>3. presences'[n] = ps[a - 1 + n]
        BY <3>1, <3>2
      <3> QED
        BY <3>1, <3>2, <3>3 DEF Last
    <2>5. Buffered(presences', states', buffer', latestMode', latestTime')
      BY <2>4 DEF Buffered
    <2> QED
      BY <2>2, <2>3, <2>5 DEF Stored
  <1> QED
    BY <1>10, <1>11, <1>12 DEF HistoryInv

\* Acquiring a state, with the purge after it, keeps the invariant.
LEMMA AcquireKeeps ==
    ASSUME HistoryInv, NEW m \in Modes, NEW p \in Points, NEW t \in 0..MaxTime,
           latestTime <= t, Acquire(m, p, t)
    PROVE  HistoryInv' /\ (failure' => presences' = <<>>)
  <1> DEFINE e == Entered(m, t)
  <1>1. /\ HistoryTypeOK /\ (Fresh \/ (Seen /\ Stored)) /\ t \in Nat
    <2>1. HistoryTypeOK /\ (Fresh \/ (Seen /\ Stored))
      BY DEF HistoryInv, Acquire
    <2> QED
      BY <2>1, Times
  <1>2. /\ states' = e.states
        /\ buffer' = Sampled(e.presences, e.states, e.buffer, m, p, t)
        /\ latestMode' = m /\ latestTime' = t
        /\ Purge(t, e.presences, e.traces)
    BY DEF Acquire
  <1>3. /\ e.presences \in Seq(Presence) /\ Linked(e.presences, m, t)
        /\ e.traces \in Seq(TraceEntry) /\ Follow(e.traces, e.presences)
    <2>1. Fresh \/ Seen
      BY <1>1
    <2> HIDE DEF e
    <2> QED
      BY <1>1, <2>1, EnteredPresences, EnteredTraces DEF e
  <1>4. /\ e.states \in [Modes -> Seq(SampleEntry)] /\ e.buffer \in Seq(SUBSET Points)
        /\ Growing(e.states, t) /\ Covered(e.presences, e.states)
        /\ e.states[m] # <<>> => Len(Last(e.states[m]).samples) <= Len(e.buffer)
    BY <1>1, EnteredStates
  <1> HIDE DEF e
  <1>5. PICK ps, st, buf, ts : ps = e.presences /\ st = e.states /\ buf = e.buffer /\ ts = e.traces
    OBVIOUS
  <1>6. /\ ps \in Seq(Presence) /\ Linked(ps, m, t) /\ ts \in Seq(TraceEntry) /\ Follow(ts, ps)
        /\ st \in [Modes -> Seq(SampleEntry)] /\ buf \in Seq(SUBSET Points)
        /\ Growing(st, t) /\ Covered(ps, st)
        /\ st[m] # <<>> => Len(Last(st[m]).samples) <= Len(buf)
    BY <1>3, <1>4, <1>5
  <1>7. /\ buffer' \in Seq(SUBSET Points) /\ buffer' # <<>>
        /\ Len(buffer') \in Nat /\ Len(buffer') >= Len(buf)
        /\ st[m] # <<>> => (t - Last(ps).to) \div Step < Len(buffer')
    <2>1. buffer' = Sampled(ps, st, buf, m, p, t)
      BY <1>2, <1>5
    <2> QED
      BY <2>1, <1>1, <1>6, SampledReaches
  <1>8. st[m] # <<>> => Len(Last(st[m]).samples) <= Len(buffer')
    <2>1. ASSUME st[m] # <<>> PROVE Len(Last(st[m]).samples) \in Nat /\ Len(buf) \in Nat
      <3>1. Last(st[m]) \in SampleEntry
        BY <2>1, <1>6, StatesAre
      <3> QED
        BY <3>1, <1>6 DEF SampleEntry
    <2> QED
      BY <2>1, <1>6, <1>7
  <1>9. states' = st /\ Purge(t, ps, ts) /\ latestMode' = m /\ latestTime' = t
    BY <1>2, <1>5
  <1> QED
    BY <1>6, <1>7, <1>8, <1>9, PurgedKeeps

LEMMA HistoryInitial == HistoryInit => HistoryInv
  <1> SUFFICES ASSUME HistoryInit PROVE HistoryInv
    OBVIOUS
  <1>1. 0 \in 0..MaxTime
    BY TimesAssumption
  <1>2. [time |-> 0, trace |-> <<>>] \in TraceEntry
    BY <1>1 DEF TraceEntry
  <1>3. traces \in Seq(TraceEntry)
    BY <1>2 DEF HistoryInit
  <1>4. states \in [Modes -> Seq([time : 0..MaxTime, samples : Seq(SUBSET Points)])]
    BY DEF HistoryInit
  <1>5. presences \in Seq(Presence) /\ buffer \in Seq(SUBSET Points) /\ Len(presences) = 0
    BY DEF HistoryInit
  <1>6. HistoryTypeOK
    <2>1. \A k \in 1..Len(presences) : presences[k].from <= presences[k].to
      BY <1>5
    <2>2. latestMode \in Modes \cup {NoMode} /\ latestTime \in 0..MaxTime /\ failure \in BOOLEAN
      BY <1>1 DEF HistoryInit
    <2> QED
      BY <2>1, <2>2, <1>3, <1>4, <1>5 DEF HistoryTypeOK, TraceEntry
  <1> QED
    BY <1>6 DEF HistoryInv, Fresh, HistoryInit

LEMMA HistoryStep == HistoryInv /\ HistoryNext => HistoryInv' /\ (failure' => presences' = <<>>)
  <1> SUFFICES ASSUME HistoryInv, HistoryNext
               PROVE  HistoryInv' /\ (failure' => presences' = <<>>)
    OBVIOUS
  <1>1. PICK m \in Modes : \E p \in Places[m], gap \in Gaps :
            latestTime + gap <= MaxTime /\ Acquire(m, p, latestTime + gap)
    BY DEF HistoryNext
  <1>2. PICK p \in Places[m], gap \in Gaps :
            latestTime + gap <= MaxTime /\ Acquire(m, p, latestTime + gap)
    BY <1>1
  <1>3. latestTime \in Nat /\ MaxTime \in Nat /\ gap \in Nat
    BY Times, TimesAssumption DEF HistoryInv
  <1>4. latestTime + gap \in 0..MaxTime /\ latestTime <= latestTime + gap
    BY <1>2, <1>3
  <1>5. p \in Points
    BY DEF Points
  <1> QED
    BY <1>2, <1>4, <1>5, AcquireKeeps

LEMMA HistoryStutter == HistoryInv /\ UNCHANGED history => HistoryInv'
  <1> SUFFICES ASSUME HistoryInv, UNCHANGED history PROVE HistoryInv'
    OBVIOUS
  <1>1. /\ presences' = presences /\ states' = states /\ latestMode' = latestMode
        /\ latestTime' = latestTime /\ buffer' = buffer /\ traces' = traces /\ failure' = failure
    BY DEF history
  <1>2. HistoryTypeOK'
    BY <1>1 DEF HistoryInv, HistoryTypeOK
  <1>3. Fresh => Fresh'
    BY <1>1 DEF Fresh
  <1>4. Seen => Seen'
    BY <1>1 DEF Seen
  <1>5. Stored => Stored'
    BY <1>1 DEF Stored
  <1> QED
    BY <1>1, <1>2, <1>3, <1>4, <1>5 DEF HistoryInv

\* A purge fails when nothing remains.
EmptyOnFailure == failure => presences = <<>>

\* The inductive invariant of a robot's history holds for any modes, points, times of
\* messages, retention and period of the purge: presences and traces stay in
\* step and the samples reach as far as the presences, through changes of mode,
\* repeated and skipped samples and purges (state.cpp:155-231).
THEOREM HistoryInvariance == HistorySpec => [](HistoryInv /\ EmptyOnFailure)
  <1>1. HistoryInit => HistoryInv /\ EmptyOnFailure
    BY HistoryInitial DEF HistoryInit, EmptyOnFailure
  <1>2. HistoryInv /\ EmptyOnFailure /\ [HistoryNext]_history => (HistoryInv /\ EmptyOnFailure)'
    <2>1. HistoryInv /\ HistoryNext => (HistoryInv /\ EmptyOnFailure)'
      BY HistoryStep DEF EmptyOnFailure
    <2>2. HistoryInv /\ EmptyOnFailure /\ UNCHANGED history => (HistoryInv /\ EmptyOnFailure)'
      BY HistoryStutter DEF EmptyOnFailure, history
    <2> QED
      BY <2>1, <2>2
  <1> QED
    BY <1>1, <1>2, PTL DEF HistorySpec

\* The variables of the history keep their types (state.hpp:186-196).
THEOREM HistoryTypeCorrect == HistorySpec => []HistoryTypeOK
  <1>1. HistoryInv => HistoryTypeOK
    BY DEF HistoryInv
  <1> QED
    BY HistoryInvariance, <1>1, PTL

-----------------------------------------------------------------------------
(* The trace of a snapshot is the path of the robot.                        *)

\* What the answers of a snapshot rest on: the types, and presences and traces in step.
HistorySeen == HistoryTypeOK /\ (Past # {} => Seen)

LEMMA PastSeen ==
    ASSUME HistorySeen, NEW s \in Past
    PROVE  /\ HistoryTypeOK /\ ~failure /\ Seen
           /\ s \in Nat /\ presences[1].to <= s /\ s <= latestTime
  <1>1. /\ HistoryTypeOK /\ ~failure /\ presences # <<>> /\ s \in Head(presences).to..latestTime
        /\ Seen
    BY DEF Past, HistorySeen
  <1>2. presences[1].to \in Nat /\ latestTime \in Nat /\ Head(presences) = presences[1]
    BY <1>1, Times, PresencesAre
  <1> QED
    BY <1>1, <1>2

\* There is a past once a state has been seen.
LEMMA InvSeen == HistoryInv => HistorySeen
  BY DEF Past, HistoryInv, HistorySeen, Fresh

LEMMA PastIsSeen ==
    ASSUME HistoryInv, NEW s \in Past
    PROVE  /\ ~failure /\ Seen /\ Stored
           /\ s \in Nat /\ presences[1].to <= s /\ s <= latestTime
  <1>1. ~failure /\ presences # <<>>
    BY DEF Past
  <1>2. Stored
    BY <1>1 DEF HistoryInv, Fresh
  <1> QED
    BY <1>2, InvSeen, PastSeen

\* The trace at a time is that of the last presence to have ended by then.
LEMMA TracesOfPast ==
    ASSUME HistorySeen, NEW s \in Past
    PROVE  LET left == {k \in 1..Len(presences) : presences[k].mode # NoMode /\ presences[k].to <= s}
           IN  /\ HasTrace(s) /\ Len(TraceAt(s)) = Cardinality(left)
               /\ \A k \in left :
                     TraceAt(s)[Cardinality({j \in left : j <= k})] = presences[k].mode
  <1> DEFINE left == {k \in 1..Len(presences) : presences[k].mode # NoMode /\ presences[k].to <= s}
             n == Len(presences)
             B == Skipped(presences)
             K == LastUpTo(traces, s)
  <1>1. /\ HistoryTypeOK /\ Seen /\ s \in Nat /\ presences[1].to <= s
        /\ presences \in Seq(Presence) /\ n \in Nat /\ n >= 1 /\ B \in {0, 1}
        /\ \A k \in 1..n : presences[k].to \in Nat
        /\ Len(traces) = n
    <2>1. HistoryTypeOK /\ Seen /\ s \in Nat /\ presences[1].to <= s
      BY PastSeen
    <2>2. presences \in Seq(Presence)
      BY <2>1, Times
    <2>3. presences # <<>> /\ Len(traces) = n
      BY <2>1 DEF Seen, Linked, Follow
    <2> QED
      BY <2>1, <2>2, <2>3, PresencesAre DEF Skipped
  <1>2. \A k \in 1..n :
           /\ traces[k].time = IF k > B THEN presences[k].to ELSE 0
           /\ Len(traces[k].trace) = k - B
           /\ \A i \in 1..(k - B) : traces[k].trace[i] = presences[i + B].mode
    BY <1>1 DEF Seen, Follow
  <1>3. \A i, k \in 1..n : i <= k => presences[i].to <= presences[k].to
    BY <1>1 DEF Seen, Linked
  <1>4. \A k \in 1..n : presences[k].mode = NoMode <=> k <= B
    BY <1>1 DEF Seen, Linked, Skipped
  <1>5. /\ K \in 0..n /\ (K > 0 => traces[K].time <= s)
        /\ \A k \in 1..n : traces[k].time <= s => k <= K
    BY <1>1, LastUpToIs
  <1> HIDE DEF K, B
  <1>6. K \in 1..n /\ B <= K
    <2>1. 1 \in 1..n /\ traces[1].time <= s
      BY <1>1, <1>2
    <2>2. 1 <= K
      BY <2>1, <1>5
    <2> QED
      BY <2>2, <1>5, <1>1
  <1>7. left = (B + 1)..K
    <2>1. ASSUME NEW k \in 1..n
          PROVE  k \in left <=> k \in (B + 1)..K
      <3>1. CASE k <= B
        BY <3>1, <1>1, <1>4
      <3>2. CASE k > B
        <4>1. presences[k].mode # NoMode /\ traces[k].time = presences[k].to
          BY <3>2, <1>1, <1>2, <1>4
        <4>2. presences[k].to <= s => k <= K
          BY <4>1, <1>5
        <4>3. k <= K => presences[k].to <= s
          <5> SUFFICES ASSUME k <= K PROVE presences[k].to <= s
            OBVIOUS
          <5>1. K > B
            BY <3>2, <1>6, <1>1
          <5>2. presences[K].to <= s
            BY <5>1, <1>2, <1>5, <1>6
          <5>3. presences[k].to <= presences[K].to
            BY <1>3, <1>6
          <5> QED
            BY <5>2, <5>3, <1>1, <1>6
        <4> QED
          BY <3>2, <4>1, <4>2, <4>3, <1>1, <1>6
      <3> QED
        BY <3>1, <3>2, <1>1
    <2>2. left \subseteq 1..n /\ (B + 1)..K \subseteq 1..n
      BY <1>1, <1>6
    <2> HIDE DEF left
    <2> QED
      BY <2>1, <2>2
  <1>8. Cardinality((B + 1)..K) = K - B
    <2>1. B + 1 \in Int /\ K \in Int /\ (B + 1 <= K => K - (B + 1) + 1 = K - B) /\ (~(B + 1 <= K) => K - B = 0)
      BY <1>1, <1>6
    <2>2. Cardinality((B + 1)..K) = IF B + 1 > K THEN 0 ELSE K - (B + 1) + 1
      BY <2>1, FS_Interval
    <2> QED
      BY <2>1, <2>2, <1>1, <1>6
  <1>9. TraceAt(s) = traces[K].trace /\ HasTrace(s) /\ Len(TraceAt(s)) = K - B
    BY <1>2, <1>6 DEF TraceAt, HasTrace, K
  <1>10. ASSUME NEW k \in left
         PROVE  TraceAt(s)[Cardinality({j \in left : j <= k})] = presences[k].mode
    <2>1. k \in (B + 1)..K /\ k \in Nat
      BY <1>1, <1>6, <1>7
    <2>2. {j \in left : j <= k} = (B + 1)..k
      <3> HIDE DEF left
      <3> QED
        BY <1>7, <2>1, <1>1, <1>6
    <2>3. Cardinality((B + 1)..k) = k - B
      <3>1. B + 1 \in Int /\ k \in Int /\ B + 1 <= k /\ k - (B + 1) + 1 = k - B
        BY <2>1, <1>1
      <3> QED
        BY <3>1, FS_Interval
    <2>4. k - B \in 1..(K - B) /\ (k - B) + B = k
      BY <2>1, <1>1, <1>6
    <2>5. traces[K].trace[k - B] = presences[(k - B) + B].mode
      BY <2>4, <1>2, <1>6
    <2> QED
      BY <2>2, <2>3, <2>4, <2>5, <1>9
  <1> QED
    BY <1>7, <1>8, <1>9, <1>10

LEMMA TracesMatch == HistoryInv /\ EmptyOnFailure => TracesMatchPresences
  <1> SUFFICES ASSUME HistoryInv, EmptyOnFailure PROVE TracesMatchPresences
    OBVIOUS
  <1>1. presences # <<>> => Seen
    BY DEF HistoryInv, EmptyOnFailure, Fresh
  <1>2. \A k \in 1..(Len(presences) - 1) :
            /\ presences[k].exit = presences[k + 1].mode
            /\ presences[k].to = presences[k + 1].from
    <2>1. CASE presences = <<>>
      BY <2>1
    <2>2. CASE presences # <<>>
      BY <2>2, <1>1 DEF Seen, Linked
    <2> QED
      BY <2>1, <2>2
  <1>3. presences # <<>> => Last(presences).exit = latestMode
    BY <1>1 DEF Seen, Linked
  <1> QED
    BY <1>2, <1>3, TracesOfPast, InvSeen DEF TracesMatchPresences

\* At any time of the past that is kept there is a trace, and it is the path of
\* the presences that have ended by then (state.cpp:186-203, 317-325, 341-349).
THEOREM TracesMatchPresencesHolds == HistorySpec => []TracesMatchPresences
  BY HistoryInvariance, TracesMatch, PTL

-----------------------------------------------------------------------------
(* The samples of a snapshot reach as far as it looks ahead.                *)

\* A presence has no more samples than there are times.
LEMMA SamplesWithin ==
    ASSUME HistoryTypeOK, NEW k \in 1..Len(presences)
    PROVE  NumSamplesWithin(k) \in Nat /\ NumSamplesWithin(k) <= MaxTime
  <1> DEFINE a == presences[k].to - presences[k].from
             q == a \div Step
  <1>1. presences[k] \in Presence /\ presences[k].from <= presences[k].to
    BY Times, PresencesAre DEF HistoryTypeOK
  <1>2. a \in Nat /\ a <= MaxTime /\ MaxTime \in Nat /\ Step \in Nat \ {0}
    <2>1. /\ presences[k].from \in 0..MaxTime /\ presences[k].to \in 0..MaxTime
          /\ presences[k].from \in Nat /\ presences[k].to \in Nat
      BY <1>1, PresenceTimes
    <2> QED
      BY <1>1, <2>1, TimesAssumption
  <1> HIDE DEF a
  <1>3. a <= Step * a
    <2>1. a * 1 <= a * Step
      BY <1>2, Mult
    <2> QED
      BY <2>1, <1>2
  <1>4. q \in Nat /\ q <= a
    BY <1>2, <1>3, Divides, DivideBounds
  <1> HIDE DEF q
  <1> QED
    BY <1>2, <1>4 DEF NumSamplesWithin, a, q

\* The upper bound of a range is the length of one of its presences, the longest.
LEMMA RangeUpperIs ==
    ASSUME HistoryTypeOK, NEW ks, ks \subseteq 1..Len(presences), ks # {}
    PROVE  \E k \in ks : /\ RangeUpper(ks) = NumSamplesWithin(k)
                         /\ \A i \in ks : RangeUpper(ks) >= NumSamplesWithin(i)
  <1> DEFINE T == {NumSamplesWithin(k) + 1 : k \in ks}
  <1>1. \A k \in ks : NumSamplesWithin(k) \in Nat /\ NumSamplesWithin(k) <= MaxTime
    BY SamplesWithin
  <1>2. MaxTime + 1 \in Nat /\ MaxTime \in Nat
    BY TimesAssumption
  <1>3. T \subseteq 1..(MaxTime + 1) /\ T # {}
    <2>1. \A k \in ks : NumSamplesWithin(k) + 1 \in 1..(MaxTime + 1)
      BY <1>1, <1>2
    <2> QED
      BY <2>1
  <1>4. Max(T) \in T /\ \A i \in T : i <= Max(T)
    <2> HIDE DEF T
    <2> QED
      BY <1>2, <1>3, MaxIs
  <1>5. PICK k \in ks : Max(T) = NumSamplesWithin(k) + 1
    BY <1>4
  <1>6. \A i \in ks : NumSamplesWithin(k) >= NumSamplesWithin(i)
    <2> TAKE i \in ks
    <2>1. NumSamplesWithin(i) + 1 <= NumSamplesWithin(k) + 1
      BY <1>4, <1>5
    <2> QED
      BY <2>1, <1>1
  <1>7. \E n \in {NumSamplesWithin(i) : i \in ks} : \A i \in ks : n >= NumSamplesWithin(i)
    BY <1>6
  <1>8. /\ RangeUpper(ks) \in {NumSamplesWithin(i) : i \in ks}
        /\ \A i \in ks : RangeUpper(ks) >= NumSamplesWithin(i)
    BY <1>7 DEF RangeUpper
  <1> QED
    BY <1>8

\* The samples of a mode reach as far as each of its presences.
LEMMA PresenceSamples ==
    ASSUME HistoryInv, NEW s \in Past, NEW m \in Modes, NEW k \in PresencesIn(m, s)
    PROVE  /\ HasSamplesAt(m, s) /\ NumSamples(m, s) \in Nat
           /\ NumSamplesWithin(k) <= NumSamples(m, s)
  <1> DEFINE E == states[m]
             K == LastUpTo(E, s)
  <1>1. /\ HistoryTypeOK /\ Seen /\ Stored /\ s \in Nat
        /\ E \in Seq(SampleEntry) /\ Len(E) \in Nat
        /\ \A i \in 1..Len(E) : E[i].time \in Nat /\ Len(E[i].samples) \in Nat
    <2>1. HistoryTypeOK /\ Seen /\ Stored /\ s \in Nat
      BY PastIsSeen DEF HistoryInv
    <2>2. states \in [Modes -> Seq(SampleEntry)]
      BY <2>1, Times
    <2> QED
      BY <2>1, <2>2, StatesAre
  <1>2. k \in 1..Len(presences) /\ presences[k].mode = m /\ presences[k].to <= s
    BY DEF PresencesIn
  <1>3. CoversPresence(E, presences[k])
    BY <1>1, <1>2, ModesAssumption DEF Stored, Covered
  <1>4. PICK i \in 1..Len(E) : /\ E[i].time = presences[k].to
                               /\ NumSamplesWithin(k) <= Len(E[i].samples)
    BY <1>3 DEF CoversPresence, NumSamplesWithin
  <1>5. K \in 0..Len(E) /\ i <= K
    BY <1>1, <1>2, <1>4, LastUpToIs
  <1>6. K \in 1..Len(E)
    BY <1>5, <1>1
  <1>7. Len(E[i].samples) <= Len(E[K].samples)
    BY <1>1, <1>5, <1>6 DEF Stored, Growing
  <1>8. NumSamples(m, s) = Len(E[K].samples) /\ HasSamplesAt(m, s)
    BY <1>6 DEF NumSamples, Samples, HasSamplesAt
  <1> HIDE DEF E, K
  <1> QED
    BY <1>1, <1>4, <1>6, <1>7, <1>8, <1>2, SamplesWithin

\* They reach as far as the longest of them.
LEMMA RangeWithinSamples ==
    ASSUME HistoryInv, NEW s \in Past, NEW m \in Modes, PresencesIn(m, s) # {}
    PROVE  /\ HasSamplesAt(m, s) /\ NumSamples(m, s) \in Nat
           /\ RangeUpper(PresencesIn(m, s)) \in Nat
           /\ RangeUpper(PresencesIn(m, s)) <= NumSamples(m, s)
  <1>1. PresencesIn(m, s) \subseteq 1..Len(presences)
    BY DEF PresencesIn
  <1>2. PICK k \in PresencesIn(m, s) : RangeUpper(PresencesIn(m, s)) = NumSamplesWithin(k)
    BY <1>1, RangeUpperIs DEF HistoryInv
  <1> QED
    BY <1>1, <1>2, PresenceSamples, SamplesWithin DEF HistoryInv

\* A mode is held at t since an earlier time.
LEMMA EntryIsEarlier ==
    ASSUME HistoryTypeOK, Seen, NEW t \in Nat, NEW m, HasEntry(m, t)
    PROVE  EntryTime(m, t) \in Nat /\ EntryTime(m, t) <= t
  <1>1. /\ presences \in Seq(Presence)
        /\ Len(presences) \in Nat
        /\ \A k \in 1..Len(presences) : presences[k].from \in Nat
        /\ Last(presences).to \in Nat
    BY Times, PresencesAre, LastPresence
  <1>2. CASE t >= Last(presences).to
    BY <1>1, <1>2, EntryOfLatest
  <1>3. CASE ~(t >= Last(presences).to)
    <2> DEFINE T == {k \in 1..Len(presences) : HoldsPresence(presences[k], m, t)}
    <2>1. PICK k \in 2..Len(presences) : HoldsPresence(presences[k], m, t)
      BY <1>3 DEF HasEntry
    <2>2. k \in T
      BY <2>1
    <2>3. Max(T) \in T
      <3>1. T # {} /\ T \subseteq 1..Len(presences)
        BY <2>2
      <3> HIDE DEF T
      <3> QED
        BY <3>1, <1>1, MaxIs
    <2>4. EntryTime(m, t) = presences[Max(T)].from
      <3>1. SelectLastInSeq(presences, LAMBDA p : HoldsPresence(p, m, t)) = Max(T)
        BY <2>2 DEF SelectLastInSeq
      <3> QED
        BY <1>3, <3>1 DEF EntryTime
    <2> QED
      BY <2>3, <2>4, <1>1 DEF HoldsPresence
  <1> QED
    BY <1>2, <1>3

LEMMA ModeAtIs ==
    ASSUME HistoryTypeOK, NEW t
    PROVE  ModeAt(t) \in Modes \cup {NoMode}
  <1> DEFINE T == {k \in 1..Len(presences) : presences[k].from <= t /\ t < presences[k].to}
             k == IF T # {} THEN Min(T) ELSE 0
  <1>1. presences \in Seq(Presence) /\ latestMode \in Modes \cup {NoMode}
    BY Times DEF HistoryTypeOK
  <1>2. SelectInSeq(presences, LAMBDA p : p.from <= t /\ t < p.to) = k
    BY DEF SelectInSeq
  <1>3. T # {} => Min(T) \in T
    <2>1. T \subseteq Nat
      OBVIOUS
    <2> HIDE DEF T
    <2> QED
      BY <2>1, MinIs
  <1>4. CASE T = {}
    BY <1>1, <1>2, <1>4 DEF ModeAt
  <1>5. CASE T # {}
    <2>1. Min(T) \in 1..Len(presences) /\ Min(T) # 0
      BY <1>3, <1>5
    <2>2. ModeAt(t) = presences[Min(T)].mode
      <3>1. k = Min(T) /\ k # 0
        BY <1>5, <2>1
      <3> HIDE DEF k, T
      <3> QED
        BY <1>2, <3>1 DEF ModeAt
    <2> QED
      BY <2>1, <2>2, <1>1, PresencesAre, PresenceTimes
  <1> QED
    BY <1>4, <1>5

LEMMA SamplesAreCovered == HistoryInv => SamplesCover
  <1> SUFFICES ASSUME HistoryInv PROVE SamplesCover
    OBVIOUS
  <1>1. ASSUME NEW s \in Past, NEW m \in ModesWithSamples(s)
        PROVE  NumSamples(m, s) >= RangeUpper(PresencesIn(m, s))
    <2>1. m \in Modes /\ HasSamplesAt(m, s)
      BY DEF ModesWithSamples
    <2>2. CASE PresencesIn(m, s) = {}
      <3>1. RangeUpper(PresencesIn(m, s)) = 0
        BY <2>2 DEF RangeUpper
      <3>2. NumSamples(m, s) \in Nat
        <4> DEFINE E == states[m]
        <4>1. /\ s \in Nat /\ Len(E) \in Nat /\ \A i \in 1..Len(E) : Len(E[i].samples) \in Nat
          BY <2>1, PastIsSeen, Times, StatesAre DEF HistoryInv
        <4>2. LastUpTo(E, s) \in 1..Len(E)
          BY <4>1, <2>1, LastUpToIs DEF HasSamplesAt
        <4> QED
          BY <4>1, <4>2 DEF NumSamples, Samples
      <3> QED
        BY <3>1, <3>2
    <2>3. CASE PresencesIn(m, s) # {}
      BY <2>1, <2>3, RangeWithinSamples
    <2> QED
      BY <2>2, <2>3
  <1>2. ASSUME NEW s \in Past, NEW t \in Past, s <= t, CanLookAhead(s, t)
        PROVE  SampleIndex(ModeAt(t), t) < NumSamples(ModeAt(t), s)
    <2> DEFINE m == ModeAt(t)
               u == RangeUpper(PresencesIn(m, s))
               d == t - EntryTime(m, t)
    <2>1. m # NoMode /\ HasEntry(m, t) /\ d < Step * u
      BY <1>2 DEF CanLookAhead
    <2>2. m \in Modes
      BY <2>1, ModeAtIs DEF HistoryInv
    <2> HIDE DEF m
    <2>3. t \in Nat /\ EntryTime(m, t) \in Nat /\ EntryTime(m, t) <= t
      BY <2>1, PastIsSeen, EntryIsEarlier DEF HistoryInv
    <2>4. d \in Nat /\ Step \in Nat \ {0}
      BY <2>3, TimesAssumption
    <2>5. PresencesIn(m, s) # {}
      <3> SUFFICES ASSUME PresencesIn(m, s) = {} PROVE FALSE
        OBVIOUS
      <3>1. u = 0
        BY DEF RangeUpper
      <3> HIDE DEF u, d
      <3>2. Step * u = 0
        BY <3>1, <2>4
      <3> QED
        BY <3>2, <2>1, <2>4
    <2>6. NumSamples(m, s) \in Nat /\ u \in Nat /\ u <= NumSamples(m, s)
      BY <2>2, <2>5, RangeWithinSamples
    <2> HIDE DEF u, d
    <2>7. d \div Step < u /\ d \div Step \in Nat
      BY <2>1, <2>4, <2>6, Divides, DivideBounds
    <2>8. SampleIndex(m, t) = d \div Step
      BY DEF SampleIndex, d
    <2>9. SampleIndex(m, t) < NumSamples(m, s)
      BY <2>6, <2>7, <2>8
    <2> QED
      BY <2>9 DEF m
  <1>3. ASSUME latestMode # NoMode, ~failure, states[latestMode] # <<>>
        PROVE  SampleIndex(latestMode, latestTime) < Len(buffer)
    <2>1. HistoryTypeOK /\ Seen /\ Stored
      BY <1>3 DEF HistoryInv, Fresh
    <2>2. latestTime >= Last(presences).to
      BY <2>1, LastPresence, Times
    <2> QED
      BY <1>3, <2>1, <2>2, EntryOfLatest DEF Stored, Buffered, SampleIndex
  <1> QED
    BY <1>1, <1>2, <1>3 DEF SamplesCover

\* What can be looked ahead has its sample: the assertion of state.cpp:413 never
\* fails, and neither does the access to the buffer of state.cpp:286, however
\* states arrive and whatever is purged.
THEOREM SamplesCoverHolds == HistorySpec => []SamplesCover
  BY HistoryInvariance, SamplesAreCovered, PTL

-----------------------------------------------------------------------------
(* A later state does not change a snapshot.                                *)

LEMMA OnlyOne ==
    ASSUME NEW k \in Nat
    PROVE  Min({k}) = k /\ Max({k}) = k
  <1>1. \A x, y \in {k} : x <= y /\ x >= y
    OBVIOUS
  <1> QED
    BY <1>1 DEF Min, Max

\* Before the last change of mode exactly one presence holds a time, and none later.
LEMMA Holder ==
    ASSUME NEW ps \in Seq(Presence), NEW c, NEW now \in 0..MaxTime, Linked(ps, c, now),
           NEW s \in Nat, ps[1].to <= s
    PROVE  /\ s < Last(ps).to => \E k \in 2..Len(ps) :
                {j \in 1..Len(ps) : ps[j].from <= s /\ s < ps[j].to} = {k}
           /\ s >= Last(ps).to => {j \in 1..Len(ps) : ps[j].from <= s /\ s < ps[j].to} = {}
  <1> DEFINE n == Len(ps)
             T == {j \in 1..n : ps[j].from <= s /\ s < ps[j].to}
             U == {j \in 1..n : s < ps[j].to}
  <1>1. /\ n \in Nat /\ n >= 1 /\ Last(ps) = ps[n]
        /\ \A k \in 1..n : ps[k].from \in Nat /\ ps[k].to \in Nat
    BY PresencesAre DEF Linked, Last
  <1>2. /\ \A i, k \in 1..n : i <= k => ps[i].to <= ps[k].to
        /\ \A k \in 1..(n - 1) : ps[k].to = ps[k + 1].from
    BY DEF Linked
  <1> HIDE DEF n
  <1>3. \A k \in 2..n : k - 1 \in 1..n /\ ps[k].from = ps[k - 1].to
    <2> TAKE k \in 2..n
    <2> DEFINE i == k - 1
    <2>1. i \in 1..(n - 1) /\ i + 1 = k /\ i \in 1..n
      BY <1>1
    <2> HIDE DEF i
    <2>2. ps[k].from = ps[i].to
      BY <2>1, <1>2
    <2> QED
      BY <2>1, <2>2 DEF i
  <1>4. CASE s >= ps[n].to
    <2>1. \A k \in 1..n : ps[k].to <= s
      BY <1>1, <1>2, <1>4
    <2>2. T = {}
      BY <2>1, <1>1
    <2> QED
      BY <2>2, <1>1, <1>4 DEF n
  <1>5. CASE ~(s >= ps[n].to)
    <2>1. Min(U) \in U /\ \A i \in U : Min(U) <= i
      <3>1. n \in U /\ U \subseteq Nat
        BY <1>1, <1>5
      <3> HIDE DEF U
      <3> QED
        BY <3>1, MinIs
    <2> DEFINE k == Min(U)
    <2> HIDE DEF k
    <2>2. k \in 1..n /\ s < ps[k].to /\ \A i \in 1..n : s < ps[i].to => k <= i
      BY <2>1 DEF k
    <2>3. k \in 2..n
      <3>1. k # 1
        BY <2>2, <1>1
      <3> QED
        BY <3>1, <2>2, <1>1
    <2>4. ps[k].from <= s
      <3>1. k - 1 \in 1..n /\ ps[k].from = ps[k - 1].to
        BY <2>3, <1>3
      <3>2. ~(k <= k - 1)
        BY <2>3, <1>1
      <3> QED
        BY <3>1, <3>2, <2>2, <1>1
    <2>5. ASSUME NEW j \in T
          PROVE  j = k
      <3> SUFFICES ASSUME j # k PROVE FALSE
        OBVIOUS
      <3>1. j \in 1..n /\ k <= j /\ ps[j].from <= s
        BY <2>2
      <3>2. j \in 2..n /\ k <= j - 1
        BY <3>1, <2>2, <1>1
      <3>3. ps[j].from = ps[j - 1].to /\ j - 1 \in 1..n
        BY <3>2, <1>3
      <3>4. ps[k].to <= ps[j - 1].to
        BY <3>2, <3>3, <2>2, <1>2
      <3> QED
        BY <3>1, <3>3, <3>4, <2>2, <1>1
    <2>6. T = {k}
      BY <2>2, <2>4, <2>5
    <2> QED
      BY <2>3, <2>6, <1>1, <1>5 DEF n
  <1> QED
    BY <1>4, <1>5

\* What a state acquired after s, without a purge, may do to the entries of the history.
LaterPresences(s) ==
    /\ \A k \in 1..Len(presences) : presences'[k] = presences[k]
    /\ \/ Len(presences') = Len(presences) /\ latestMode' = latestMode
       \/ /\ Len(presences') = Len(presences) + 1
          /\ presences'[Len(presences) + 1].mode = latestMode
          /\ presences'[Len(presences) + 1].from = Last(presences).to
          /\ presences'[Len(presences) + 1].to \in Nat
          /\ s < presences'[Len(presences) + 1].to

LaterEntries(before, after, s) ==
    /\ LastUpTo(after, s) = LastUpTo(before, s)
    /\ \A k \in 1..Len(before) : after[k] = before[k]

\* The mode at s is still held from the same time, by a presence if it has been left.
LEMMA ModeKept ==
    ASSUME HistorySeen, NEW s \in Past, LaterPresences(s)
    PROVE  /\ ModeAt(s)' = ModeAt(s) /\ SampleIndex(ModeAt(s), s)' = SampleIndex(ModeAt(s), s)
           /\ EntryTime(ModeAt(s), s)' = EntryTime(ModeAt(s), s)
           /\ HasEntry(ModeAt(s), s) /\ HasEntry(ModeAt(s), s)'
  <1> DEFINE n == Len(presences)
             T == {j \in 1..n : presences[j].from <= s /\ s < presences[j].to}
             U == {j \in 1..Len(presences') : presences'[j].from <= s /\ s < presences'[j].to}
  <1>1. /\ presences \in Seq(Presence) /\ s \in Nat /\ n \in Nat /\ n >= 1
        /\ Last(presences) = presences[n]
        /\ \A k \in 1..n : presences[k].from \in Nat /\ presences[k].to \in Nat
        /\ \A k \in 1..n : presences'[k] = presences[k]
        /\ presences[1].to <= s
    <2>1. HistoryTypeOK /\ Seen
      BY PastSeen
    <2> QED
      BY <2>1, PastSeen, Times, LastPresence, PresencesAre DEF LaterPresences, Seen
  <1>2. ASSUME NEW k \in 2..n, T = {k}, U = {k}, s < Last(presences).to,
               ~(s >= Last(presences').to), Len(presences') \in Nat, n <= Len(presences')
        PROVE  /\ ModeAt(s)' = ModeAt(s) /\ SampleIndex(ModeAt(s), s)' = SampleIndex(ModeAt(s), s)
               /\ EntryTime(ModeAt(s), s)' = EntryTime(ModeAt(s), s)
               /\ HasEntry(ModeAt(s), s) /\ HasEntry(ModeAt(s), s)'
    <2>0. PICK m : m = presences[k].mode
      OBVIOUS
    <2>1. /\ k \in Nat /\ k # 0 /\ k \in 1..n /\ presences'[k] = presences[k]
          /\ k \in 2..Len(presences')
      <3> HIDE DEF T, U
      <3> QED
        BY <1>1, <1>2
    <2>2. Min({k}) = k /\ Max({k}) = k
      BY <2>1, OnlyOne
    <2>3. ModeAt(s) = m
      <3>1. ModeAt(s) = IF (IF T # {} THEN Min(T) ELSE 0) = 0 THEN latestMode
                        ELSE presences[IF T # {} THEN Min(T) ELSE 0].mode
        BY DEF ModeAt, SelectInSeq
      <3> HIDE DEF T
      <3> QED
        BY <3>1, <2>0, <2>1, <2>2, <1>2
    <2>4. ModeAt(s)' = m
      <3>1. ModeAt(s)' = IF (IF U # {} THEN Min(U) ELSE 0) = 0 THEN latestMode'
                         ELSE presences'[IF U # {} THEN Min(U) ELSE 0].mode
        BY DEF ModeAt, SelectInSeq
      <3> HIDE DEF U
      <3> QED
        BY <3>1, <2>0, <2>1, <2>2, <1>2
    <2> DEFINE V == {j \in 1..n : HoldsPresence(presences[j], m, s)}
               W == {j \in 1..Len(presences') : HoldsPresence(presences'[j], m, s)}
    <2>5. V = {k}
      BY <1>2, <2>0, <2>1 DEF HoldsPresence
    <2>6. W = {k}
      BY <1>2, <2>0, <2>1 DEF HoldsPresence
    <2>7. EntryTime(m, s) = presences[k].from
      <3>1. EntryTime(m, s) = IF s >= Last(presences).to THEN Last(presences).to
                              ELSE presences[IF V # {} THEN Max(V) ELSE 0].from
        BY DEF EntryTime, SelectLastInSeq
      <3>2. ~(s >= Last(presences).to)
        <4> HIDE DEF T, U
        <4> QED
          BY <1>1, <1>2
      <3> HIDE DEF V
      <3> QED
        BY <3>1, <3>2, <2>1, <2>2, <2>5
    <2>8. EntryTime(m, s)' = presences[k].from
      <3>1. EntryTime(m, s)' = IF s >= Last(presences').to THEN Last(presences').to
                               ELSE presences'[IF W # {} THEN Max(W) ELSE 0].from
        BY DEF EntryTime, SelectLastInSeq
      <3> HIDE DEF W
      <3> QED
        BY <3>1, <2>1, <2>2, <2>6, <1>2
    <2>9. HasEntry(m, s) /\ HasEntry(m, s)'
      BY <2>1, <2>5, <2>6 DEF HasEntry
    <2> QED
      BY <2>3, <2>4, <2>7, <2>8, <2>9 DEF SampleIndex
  <1>3. \/ Len(presences') = n /\ latestMode' = latestMode
        \/ /\ Len(presences') = n + 1
           /\ presences'[n + 1].mode = latestMode
           /\ presences'[n + 1].from = presences[n].to
           /\ presences'[n + 1].to \in Nat
           /\ s < presences'[n + 1].to
    BY <1>1 DEF LaterPresences
  <1>4. Last(presences') = presences'[Len(presences')]
    BY DEF Last
  <1>5. /\ s < presences[n].to => \E k \in 2..n : T = {k}
        /\ s >= presences[n].to => T = {}
    <2>1. Seen /\ HistoryTypeOK
      BY PastSeen
    <2>2. Linked(presences, latestMode, latestTime) /\ latestTime \in 0..MaxTime
      BY <2>1 DEF Seen, HistoryTypeOK
    <2> QED
      BY <2>2, <1>1, Holder
  <1>6. CASE s < presences[n].to
    <2>1. PICK k \in 2..n : T = {k}
      BY <1>5, <1>6
    <2>2. ~(s >= presences'[Len(presences')].to) /\ Len(presences') \in Nat /\ n <= Len(presences')
      BY <1>1, <1>3, <1>6
    <2>3. U = {k}
      <3>1. ASSUME NEW j \in 1..Len(presences')
            PROVE  j \in U <=> j \in T
        <4>1. CASE j \in 1..n
          BY <4>1, <1>1
        <4>2. CASE j \notin 1..n
          <5>1. j = n + 1 /\ presences'[j].from = presences[n].to
            BY <4>2, <1>1, <1>3
          <5> QED
            BY <5>1, <4>2, <1>1, <1>6
        <4> QED
          BY <4>1, <4>2
      <3>2. T \subseteq 1..Len(presences')
        BY <2>2, <1>1
      <3>3. U = T
        BY <3>1, <3>2
      <3> QED
        BY <3>3, <2>1
    <2> HIDE DEF T, U, n
    <2> QED
      BY <2>1, <2>2, <2>3, <1>1, <1>2, <1>4, <1>6
  <1>7. CASE ~(s < presences[n].to)
    <2>1. s >= presences[n].to /\ T = {}
      BY <1>1, <1>5, <1>7
    <2>2. ModeAt(s) = latestMode
      <3>1. ModeAt(s) = IF (IF T # {} THEN Min(T) ELSE 0) = 0 THEN latestMode
                        ELSE presences[IF T # {} THEN Min(T) ELSE 0].mode
        BY DEF ModeAt, SelectInSeq
      <3> HIDE DEF T
      <3> QED
        BY <3>1, <2>1
    <2>0. PICK c, x : c = latestMode /\ x = presences[n].to
      OBVIOUS
    <2>3. EntryTime(c, s) = x /\ HasEntry(c, s)
      BY <2>0, <2>1, <1>1, EntryOfLatest DEF HasEntry
    <2>4. ModeAt(s)' = c /\ EntryTime(c, s)' = x /\ HasEntry(c, s)'
      <3>1. ModeAt(s)' = IF (IF U # {} THEN Min(U) ELSE 0) = 0 THEN latestMode'
                         ELSE presences'[IF U # {} THEN Min(U) ELSE 0].mode
        BY DEF ModeAt, SelectInSeq
      <3>2. CASE Len(presences') = n /\ latestMode' = latestMode
        <4>1. U = {}
          BY <3>2, <2>1, <1>1
        <4>2. Last(presences').to = x
          BY <3>2, <2>0, <1>1, <1>4
        <4>3. s >= Last(presences').to
          BY <4>2, <2>0, <2>1
        <4> HIDE DEF U
        <4> QED
          BY <4>1, <4>2, <4>3, <3>1, <3>2, <2>0 DEF EntryTime, HasEntry
      <3>3. CASE /\ Len(presences') = n + 1
                 /\ presences'[n + 1].mode = latestMode
                 /\ presences'[n + 1].from = presences[n].to
                 /\ presences'[n + 1].to \in Nat
                 /\ s < presences'[n + 1].to
        <4>0. PICK k \in Nat : k = n + 1
          BY <1>1
        <4>1. /\ k \in 2..Len(presences') /\ k # 0
              /\ presences'[k].mode = c /\ presences'[k].from = x
              /\ presences'[k].from <= s /\ s < presences'[k].to
          BY <4>0, <3>3, <2>0, <2>1, <1>1
        <4>2. \A j \in 1..n : ~(s < presences'[j].to)
          <5> TAKE j \in 1..n
          <5>1. ~(presences[j].from <= s /\ s < presences[j].to)
            BY <2>1
          <5>2. presences[j].from <= presences[j].to /\ presences[j].to <= presences[n].to
            <6>1. Seen
              BY PastSeen
            <6> QED
              BY <6>1, <1>1 DEF Seen, Linked
          <5> QED
            BY <5>2, <2>1, <1>1
        <4>3. \A j \in 1..Len(presences') : s < presences'[j].to => j = k
          <5> TAKE j \in 1..Len(presences')
          <5>1. j \in 1..n \/ j = k
            BY <4>0, <3>3, <1>1
          <5> QED
            BY <5>1, <4>2
        <4>4. U = {k}
          BY <4>1, <4>3
        <4>5. Min({k}) = k /\ Max({k}) = k
          BY <4>1, OnlyOne
        <4> DEFINE W == {j \in 1..Len(presences') : HoldsPresence(presences'[j], c, s)}
        <4>6. W = {k}
          BY <4>1, <4>3 DEF HoldsPresence
        <4>7. ModeAt(s)' = c
          <5> HIDE DEF U
          <5> QED
            BY <4>1, <4>4, <4>5, <3>1
        <4>8. EntryTime(c, s)' = IF s >= Last(presences').to THEN Last(presences').to
                                 ELSE presences'[IF W # {} THEN Max(W) ELSE 0].from
          BY DEF EntryTime, SelectLastInSeq
        <4>9. ~(s >= Last(presences').to)
          BY <4>0, <3>3, <1>1, <1>4
        <4>10. EntryTime(c, s)' = x
          <5> HIDE DEF W
          <5> QED
            BY <4>1, <4>5, <4>6, <4>8, <4>9
        <4>11. HasEntry(c, s)'
          BY <4>1 DEF HasEntry, HoldsPresence
        <4> QED
          BY <4>7, <4>10, <4>11
      <3> QED
        BY <3>2, <3>3, <1>3
    <2> QED
      BY <2>0, <2>2, <2>3, <2>4 DEF SampleIndex
  <1> QED
    BY <1>1, <1>6, <1>7

\* A presence that ends after s is not among those that have ended.
LEMMA PresencesKept ==
    ASSUME HistorySeen, NEW s \in Past, LaterPresences(s), NEW m
    PROVE  /\ PresencesIn(m, s)' = PresencesIn(m, s) /\ PresencesIn(m, s) \subseteq 1..Len(presences)
           /\ PresencesInto(m, s)' = PresencesInto(m, s)
           /\ LeftBefore(m, s, s)' = LeftBefore(m, s, s)
  <1> DEFINE n == Len(presences)
  <1>1. /\ n \in Nat /\ s \in Nat /\ \A k \in 1..n : presences'[k] = presences[k]
        /\ Len(presences') \in {n, n + 1}
        /\ Len(presences') = n + 1 => presences'[n + 1].to \in Nat /\ s < presences'[n + 1].to
    BY PastSeen, Times, PresencesAre DEF LaterPresences
  <1> HIDE DEF n
  <1>2. \A k \in 1..Len(presences') :
           \/ k \in 1..n /\ presences'[k] = presences[k]
           \/ ~(presences'[k].to <= s) /\ ~(s > presences'[k].to)
    <2> TAKE k \in 1..Len(presences')
    <2>1. k \in 1..n \/ (k = n + 1 /\ Len(presences') = n + 1)
      BY <1>1
    <2> QED
      BY <2>1, <1>1
  <1>3. 1..n \subseteq 1..Len(presences')
    BY <1>1
  <1>4. PresencesIn(m, s)' = PresencesIn(m, s)
    BY <1>1, <1>2, <1>3 DEF PresencesIn, n
  <1>5. PresencesInto(m, s)' = PresencesInto(m, s)
    BY <1>1, <1>2, <1>3 DEF PresencesInto, n
  <1>6. LeftBefore(m, s, s)' = LeftBefore(m, s, s)
    <2>1. ASSUME NEW k \in 1..n
          PROVE  (\A j \in 1..k : presences'[j].from < s) <=> (\A j \in 1..k : presences[j].from < s)
      <3>1. \A j \in 1..k : j \in 1..n /\ presences'[j] = presences[j]
        BY <1>1
      <3> QED
        BY <3>1
    <2>2. LeftBefore(m, s, s)' <=> \E k \in 1..Len(presences') :
               /\ presences'[k].mode = m /\ s > presences'[k].to
               /\ \A j \in 1..k : presences'[j].from < s
      BY DEF LeftBefore
    <2>3. LeftBefore(m, s, s) <=> \E k \in 1..n :
               /\ presences[k].mode = m /\ s > presences[k].to
               /\ \A j \in 1..k : presences[j].from < s
      BY DEF LeftBefore, n
    <2>4. \A k \in 1..n : presences'[k] = presences[k] /\ k \in 1..Len(presences')
      BY <1>1, <1>3
    <2>5. \A k \in 1..Len(presences') : s > presences'[k].to => k \in 1..n
      BY <1>2
    <2>6. LeftBefore(m, s, s)' <=> LeftBefore(m, s, s)
      <3>1. ASSUME LeftBefore(m, s, s)' PROVE LeftBefore(m, s, s)
        <4>1. PICK k \in 1..Len(presences') :
                 /\ presences'[k].mode = m /\ s > presences'[k].to
                 /\ \A j \in 1..k : presences'[j].from < s
          BY <2>2, <3>1
        <4>2. k \in 1..n /\ presences'[k] = presences[k]
          BY <4>1, <2>4, <2>5
        <4> QED
          BY <4>1, <4>2, <2>1, <2>3
      <3>2. ASSUME LeftBefore(m, s, s) PROVE LeftBefore(m, s, s)'
        <4>1. PICK k \in 1..n :
                 /\ presences[k].mode = m /\ s > presences[k].to
                 /\ \A j \in 1..k : presences[j].from < s
          BY <2>3, <3>2
        <4>2. k \in 1..Len(presences') /\ presences'[k] = presences[k]
          BY <2>4
        <4> QED
          BY <4>1, <4>2, <2>1, <2>2
      <3> QED
        BY <3>1, <3>2
    <2> QED
      BY <2>6 DEF LeftBefore
  <1> QED
    BY <1>4, <1>5, <1>6 DEF PresencesIn

LEMMA RangesKept ==
    ASSUME HistoryTypeOK, NEW ks, ks \subseteq 1..Len(presences),
           \A k \in 1..Len(presences) : presences'[k] = presences[k]
    PROVE  RangeLower(ks)' = RangeLower(ks) /\ RangeUpper(ks)' = RangeUpper(ks)
  <1> DEFINE N == {NumSamplesWithin(k) : k \in ks}
  <1>1. \A k \in ks : /\ NumSamplesWithin(k)' = NumSamplesWithin(k)
                      /\ NumSamplesWithin(k) \in Nat /\ NumSamplesWithin(k) <= MaxTime
    BY SamplesWithin DEF NumSamplesWithin
  <1>2. CASE ks = {}
    BY <1>2 DEF RangeLower, RangeUpper
  <1>3. CASE ks # {}
    <2>1. PICK l \in N : \A k \in ks : l <= NumSamplesWithin(k)
      <3>1. N \subseteq Nat /\ N # {}
        BY <1>1, <1>3
      <3>2. Min(N) \in N /\ \A i \in N : Min(N) <= i
        <4> HIDE DEF N
        <4> QED
          BY <3>1, MinIs
      <3>3. \A k \in ks : Min(N) <= NumSamplesWithin(k)
        BY <3>2
      <3> QED
        BY <3>2, <3>3
    <2>2. PICK u \in N : \A k \in ks : u >= NumSamplesWithin(k)
      <3>1. RangeUpper(ks) \in N /\ \A k \in ks : RangeUpper(ks) >= NumSamplesWithin(k)
        BY <1>3, RangeUpperIs
      <3> QED
        BY <3>1
    <2>3. l \in Nat /\ u \in Nat
      BY <1>1
    <2>4. PICK v, w : v = l /\ w = u
      OBVIOUS
    <2>5. RangeLower(ks) = v
      <3>1. RangeLower(ks) \in N /\ \A k \in ks : RangeLower(ks) <= NumSamplesWithin(k)
        BY <2>1, <1>3 DEF RangeLower
      <3>2. RangeLower(ks) \in Nat /\ RangeLower(ks) <= l /\ l <= RangeLower(ks)
        BY <3>1, <2>1, <1>1
      <3> QED
        BY <3>2, <2>3, <2>4
    <2>6. RangeUpper(ks) = w
      <3>1. RangeUpper(ks) \in N /\ \A k \in ks : RangeUpper(ks) >= NumSamplesWithin(k)
        BY <2>2, <1>3 DEF RangeUpper
      <3>2. RangeUpper(ks) \in Nat /\ RangeUpper(ks) <= u /\ u <= RangeUpper(ks)
        BY <3>1, <2>2, <1>1
      <3> QED
        BY <3>2, <2>3, <2>4
    <2>7. /\ v \in {NumSamplesWithin(k)' : k \in ks} /\ \A k \in ks : v <= NumSamplesWithin(k)'
          /\ w \in {NumSamplesWithin(k)' : k \in ks} /\ \A k \in ks : w >= NumSamplesWithin(k)'
      BY <1>1, <2>1, <2>2, <2>4
    <2>8. RangeLower(ks)' = v
      <3>1. /\ RangeLower(ks)' \in {NumSamplesWithin(k)' : k \in ks}
            /\ \A k \in ks : RangeLower(ks)' <= NumSamplesWithin(k)'
        BY <2>7, <1>3 DEF RangeLower
      <3>2. RangeLower(ks)' \in Nat /\ RangeLower(ks)' <= v /\ v <= RangeLower(ks)'
        BY <3>1, <2>7, <1>1
      <3> QED
        BY <3>2, <2>3, <2>4
    <2>9. RangeUpper(ks)' = w
      <3>1. /\ RangeUpper(ks)' \in {NumSamplesWithin(k)' : k \in ks}
            /\ \A k \in ks : RangeUpper(ks)' >= NumSamplesWithin(k)'
        BY <2>7, <1>3 DEF RangeUpper
      <3>2. RangeUpper(ks)' \in Nat /\ RangeUpper(ks)' <= w /\ w <= RangeUpper(ks)'
        BY <3>1, <2>7, <1>1
      <3> QED
        BY <3>2, <2>3, <2>4
    <2> QED
      BY <2>5, <2>6, <2>8, <2>9
  <1> QED
    BY <1>2, <1>3

\* An entry of a later time is not found.
LEMMA EntriesLater ==
    ASSUME NEW R, NEW E \in Seq(R), NEW s \in Nat, NEW e, ~(e.time <= s)
    PROVE  LaterEntries(E, Append(E, e), s)
  <1> DEFINE Q == R \cup {e}
  <1>1. E \in Seq(Q) /\ e \in Q
    OBVIOUS
  <1> HIDE DEF Q
  <1>2. LastUpTo(Append(E, e), s) = LastUpTo(E, s)
    BY <1>1, LastUpToAppend
  <1>3. \A k \in 1..Len(E) : Append(E, e)[k] = E[k]
    BY <1>1
  <1> QED
    BY <1>2, <1>3 DEF LaterEntries

\* What is observed at s depends on nothing that is later.
LEMMA ObservedKept ==
    ASSUME HistorySeen, NEW s \in Past, s <= latestTime', LaterPresences(s),
           LaterEntries(traces, traces', s),
           \A m \in Modes : LaterEntries(states[m], states'[m], s)
    PROVE  ObservedAt(s)' = ObservedAt(s)
  <1>1. /\ HistoryTypeOK /\ s \in Nat /\ Len(traces) \in Nat /\ s <= latestTime
        /\ \A m \in Modes : Len(states[m]) \in Nat
    <2>1. HistoryTypeOK /\ s \in Nat /\ s <= latestTime
      BY PastSeen
    <2> QED
      BY <2>1, Times, TracesAre, StatesAre
  <1>2. /\ ModeAt(s)' = ModeAt(s) /\ SampleIndex(ModeAt(s), s)' = SampleIndex(ModeAt(s), s)
        /\ EntryTime(ModeAt(s), s)' = EntryTime(ModeAt(s), s)
        /\ HasEntry(ModeAt(s), s) /\ HasEntry(ModeAt(s), s)'
    BY ModeKept
  <1>3. TraceAt(s)' = TraceAt(s)
    <2>1. LastUpTo(traces, s) \in 1..Len(traces)
      <3>1. LastUpTo(traces, s) > 0
        BY TracesOfPast DEF HasTrace
      <3> QED
        BY <3>1, <1>1, LastUpToIs
    <2> QED
      BY <2>1 DEF TraceAt, LaterEntries
  <1>4. ASSUME NEW m \in Modes
        PROVE  /\ HasSamplesAt(m, s)' = HasSamplesAt(m, s)
               /\ HasSamplesAt(m, s) => Samples(m, s)' = Samples(m, s)
    <2>1. LaterEntries(states[m], states'[m], s)
      OBVIOUS
    <2>2. HasSamplesAt(m, s)' = HasSamplesAt(m, s)
      BY <2>1 DEF HasSamplesAt, LaterEntries
    <2>3. ASSUME HasSamplesAt(m, s)
          PROVE  Samples(m, s)' = Samples(m, s)
      <3>1. LastUpTo(states[m], s) \in 1..Len(states[m])
        <4>1. Len(states[m]) \in Nat /\ LastUpTo(states[m], s) > 0
          BY <2>3, <1>1 DEF HasSamplesAt
        <4>2. LastUpTo(states[m], s) \in 0..Len(states[m])
          BY <4>1, <1>1, LastUpToIs
        <4> QED
          BY <4>1, <4>2
      <3> QED
        BY <2>1, <3>1 DEF Samples, LaterEntries
    <2> QED
      BY <2>2, <2>3
  <1>5. ModesWithSamples(s)' = ModesWithSamples(s)
    BY <1>4 DEF ModesWithSamples
  <1>6. \A m \in ModesWithSamples(s) : Samples(m, s)' = Samples(m, s)
    BY <1>4 DEF ModesWithSamples
  <1>7. ASSUME NEW m
        PROVE  /\ RangeLower(PresencesIn(m, s))' = RangeLower(PresencesIn(m, s))
               /\ RangeUpper(PresencesIn(m, s))' = RangeUpper(PresencesIn(m, s))
               /\ PresencesInto(m, s)' = PresencesInto(m, s)
               /\ LeftBefore(m, s, s)' = LeftBefore(m, s, s)
    <2>1. PICK ks : ks = PresencesIn(m, s)
      OBVIOUS
    <2>2. PresencesIn(m, s)' = ks /\ ks \subseteq 1..Len(presences)
      BY <2>1, PresencesKept
    <2>3. RangeLower(ks)' = RangeLower(ks) /\ RangeUpper(ks)' = RangeUpper(ks)
      BY <2>2, RangesKept DEF LaterPresences, HistorySeen
    <2>4. /\ PresencesInto(m, s)' = PresencesInto(m, s)
          /\ LeftBefore(m, s, s)' = LeftBefore(m, s, s)
      BY PresencesKept
    <2> QED
      BY <2>1, <2>2, <2>3, <2>4
  <1>8. CanLookAhead(s, s)' = CanLookAhead(s, s)
    <2>1. PICK m : m = ModeAt(s)
      OBVIOUS
    <2>2. ModeAt(s)' = m /\ EntryTime(m, s)' = EntryTime(m, s) /\ HasEntry(m, s) /\ HasEntry(m, s)'
      BY <2>1, <1>2
    <2>3. m # NoMode => m \in Modes
      BY <2>1, ModeAtIs DEF HistorySeen
    <2>4. m # NoMode => HasSamplesAt(m, s)' = HasSamplesAt(m, s)
      BY <2>3, <1>4
    <2>5. /\ RangeUpper(PresencesIn(m, s))' = RangeUpper(PresencesIn(m, s))
          /\ LeftBefore(m, s, s)' = LeftBefore(m, s, s)
      BY <1>7
    <2>6. CanLookAhead(s, s) = /\ s <= latestTime
                               /\ m # NoMode /\ HasSamplesAt(m, s)
                               /\ HasEntry(m, s)
                               /\ s - EntryTime(m, s) < Step * RangeUpper(PresencesIn(m, s))
                               /\ LeftBefore(m, s, s)
      BY <2>1 DEF CanLookAhead
    <2>7. CanLookAhead(s, s)' = /\ s <= latestTime'
                                /\ m # NoMode /\ HasSamplesAt(m, s)'
                                /\ HasEntry(m, s)'
                                /\ s - EntryTime(m, s)' < Step * RangeUpper(PresencesIn(m, s))'
                                /\ LeftBefore(m, s, s)'
      BY <2>2 DEF CanLookAhead
    <2> QED
      BY <2>2, <2>4, <2>5, <2>6, <2>7, <1>1
  <1> QED
    BY <1>2, <1>3, <1>5, <1>6, <1>7, <1>8 DEF ObservedAt

\* Acquiring a state adds later entries at most, if it purges nothing.
LEMMA AcquireLater ==
    ASSUME HistoryInv, NEW m \in Modes, NEW p \in Points, NEW t \in 0..MaxTime,
           latestTime <= t, Acquire(m, p, t),
           NEW s \in Past, s < t, ~failure', Head(presences') = Head(presences)
    PROVE  /\ LaterPresences(s) /\ LaterEntries(traces, traces', s)
           /\ \A x \in Modes : LaterEntries(states[x], states'[x], s)
  <1> DEFINE e == Entered(m, t)
  <1>1. /\ HistoryTypeOK /\ Seen /\ s \in Nat /\ t \in Nat
        /\ presences \in Seq(Presence) /\ states \in [Modes -> Seq(SampleEntry)]
        /\ traces \in Seq(TraceEntry) /\ latestMode \in Modes /\ Len(presences) \in Nat
        /\ presences # <<>>
    <2>1. HistoryTypeOK /\ Seen /\ s \in Nat
      BY PastIsSeen DEF HistoryInv
    <2>2. t \in Nat /\ presences # <<>> /\ latestMode \in Modes
      BY <2>1, TimesAssumption DEF Seen, Linked
    <2> QED
      BY <2>1, <2>2, Times, PresencesAre
  <1>2. /\ e.presences \in Seq(Presence) /\ Linked(e.presences, m, t)
        /\ e.traces \in Seq(TraceEntry) /\ Follow(e.traces, e.presences)
    <2> HIDE DEF e
    <2> QED
      BY <1>1, EnteredPresences, EnteredTraces DEF e
  <1>3. states' = e.states /\ latestMode' = m /\ Purge(t, e.presences, e.traces)
    BY DEF Acquire
  <1>4. e.presences = IF m = latestMode THEN presences ELSE Append(presences, PresenceLeft(m, t))
    BY DEF Entered
  <1>5. e.traces = IF m = latestMode THEN traces ELSE TraceLeaving(m, t)
    BY DEF Entered
  <1>6. m = latestMode => e.states = states
    BY DEF Entered
  <1>7. m # latestMode => e.states = [states EXCEPT ![latestMode] = Append(states[latestMode],
                 [time |-> t, samples |-> Pad(buffer, t - EntryTime(latestMode, t))])]
    BY <1>1, ModesAssumption DEF Entered
  <1> HIDE DEF e
  <1>8. e.presences[1] = presences[1] /\ Len(e.presences) \in Nat
    <2>1. 1 \in 1..Len(presences)
      BY <1>1
    <2>2. Append(presences, PresenceLeft(m, t))[1] = presences[1]
      BY <2>1, <1>1
    <2> QED
      BY <2>2, <1>2, <1>4
  <1>9. presences' = e.presences /\ traces' = e.traces
    <2>1. PICK a \in 1..Len(e.presences) :
             /\ presences' = SubSeq(e.presences, a, Len(e.presences))
             /\ a = 1 => traces' = e.traces
             /\ a > 1 => e.presences[1].to < e.presences[a].to
      BY <1>2, <1>3, PurgeKeeps
    <2>2. Head(presences') = e.presences[a]
      <3>1. /\ Len(presences') = Len(e.presences) - a + 1
            /\ \A k \in 1..(Len(e.presences) - a + 1) : presences'[k] = e.presences[a - 1 + k]
        BY <2>1, <1>2, Suffix
      <3>2. 1 \in 1..(Len(e.presences) - a + 1) /\ a - 1 + 1 = a
        BY <1>8
      <3>3. presences'[1] = e.presences[a - 1 + 1]
        BY <3>1, <3>2
      <3> QED
        BY <3>2, <3>3
    <2>3. e.presences[a] = e.presences[1]
      BY <2>2, <1>1, <1>8
    <2>4. e.presences[a].to \in Nat
      BY <1>2, PresencesAre
    <2>5. a = 1
      BY <2>1, <2>3, <2>4, <1>8
    <2> QED
      BY <2>1, <2>5, <1>2, Suffix
  <1>10. CASE m = latestMode
    BY <1>3, <1>4, <1>5, <1>6, <1>9, <1>10 DEF LaterPresences, LaterEntries
  <1>11. CASE m # latestMode
    <2> DEFINE q == PresenceLeft(m, t)
               n == Len(presences)
    <2>1. q.mode = latestMode /\ q.from = Last(presences).to /\ q.to = t
      BY <1>1 DEF PresenceLeft
    <2>2. LaterPresences(s)
      <3> HIDE DEF q
      <3>1. presences' = Append(presences, q)
        BY <1>4, <1>9, <1>11 DEF q
      <3>2. Len(presences') = n + 1 /\ presences'[n + 1] = q /\ \A k \in 1..n : presences'[k] = presences[k]
        <4> DEFINE R == Presence \cup {q}
        <4>1. presences \in Seq(R) /\ q \in R
          BY <1>1
        <4> HIDE DEF R
        <4> QED
          BY <3>1, <4>1
      <3> QED
        BY <3>2, <2>1, <1>1 DEF LaterPresences
    <2>3. LaterEntries(traces, traces', s)
      <3> DEFINE x == [time |-> t, trace |-> Append(Last(traces).trace, latestMode)]
      <3>1. traces' = Append(traces, x)
        BY <1>1, <1>5, <1>9, <1>11, ModesAssumption DEF TraceLeaving
      <3>2. x.time = t
        OBVIOUS
      <3> HIDE DEF x
      <3>3. ~(x.time <= s)
        BY <3>2, <1>1
      <3> QED
        BY <3>1, <3>3, <1>1, EntriesLater
    <2>4. ASSUME NEW x \in Modes
          PROVE  LaterEntries(states[x], states'[x], s)
      <3> DEFINE y == [time |-> t, samples |-> Pad(buffer, t - EntryTime(latestMode, t))]
      <3>1. y.time = t
        OBVIOUS
      <3>2. states' = [states EXCEPT ![latestMode] = Append(states[latestMode], y)]
        BY <1>3, <1>7, <1>11
      <3> HIDE DEF y
      <3>3. ~(y.time <= s)
        BY <3>1, <1>1
      <3>4. CASE x = latestMode
        <4>1. states'[x] = Append(states[x], y)
          BY <3>2, <3>4, <1>1
        <4>2. states[x] \in Seq(SampleEntry)
          BY <1>1
        <4> QED
          BY <4>1, <4>2, <3>3, <1>1, EntriesLater
      <3>5. CASE x # latestMode
        BY <3>2, <3>5, <1>1 DEF LaterEntries
      <3> QED
        BY <3>4, <3>5
    <2> QED
      BY <2>2, <2>3, <2>4
  <1> QED
    BY <1>10, <1>11

-----------------------------------------------------------------------------
(* The steps of acquire.  Between them the history is of no state: what holds *)
(* of it then is said for the next step.                                    *)

\* The buffer is not shorter than the samples stored for a mode.
Reaching(m) == states[m] # <<>> => Len(Last(states[m]).samples) <= Len(buffer)

\* The mode has been entered, for what its presences, traces and samples tell.
Moved(m, t) ==
    /\ Linked(presences, m, t) /\ Follow(traces, presences)
    /\ Growing(states, t) /\ Covered(presences, states) /\ Reaching(m)

\* The presences have been purged and the traces have not.
HalfPurged(m, t) ==
    \E ps \in Seq(Presence) :
        /\ Linked(ps, m, t) /\ Follow(traces, ps) /\ Covered(ps, states)
        /\ PurgeDue(t, ps) /\ presences = KeptPresences(t, ps)
        /\ Growing(states, t) /\ Reaching(m) /\ buffer # <<>>
        /\ states[m] # <<>> => (t - Last(ps).to) \div Step < Len(buffer)

MessageOK ==
    /\ msg.mode \in Modes /\ msg.place \in Points /\ msg.time \in 0..MaxTime
    /\ prior.latestTime \in Nat /\ prior.latestTime <= msg.time
    /\ 0 \notin Gaps => prior.latestTime < msg.time
    /\ ~failure

\* What holds of the history before the step c of acquiring the state at t of mode m.
Stage(c, m, t) ==
    /\ c = "store" => HistoryInv /\ Seen /\ Stored /\ m # latestMode
    /\ c = "presence" =>
          /\ Fresh \/ Seen
          /\ m # latestMode
          /\ Growing(states, t) /\ Covered(Append(presences, PresenceLeft(m, t)), states)
          /\ Reaching(m)
    /\ c \in {"mode", "time", "sample"} => Moved(m, t)
    /\ c = "mode" => Last(presences).to = t
    /\ c \in {"time", "sample", "purge", "traces"} => latestMode = m
    /\ c = "purge" => HistoryInv /\ Seen /\ Stored
    /\ c = "traces" => HalfPurged(m, t)
    /\ latestTime = IF c \in {"sample", "purge", "traces"} THEN t ELSE prior.latestTime

Steps == {"store", "presence", "mode", "time", "sample", "purge", "traces"}

\* A reference that is held is to the entry that its snapshot finds.
Held ==
    \A w \in Readers : rpc[w] = "holding" =>
        /\ reading[w].mode \in Modes /\ reading[w].time \in Nat
        /\ reading[w].time <= Complete.latestTime
        /\ 0 \notin Gaps => LastUpTo(states[reading[w].mode], reading[w].time) = reading[w].entry

\* The inductive invariant.
ReadInv ==
    /\ HistoryTypeOK
    /\ apc \in Steps \cup {"idle"}
    /\ rpc \in [Readers -> {"idle", "holding", "dangling", "freed"}]
    /\ DOMAIN reading = Readers
    /\ IF apc = "idle" THEN HistoryInv ELSE MessageOK /\ Stage(apc, msg.mode, msg.time)
    /\ Held

\* The state goes on being acquired, at the step c.
Onward(c) ==
    /\ apc' = c /\ c \in Steps /\ UNCHANGED <<msg, prior>>
    /\ HistoryTypeOK' /\ ~failure' /\ Stage(c, msg.mode, msg.time)'

\* The references are of the same times, and of the same entries.
HeldOn ==
    /\ UNCHANGED <<rpc, reading>> /\ UNCHANGED states

LEMMA HeldKept ==
    ASSUME Held, HeldOn, Complete.latestTime \in Nat, Complete.latestTime' \in Nat,
           Complete.latestTime <= Complete.latestTime'
    PROVE  Held'
  <1>1. SUFFICES ASSUME NEW w \in Readers, rpc'[w] = "holding"
                 PROVE  /\ reading'[w].mode \in Modes /\ reading'[w].time \in Nat
                        /\ reading'[w].time <= Complete.latestTime'
                        /\ 0 \notin Gaps => LastUpTo(states'[reading'[w].mode], reading'[w].time) = reading'[w].entry
    BY DEF Held
  <1>2. rpc' = rpc /\ reading' = reading /\ states' = states
    BY DEF HeldOn
  <1>3. /\ reading[w].mode \in Modes /\ reading[w].time \in Nat
        /\ reading[w].time <= Complete.latestTime
        /\ 0 \notin Gaps => LastUpTo(states[reading[w].mode], reading[w].time) = reading[w].entry
    BY <1>1, <1>2 DEF Held
  <1>4. reading[w].time <= Complete.latestTime'
    BY <1>3
  <1> QED
    BY <1>2, <1>3, <1>4

LEMMA AcquireGoesOn ==
    ASSUME ReadInv, apc # "idle", NEW c, Onward(c), HeldOn
    PROVE  ReadInv'
  <1>1. Complete.latestTime = prior.latestTime /\ Complete.latestTime' = prior.latestTime
    BY DEF Complete, Onward, Steps
  <1>2. MessageOK /\ prior.latestTime \in Nat
    BY DEF ReadInv, MessageOK
  <1>3. Held'
    BY <1>1, <1>2, HeldKept DEF ReadInv
  <1>4. MessageOK'
    BY <1>2 DEF MessageOK, Onward
  <1>5. apc' # "idle" /\ apc' \in Steps
    BY DEF Onward, Steps
  <1>6. Stage(apc, msg.mode, msg.time)'
    BY DEF Onward
  <1> QED
    BY <1>3, <1>4, <1>5, <1>6 DEF ReadInv, Onward, HeldOn

\* The samples of the mode that is left are stored.
LEMMA StoreKeeps == ASSUME ReadInv, Store PROVE ReadInv'
  <1> DEFINE entry == SamplesLeft
  <1>1. PICK m, t : m = msg.mode /\ t = msg.time
    OBVIOUS
  <1>2. apc = "store" /\ apc' = "presence"
        /\ UNCHANGED <<presences, latestMode, latestTime, traces, failure, msg, prior, reading>>
        /\ buffer' = IF states'[m] = <<>> THEN <<>> ELSE Last(states'[m]).samples
    BY <1>1 DEF Store, StoreIn
  <1>3. /\ HistoryTypeOK /\ HistoryInv /\ Seen /\ Stored /\ m # latestMode /\ MessageOK /\ Held
        /\ latestTime = prior.latestTime
    BY <1>1, <1>2 DEF ReadInv, Stage
  <1>4. /\ m \in Modes /\ t \in 0..MaxTime /\ t \in Nat /\ latestTime \in Nat /\ latestTime <= t
        /\ latestMode \in Modes /\ latestMode # NoMode /\ states \in [Modes -> Seq(SampleEntry)]
        /\ 0 \notin Gaps => latestTime < t
    <2>1. m \in Modes /\ t \in 0..MaxTime /\ latestMode \in Modes
      BY <1>1, <1>3 DEF MessageOK, Seen
    <2> QED
      BY <2>1, <1>1, <1>3, Times, ModesAssumption DEF MessageOK
  <1>5. entry = [time |-> t, samples |-> Pad(buffer, t - EntryTime(latestMode, t))]
    BY <1>1 DEF SamplesLeft
  <1>6. states' = [states EXCEPT ![latestMode] = Append(states[latestMode], entry)]
    BY DEF Store, StoreIn
  <1>7. /\ Entered(m, t).states = states' /\ Entered(m, t).buffer = buffer'
        /\ Entered(m, t).presences = Append(presences, PresenceLeft(m, t))
    <2> DEFINE left == [states EXCEPT ![latestMode] = Append(@, [time |-> t,
                           samples |-> Pad(buffer, t - EntryTime(latestMode, t))])]
    <2>1. left = states'
      BY <1>5, <1>6, <1>4
    <2>2. Entered(m, t) = [presences |-> Append(presences, PresenceLeft(m, t)), states |-> left,
                           buffer |-> IF left[m] = <<>> THEN <<>> ELSE Last(left[m]).samples,
                           traces |-> TraceLeaving(m, t)]
      BY <1>3, <1>4 DEF Entered
    <2> HIDE DEF left
    <2> QED
      BY <2>1, <2>2, <1>2
  <1>8. /\ states' \in [Modes -> Seq(SampleEntry)] /\ buffer' \in Seq(SUBSET Points)
        /\ Growing(states', t) /\ Covered(Append(presences, PresenceLeft(m, t)), states')
        /\ states'[m] # <<>> => Len(Last(states'[m]).samples) <= Len(buffer')
    <2> DEFINE e == Entered(m, t)
    <2>1. /\ e.states \in [Modes -> Seq(SampleEntry)] /\ e.buffer \in Seq(SUBSET Points)
          /\ Growing(e.states, t) /\ Covered(e.presences, e.states)
          /\ e.states[m] # <<>> => Len(Last(e.states[m]).samples) <= Len(e.buffer)
      BY <1>3, <1>4, EnteredStates
    <2> HIDE DEF e
    <2> QED
      BY <2>1, <1>7 DEF e
  <1> HIDE DEF entry
  <1>9. HistoryTypeOK'
    BY <1>2, <1>3, <1>8 DEF HistoryTypeOK, SampleEntry
  <1>10. Stage("presence", m, t)'
    <2>1. Seen' /\ (m # latestMode)' /\ (latestTime = prior.latestTime)'
      BY <1>2, <1>3 DEF Seen
    <2>2. PresenceLeft(m, t)' = PresenceLeft(m, t)
      BY <1>2 DEF PresenceLeft
    <2>3. Growing(states, t)' /\ Covered(Append(presences, PresenceLeft(m, t)), states)' /\ Reaching(m)'
      BY <2>2, <1>2, <1>8 DEF Reaching
    <2> QED
      BY <2>1, <2>3 DEF Stage
  <1>11. Held'
    <2>1. Complete.latestTime = latestTime /\ Complete.latestTime' = latestTime
      BY <1>2, <1>3 DEF Complete
    <2>2. \A w \in Readers : rpc'[w] = "holding" => rpc[w] = "holding"
      BY DEF Store, StoreIn
    <2>3. ASSUME NEW x \in Modes, NEW s \in Nat, s <= latestTime, 0 \notin Gaps
          PROVE  LastUpTo(states'[x], s) = LastUpTo(states[x], s)
      <3>1. entry.time = t
        BY <1>5
      <3>2. ~(entry.time <= s)
        BY <3>1, <2>3, <1>4
      <3>3. CASE x = latestMode
        <4>1. states'[x] = Append(states[x], entry) /\ states[x] \in Seq(SampleEntry)
          BY <1>4, <1>6, <3>3
        <4> QED
          BY <4>1, <3>2, EntriesLater DEF LaterEntries
      <3>4. CASE x # latestMode
        BY <1>6, <3>4, <1>4
      <3> QED
        BY <3>3, <3>4
    <2> QED
      BY <2>1, <2>2, <2>3, <1>2, <1>3 DEF Held
  <1>12. rpc' \in [Readers -> {"idle", "holding", "dangling", "freed"}]
    BY DEF Store, StoreIn, ReadInv
  <1>13. MessageOK' /\ DOMAIN reading' = Readers
    BY <1>2, <1>3 DEF MessageOK, ReadInv
  <1>14. Stage(apc, msg.mode, msg.time)' /\ apc' # "idle" /\ apc' \in Steps
    BY <1>1, <1>2, <1>10 DEF Steps
  <1> QED
    BY <1>9, <1>11, <1>12, <1>13, <1>14 DEF ReadInv

\* The presence that has ended is added, with its trace.
LEMMA AddPresenceKeeps == ASSUME ReadInv, AddPresence PROVE ReadInv'
  <1>1. PICK m, t : m = msg.mode /\ t = msg.time
    OBVIOUS
  <1>2. /\ apc = "presence" /\ apc' = "mode"
        /\ UNCHANGED <<states, latestMode, latestTime, buffer, failure, msg, prior, rpc, reading>>
        /\ presences' = Append(presences, PresenceLeft(m, t)) /\ traces' = TraceLeaving(m, t)
    BY <1>1 DEF AddPresence, readers
  <1>3. /\ HistoryTypeOK /\ (Fresh \/ Seen) /\ m # latestMode /\ MessageOK
        /\ Growing(states, t) /\ Covered(presences', states) /\ Reaching(m)
        /\ latestTime = prior.latestTime
    BY <1>1, <1>2 DEF ReadInv, Stage
  <1>4. m \in Modes /\ t \in 0..MaxTime /\ latestTime <= t
    BY <1>1, <1>3 DEF MessageOK
  <1>5. Entered(m, t).presences = presences' /\ Entered(m, t).traces = traces'
    BY <1>2, <1>3 DEF Entered
  <1>6. /\ presences' \in Seq(Presence) /\ Linked(presences', m, t)
        /\ traces' \in Seq(TraceEntry) /\ Follow(traces', presences')
    BY <1>3, <1>4, <1>5, EnteredPresences, EnteredTraces
  <1>7. HistoryTypeOK'
    <2>1. \A k \in 1..Len(presences') : presences'[k].from <= presences'[k].to
      BY <1>6 DEF Linked
    <2> QED
      BY <2>1, <1>2, <1>3, <1>6 DEF HistoryTypeOK, TraceEntry
  <1>8. Last(presences').to = t
    <2> DEFINE q == PresenceLeft(m, t)
    <2>1. q.to = t
      BY DEF PresenceLeft
    <2> HIDE DEF q
    <2>2. presences \in Seq(Presence)
      BY <1>3, Times
    <2>3. Last(Append(presences, q)) = q
      <3>1. presences \in Seq(Presence \cup {q}) /\ q \in Presence \cup {q}
        BY <2>2
      <3>2. PICK S : S = Presence \cup {q}
        OBVIOUS
      <3> QED
        BY <3>1, <3>2 DEF Last
    <2> QED
      BY <2>1, <2>3, <1>2 DEF q
  <1>9. Stage("mode", m, t)'
    <2>1. Moved(m, t)'
      BY <1>2, <1>3, <1>6 DEF Moved, Reaching
    <2> QED
      BY <2>1, <1>2, <1>3, <1>8 DEF Stage
  <1>10. Onward("mode") /\ HeldOn /\ apc # "idle"
    BY <1>1, <1>2, <1>3, <1>7, <1>9 DEF Onward, HeldOn, Steps, MessageOK
  <1> QED
    BY <1>10, AcquireGoesOn

LEMMA EnterModeKeeps == ASSUME ReadInv, EnterMode PROVE ReadInv'
  <1>1. PICK m, t : m = msg.mode /\ t = msg.time
    OBVIOUS
  <1>2. /\ apc = "mode" /\ apc' = "time" /\ latestMode' = m
        /\ UNCHANGED <<presences, states, latestTime, buffer, traces, failure, msg, prior, rpc, reading>>
    BY <1>1 DEF EnterMode, readers
  <1>3. HistoryTypeOK /\ MessageOK /\ Moved(m, t) /\ latestTime = prior.latestTime /\ m \in Modes
    BY <1>1, <1>2 DEF ReadInv, Stage, MessageOK
  <1>4. HistoryTypeOK'
    BY <1>2, <1>3 DEF HistoryTypeOK
  <1>5. Moved(m, t)'
    BY <1>2, <1>3 DEF Moved, Reaching
  <1>6. Stage("time", m, t)'
    BY <1>2, <1>3, <1>5 DEF Stage
  <1>7. Onward("time") /\ HeldOn /\ apc # "idle"
    BY <1>1, <1>2, <1>3, <1>4, <1>6 DEF Onward, HeldOn, Steps, MessageOK
  <1> QED
    BY <1>7, AcquireGoesOn

LEMMA SetTimeKeeps == ASSUME ReadInv, SetTime PROVE ReadInv'
  <1>1. PICK m, t : m = msg.mode /\ t = msg.time
    OBVIOUS
  <1>2. /\ apc = "time" /\ apc' = "sample" /\ latestTime' = t
        /\ UNCHANGED <<presences, states, latestMode, buffer, traces, failure, msg, prior, rpc, reading>>
    BY <1>1 DEF SetTime, readers
  <1>3. HistoryTypeOK /\ MessageOK /\ Moved(m, t) /\ latestMode = m /\ t \in 0..MaxTime
    BY <1>1, <1>2 DEF ReadInv, Stage, MessageOK
  <1>4. HistoryTypeOK'
    BY <1>2, <1>3 DEF HistoryTypeOK
  <1>5. Moved(m, t)'
    BY <1>2, <1>3 DEF Moved, Reaching
  <1>6. Stage("sample", m, t)'
    BY <1>2, <1>3, <1>5 DEF Stage
  <1>7. Onward("sample") /\ HeldOn /\ apc # "idle"
    BY <1>1, <1>2, <1>3, <1>4, <1>6 DEF Onward, HeldOn, Steps, MessageOK
  <1> QED
    BY <1>7, AcquireGoesOn

\* The state is in the buffer: the history is complete, up to the purge.
LEMMA UpdateSampleKeeps == ASSUME ReadInv, UpdateSample PROVE ReadInv'
  <1>1. PICK m, t, p : m = msg.mode /\ t = msg.time /\ p = msg.place
    OBVIOUS
  <1>2. /\ apc = "sample" /\ apc' = "purge"
        /\ buffer' = Sampled(presences, states, buffer, m, p, t)
        /\ UNCHANGED <<presences, states, latestMode, latestTime, traces, failure, msg, prior, rpc, reading>>
    BY <1>1 DEF UpdateSample, readers
  <1>3. /\ HistoryTypeOK /\ MessageOK /\ Moved(m, t) /\ latestMode = m /\ latestTime = t
        /\ m \in Modes /\ p \in Points /\ t \in Nat
    BY <1>1, <1>2, Times DEF ReadInv, Stage, MessageOK
  <1>4. /\ presences \in Seq(Presence) /\ states \in [Modes -> Seq(SampleEntry)]
        /\ buffer \in Seq(SUBSET Points)
    BY <1>3, Times
  <1>5. /\ buffer' \in Seq(SUBSET Points) /\ buffer' # <<>>
        /\ Len(buffer') \in Nat /\ Len(buffer') >= Len(buffer)
        /\ states[m] # <<>> => (t - Last(presences).to) \div Step < Len(buffer')
    BY <1>2, <1>3, <1>4, SampledReaches DEF Moved, Reaching
  <1>6. states[m] # <<>> => Len(Last(states[m]).samples) <= Len(buffer')
    <2>1. ASSUME states[m] # <<>> PROVE Len(Last(states[m]).samples) \in Nat /\ Len(buffer) \in Nat
      <3>1. Last(states[m]) \in SampleEntry
        BY <2>1, <1>3, <1>4, StatesAre
      <3> QED
        BY <3>1, <1>4 DEF SampleEntry
    <2> QED
      BY <2>1, <1>3, <1>5 DEF Moved, Reaching
  <1>7. HistoryTypeOK'
    BY <1>2, <1>3, <1>5 DEF HistoryTypeOK
  <1>8. Seen' /\ Stored'
    BY <1>2, <1>3, <1>5, <1>6 DEF Moved, Seen, Stored, Buffered
  <1>9. Stage("purge", m, t)'
    BY <1>2, <1>3, <1>7, <1>8 DEF Stage, HistoryInv
  <1>10. Onward("purge") /\ HeldOn /\ apc # "idle"
    BY <1>1, <1>2, <1>3, <1>7, <1>9 DEF Onward, HeldOn, Steps, MessageOK
  <1> QED
    BY <1>10, AcquireGoesOn

\* What has been acquired is the history again.
LEMMA AcquiredKeeps ==
    ASSUME ReadInv, apc \in {"purge", "traces"}, apc' = "idle", HistoryInv', HeldOn,
           latestTime' = latestTime, prior' = prior
    PROVE  ReadInv'
  <1>1. MessageOK /\ latestTime = msg.time /\ HistoryTypeOK
    BY DEF ReadInv, Stage
  <1>2. Complete.latestTime = prior.latestTime /\ Complete.latestTime' = latestTime
    BY DEF Complete, Now
  <1>3. Held'
    BY <1>1, <1>2, Times, HeldKept DEF ReadInv, MessageOK
  <1> QED
    BY <1>3 DEF ReadInv, HeldOn, HistoryInv

LEMMA PurgePresencesKeeps == ASSUME ReadInv, PurgePresences PROVE ReadInv'
  <1>1. PICK m, t : m = msg.mode /\ t = msg.time
    OBVIOUS
  <1>2. /\ apc = "purge"
        /\ UNCHANGED <<states, latestMode, latestTime, buffer, traces, failure, prior, rpc, reading>>
    BY DEF PurgePresences, readers
  <1>3. /\ HistoryTypeOK /\ HistoryInv /\ Seen /\ Stored /\ latestMode = m /\ latestTime = t
        /\ MessageOK /\ presences \in Seq(Presence)
    BY <1>1, <1>2, Times DEF ReadInv, Stage
  <1>4. CASE ~PurgeDue(t, presences)
    <2>1. presences' = presences /\ apc' = "idle"
      BY <1>1, <1>4 DEF PurgePresences, Acquired
    <2>2. HistoryInv'
      BY <2>1, <1>2, <1>3, HistoryStutter DEF history
    <2> QED
      BY <2>1, <2>2, <1>2, AcquiredKeeps DEF HeldOn
  <1>5. CASE PurgeDue(t, presences)
    <2>1. presences' = KeptPresences(t, presences) /\ apc' = "traces" /\ msg' = msg
      BY <1>1, <1>5 DEF PurgePresences
    <2>2. HalfPurged(m, t)'
      <3>1. /\ Linked(presences, m, t) /\ Follow(traces, presences) /\ Covered(presences, states)
            /\ Growing(states, t) /\ Reaching(m) /\ buffer # <<>>
            /\ states[m] # <<>> => (t - Last(presences).to) \div Step < Len(buffer)
        BY <1>3 DEF Seen, Stored, Buffered, Reaching
      <3>2. PICK ps \in Seq(Presence) : ps = presences
        BY <1>3
      <3>3. /\ Linked(ps, m, t) /\ Follow(traces', ps) /\ Covered(ps, states')
            /\ PurgeDue(t, ps) /\ presences' = KeptPresences(t, ps)
            /\ Growing(states', t) /\ Reaching(m)' /\ buffer' # <<>>
            /\ states'[m] # <<>> => (t - Last(ps).to) \div Step < Len(buffer')
        BY <3>1, <3>2, <2>1, <1>2, <1>5 DEF Reaching
      <3> QED
        BY <3>3 DEF HalfPurged
    <2>3. presences' \in Seq(Presence) /\ \A k \in 1..Len(presences') : presences'[k].from <= presences'[k].to
      <3> DEFINE I == {k \in 1..Len(presences) : presences[k].to >= t - Retention}
      <3>1. presences' = IF SelectInSeq(presences, LAMBDA p : p.to >= t - Retention) = 0 THEN <<>>
                         ELSE SubSeq(presences, SelectInSeq(presences, LAMBDA p : p.to >= t - Retention), Len(presences))
        BY <2>1 DEF KeptPresences, KeepFrom
      <3>2. SelectInSeq(presences, LAMBDA p : p.to >= t - Retention) = IF I # {} THEN Min(I) ELSE 0
        BY DEF SelectInSeq
      <3>3. I # {} => Min(I) \in I
        <4>1. I \subseteq Nat
          BY <1>3
        <4> HIDE DEF I
        <4> QED
          BY <4>1, MinIs
      <3>4. PICK a : a = SelectInSeq(presences, LAMBDA p : p.to >= t - Retention)
        OBVIOUS
      <3>5. a = 0 \/ a \in 1..Len(presences)
        BY <3>2, <3>3, <3>4
      <3>6. presences' = IF a = 0 THEN <<>> ELSE SubSeq(presences, a, Len(presences))
        BY <3>1, <3>4
      <3> HIDE DEF I
      <3>7. CASE a = 0
        <4>1. presences' = <<>>
          BY <3>6, <3>7
        <4>2. <<>> \in Seq(Presence) /\ 1..Len(<<>>) = {}
          OBVIOUS
        <4> QED
          BY <4>1, <4>2
      <3>8. CASE a \in 1..Len(presences)
        <4>1. presences' = SubSeq(presences, a, Len(presences))
          BY <3>6, <3>8
        <4>2. Linked(presences', m, t)
          <5>1. Linked(presences, m, t) /\ t \in 0..MaxTime
            BY <1>1, <1>3 DEF MessageOK, Seen
          <5> QED
            BY <4>1, <5>1, <3>8, <1>3, SuffixLinked
        <4>3. presences' \in Seq(Presence)
          BY <4>1, <3>8, <1>3, Suffix
        <4> QED
          BY <4>2, <4>3 DEF Linked
      <3> QED
        BY <3>5, <3>7, <3>8
    <2>4. HistoryTypeOK'
      BY <2>3, <1>2, <1>3 DEF HistoryTypeOK
    <2>5. Stage("traces", m, t)'
      BY <2>2, <1>2, <1>3 DEF Stage
    <2>6. Onward("traces") /\ HeldOn /\ apc # "idle"
      BY <2>1, <2>4, <2>5, <1>1, <1>2, <1>3 DEF Onward, HeldOn, Steps, MessageOK
    <2> QED
      BY <2>6, AcquireGoesOn
  <1> QED
    BY <1>4, <1>5

LEMMA PurgeTracesKeeps == ASSUME ReadInv, PurgeTraces PROVE ReadInv'
  <1>1. PICK m, t : m = msg.mode /\ t = msg.time
    OBVIOUS
  <1>2. /\ apc = "traces" /\ apc' = "idle"
        /\ traces' = ReduceTraces(KeptTraces(t, traces))
        /\ failure' = (presences = <<>> \/ KeptTraces(t, traces) = <<>>)
        /\ UNCHANGED <<presences, states, latestMode, latestTime, buffer, prior, rpc, reading>>
    BY <1>1 DEF PurgeTraces, Acquired, readers
  <1>3. /\ HistoryTypeOK /\ HalfPurged(m, t) /\ latestMode = m /\ latestTime = t
        /\ m \in Modes /\ t \in 0..MaxTime
    BY <1>1, <1>2 DEF ReadInv, Stage, MessageOK
  <1>4. PICK ps \in Seq(Presence) :
            /\ Linked(ps, m, t) /\ Follow(traces, ps) /\ Covered(ps, states)
            /\ PurgeDue(t, ps) /\ presences = KeptPresences(t, ps)
            /\ Growing(states, t) /\ Reaching(m) /\ buffer # <<>>
            /\ states[m] # <<>> => (t - Last(ps).to) \div Step < Len(buffer)
    BY <1>3 DEF HalfPurged
  <1>5. Purge(t, ps, traces)
    BY <1>2, <1>4 DEF Purge
  <1>6. /\ states \in [Modes -> Seq(SampleEntry)] /\ buffer \in Seq(SUBSET Points)
        /\ traces \in Seq(TraceEntry)
    BY <1>3, Times
  <1>7. HistoryInv'
    BY <1>2, <1>3, <1>4, <1>5, <1>6, PurgedKeeps DEF Reaching
  <1> QED
    BY <1>7, <1>2, AcquiredKeeps DEF HeldOn

\* A state is received: all that is acquired of it is to come.
LEMMA ReceiveKeeps ==
    ASSUME ReadInv, NEW m \in Modes, NEW p \in Points, NEW t \in 0..MaxTime,
           latestTime <= t, 0 \notin Gaps => latestTime < t, Receive(m, p, t)
    PROVE  ReadInv'
  <1>9. PICK c : c = CASE m = latestMode -> "time"
                       [] latestMode = NoMode -> "presence"
                       [] OTHER -> "store"
    OBVIOUS
  <1>1. /\ apc = "idle" /\ ~failure /\ prior' = Now /\ apc' = c
        /\ msg' = [mode |-> m, place |-> p, time |-> t]
        /\ UNCHANGED <<presences, states, latestMode, latestTime, buffer, traces, failure, rpc, reading>>
    BY <1>9 DEF Receive, history, readers
  <1>2. HistoryTypeOK /\ HistoryInv /\ (Fresh \/ (Seen /\ Stored)) /\ latestTime \in Nat
    <2>1. HistoryTypeOK /\ HistoryInv
      BY <1>1 DEF ReadInv
    <2> QED
      BY <2>1, <1>1, Times DEF HistoryInv
  <1>3. prior'.latestTime = latestTime /\ msg'.mode = m /\ msg'.time = t /\ msg'.place = p
    BY <1>1 DEF Now
  <1>4. c \in Steps /\ c # "idle" /\ c \in {"time", "presence", "store"}
    BY <1>9 DEF Steps
  <1>8. ASSUME Stage(c, m, t)'
        PROVE  ReadInv'
    <2>1. MessageOK' /\ HistoryTypeOK'
      BY <1>1, <1>2, <1>3 DEF MessageOK, HistoryTypeOK, Points
    <2>2. Held'
      <3>1. Complete.latestTime = latestTime /\ Complete.latestTime' = latestTime
        BY <1>1, <1>3, <1>4 DEF Complete, Now
      <3> QED
        BY <3>1, <1>1, <1>2, HeldKept DEF ReadInv, HeldOn
    <2>3. (apc \in Steps)' /\ (apc # "idle")' /\ Stage(apc, msg.mode, msg.time)'
      BY <1>1, <1>3, <1>4, <1>8
    <2> QED
      BY <2>1, <2>2, <2>3, <1>1 DEF ReadInv
  <1>5. CASE m = latestMode
    <2>1. c = "time" /\ Seen /\ Stored
      BY <1>2, <1>9, <1>5, ModesAssumption DEF Fresh
    <2>2. /\ Entered(m, t).states = states /\ Entered(m, t).presences = presences
          /\ Entered(m, t).buffer = buffer /\ Entered(m, t).traces = traces
      BY <1>5 DEF Entered
    <2>3. Growing(states, t) /\ Covered(presences, states) /\ Reaching(m)
      BY <2>2, <1>2, EnteredStates DEF Reaching
    <2>4. Linked(presences, m, t) /\ Follow(traces, presences)
      BY <2>2, <1>2, EnteredPresences, EnteredTraces
    <2>5. Moved(m, t)'
      BY <2>3, <2>4, <1>1 DEF Moved, Reaching
    <2>6. Stage("time", m, t)'
      BY <2>5, <1>1, <1>3, <1>5 DEF Stage
    <2> QED
      BY <2>1, <2>6, <1>8
  <1>6. CASE m # latestMode /\ latestMode = NoMode
    <2>1. c = "presence" /\ Fresh
      BY <1>2, <1>9, <1>6, ModesAssumption DEF Seen
    <2>2. /\ Entered(m, t).states = states
          /\ Entered(m, t).presences = Append(presences, PresenceLeft(m, t))
      BY <1>6 DEF Entered
    <2>3. Growing(states, t) /\ Covered(Append(presences, PresenceLeft(m, t)), states)
      BY <2>1, <2>2, <1>2, EnteredStates
    <2>4. Reaching(m)'
      BY <2>1, <1>1 DEF Fresh, Reaching
    <2>5. Fresh' /\ PresenceLeft(m, t)' = PresenceLeft(m, t)
      BY <2>1, <1>1 DEF Fresh, PresenceLeft
    <2>6. Stage("presence", m, t)'
      BY <2>1, <2>3, <2>4, <2>5, <1>1, <1>3, <1>6 DEF Stage
    <2> QED
      BY <2>1, <2>6, <1>8
  <1>7. CASE m # latestMode /\ latestMode # NoMode
    <2>1. c = "store" /\ Seen /\ Stored
      BY <1>2, <1>9, <1>7 DEF Fresh
    <2>2. HistoryInv' /\ Seen' /\ Stored'
      <3>1. UNCHANGED history
        BY <1>1 DEF history
      <3> QED
        BY <3>1, <2>1, <1>2, HistoryStutter DEF history, Seen, Stored
    <2>3. Stage("store", m, t)'
      BY <2>2, <1>1, <1>3, <1>7 DEF Stage
    <2> QED
      BY <2>1, <2>3, <1>8
  <1> QED
    BY <1>5, <1>6, <1>7

\* A worker obtains a reference, or follows it.
LEMMA ReaderKeeps ==
    ASSUME ReadInv, NEW w \in Readers,
           \/ \E m \in Modes, s \in 0..MaxTime : LookUp(w, m, s)
           \/ Copy(w)
    PROVE  ReadInv'
  <1>1. UNCHANGED history /\ UNCHANGED acquiring
    BY DEF LookUp, Copy
  <1>2. /\ HistoryTypeOK' /\ apc' = apc /\ msg' = msg /\ prior' = prior
        /\ apc # "idle" => (MessageOK /\ Stage(apc, msg.mode, msg.time))'
        /\ apc = "idle" => HistoryInv'
    <2>1. apc = "idle" => HistoryInv'
      BY <1>1, HistoryStutter DEF ReadInv
    <2>2. HistoryTypeOK'
      BY <1>1 DEF ReadInv, HistoryTypeOK, history
    <2>3. ASSUME apc # "idle" PROVE (MessageOK /\ Stage(apc, msg.mode, msg.time))'
      <3>1. MessageOK /\ Stage(apc, msg.mode, msg.time)
        BY <2>3 DEF ReadInv
      <3>2. HistoryInv => HistoryInv'
        BY <1>1, HistoryStutter
      <3>3. (Fresh => Fresh') /\ (Seen => Seen') /\ (Stored => Stored')
        BY <1>1 DEF history, Fresh, Seen, Stored
      <3>4. PICK c, m, t : c = apc /\ m = msg.mode /\ t = msg.time
        OBVIOUS
      <3>5. /\ Moved(m, t) => Moved(m, t)'
            /\ HalfPurged(m, t) => HalfPurged(m, t)'
            /\ PresenceLeft(m, t)' = PresenceLeft(m, t) /\ Reaching(m)' = Reaching(m)
        BY <1>1 DEF history, Moved, HalfPurged, PresenceLeft, Reaching
      <3>6. Stage(c, m, t) => Stage(c, m, t)'
        BY <1>1, <3>2, <3>3, <3>5 DEF Stage, history, acquiring
      <3> QED
        BY <1>1, <3>1, <3>4, <3>6 DEF MessageOK, history, acquiring
    <2> QED
      BY <1>1, <2>1, <2>2, <2>3 DEF acquiring
  <1>3. Complete' = Complete /\ states' = states
    BY <1>1 DEF Complete, Now, history, acquiring
  <1>4. CASE Copy(w)
    <2>1. /\ rpc' \in [Readers -> {"idle", "holding", "dangling", "freed"}]
          /\ DOMAIN reading' = Readers
          /\ \A x \in Readers : rpc'[x] = "holding" => rpc[x] = "holding" /\ reading'[x] = reading[x]
      BY <1>4 DEF Copy, ReadInv
    <2>2. Held'
      <3>1. SUFFICES ASSUME NEW x \in Readers, rpc'[x] = "holding"
                     PROVE  /\ reading'[x].mode \in Modes /\ reading'[x].time \in Nat
                            /\ reading'[x].time <= Complete'.latestTime
                            /\ 0 \notin Gaps => LastUpTo(states'[reading'[x].mode], reading'[x].time) = reading'[x].entry
        BY DEF Held
      <3>2. /\ reading[x].mode \in Modes /\ reading[x].time \in Nat
            /\ reading[x].time <= Complete.latestTime
            /\ 0 \notin Gaps => LastUpTo(states[reading[x].mode], reading[x].time) = reading[x].entry
        BY <2>1, <3>1 DEF Held, ReadInv
      <3> QED
        BY <2>1, <3>1, <3>2, <1>3
    <2> QED
      BY <2>1, <2>2, <1>2 DEF ReadInv
  <1>5. ASSUME NEW m \in Modes, NEW s \in 0..MaxTime, LookUp(w, m, s)
        PROVE  ReadInv'
    <2>1. /\ rpc' = [rpc EXCEPT ![w] = "holding"] /\ s <= Complete.latestTime /\ s \in Nat
          /\ reading' = [reading EXCEPT ![w] = [mode |-> m, time |-> s, entry |-> LastUpTo(states[m], s)]]
      BY <1>5 DEF LookUp
    <2>2. /\ rpc' \in [Readers -> {"idle", "holding", "dangling", "freed"}]
          /\ DOMAIN reading' = Readers
      BY <2>1 DEF ReadInv
    <2>3. ASSUME NEW x \in Readers, rpc'[x] = "holding"
          PROVE  /\ reading'[x].mode \in Modes /\ reading'[x].time \in Nat
                 /\ reading'[x].time <= Complete'.latestTime
                 /\ 0 \notin Gaps => LastUpTo(states'[reading'[x].mode], reading'[x].time) = reading'[x].entry
      <3>1. CASE x = w
        BY <3>1, <2>1, <1>3 DEF ReadInv
      <3>2. CASE x # w
        <4>1. rpc[x] = "holding" /\ reading'[x] = reading[x]
          BY <3>2, <2>1, <2>3 DEF ReadInv
        <4>2. /\ reading[x].mode \in Modes /\ reading[x].time \in Nat
              /\ reading[x].time <= Complete.latestTime
              /\ 0 \notin Gaps => LastUpTo(states[reading[x].mode], reading[x].time) = reading[x].entry
          BY <4>1 DEF Held, ReadInv
        <4> QED
          BY <4>1, <4>2, <1>3
      <3> QED
        BY <3>1, <3>2
    <2>4. Held'
      BY <2>3 DEF Held
    <2> QED
      BY <2>2, <2>4, <1>2 DEF ReadInv
  <1> QED
    BY <1>4, <1>5

LEMMA ReadStep == ReadInv /\ [ReadNext]_readVars => ReadInv'
  <1> SUFFICES ASSUME ReadInv, [ReadNext]_readVars PROVE ReadInv'
    OBVIOUS
  <1>1. CASE ReceiveNext
    <2>1. PICK m \in Modes : \E p \in Places[m], gap \in Gaps :
              latestTime + gap <= MaxTime /\ Receive(m, p, latestTime + gap)
      BY <1>1 DEF ReceiveNext
    <2>2. PICK p \in Places[m], gap \in Gaps :
              latestTime + gap <= MaxTime /\ Receive(m, p, latestTime + gap)
      BY <2>1
    <2>3. latestTime \in Nat /\ MaxTime \in Nat /\ gap \in Nat
      BY Times, TimesAssumption DEF ReadInv
    <2>4. PICK t : t = latestTime + gap
      OBVIOUS
    <2>5. t \in 0..MaxTime /\ latestTime <= t /\ p \in Points /\ Receive(m, p, t)
      BY <2>2, <2>3, <2>4 DEF Points
    <2>6. 0 \notin Gaps => latestTime < t
      BY <2>3, <2>4
    <2> QED
      BY <2>5, <2>6, ReceiveKeeps
  <1>2. CASE AcquireStep
    BY <1>2, StoreKeeps, AddPresenceKeeps, EnterModeKeeps, SetTimeKeeps, UpdateSampleKeeps,
       PurgePresencesKeeps, PurgeTracesKeeps DEF AcquireStep
  <1>3. CASE \E w \in Readers : \/ \E m \in Modes, s \in 0..MaxTime : LookUp(w, m, s)
                                \/ Copy(w)
    BY <1>3, ReaderKeeps
  <1>4. CASE UNCHANGED readVars
    <2>1. /\ HistoryTypeOK' /\ apc' = apc /\ rpc' = rpc /\ reading' = reading /\ Held'
          /\ (IF apc = "idle" THEN HistoryInv ELSE MessageOK /\ Stage(apc, msg.mode, msg.time))'
      <3>1. UNCHANGED <<presences, states, latestMode, latestTime, buffer, traces, failure,
                        apc, msg, prior, rpc, reading>>
        BY <1>4 DEF readVars, history, acquiring, readers
      <3>2. HistoryInv => HistoryInv'
        <4>1. UNCHANGED history
          BY <3>1 DEF history
        <4> QED
          BY <4>1, HistoryStutter
      <3>3. (Fresh => Fresh') /\ (Seen => Seen') /\ (Stored => Stored')
        BY <3>1 DEF Fresh, Seen, Stored
      <3>4. PICK c, m, t : c = apc /\ m = msg.mode /\ t = msg.time
        OBVIOUS
      <3>5. /\ Moved(m, t) => Moved(m, t)'
            /\ HalfPurged(m, t) => HalfPurged(m, t)'
            /\ PresenceLeft(m, t)' = PresenceLeft(m, t) /\ Reaching(m)' = Reaching(m)
        BY <3>1 DEF Moved, HalfPurged, PresenceLeft, Reaching
      <3>6. Stage(c, m, t) => Stage(c, m, t)'
        BY <3>1, <3>2, <3>3, <3>5 DEF Stage
      <3>7. MessageOK => MessageOK'
        BY <3>1 DEF MessageOK
      <3>8. Stage(apc, msg.mode, msg.time) => Stage(apc, msg.mode, msg.time)'
        BY <3>1, <3>4, <3>6
      <3>9. Held'
        <4>1. Complete' = Complete /\ states' = states
          BY <3>1 DEF Complete, Now
        <4> QED
          BY <4>1, <3>1 DEF Held, ReadInv
      <3>10. HistoryTypeOK'
        BY <3>1 DEF ReadInv, HistoryTypeOK
      <3> QED
        BY <3>1, <3>2, <3>7, <3>8, <3>9, <3>10 DEF ReadInv
    <2> QED
      BY <2>1 DEF ReadInv
  <1> QED
    BY <1>1, <1>2, <1>3, <1>4 DEF ReadNext

\* The inductive invariant holds of every step of acquire, with any readers.
LEMMA ReadInvariance == ReadSpec => []ReadInv
  <1>1. ReadInit => ReadInv
    <2> SUFFICES ASSUME ReadInit PROVE ReadInv
      OBVIOUS
    <2>1. HistoryInv /\ HistoryTypeOK
      BY HistoryInitial DEF ReadInit, HistoryInv
    <2>2. /\ apc = "idle" /\ rpc \in [Readers -> {"idle", "holding", "dangling", "freed"}]
          /\ DOMAIN reading = Readers /\ \A w \in Readers : rpc[w] = "idle"
      BY DEF ReadInit
    <2> QED
      BY <2>1, <2>2 DEF ReadInv, Held
  <1> QED
    BY <1>1, ReadStep, PTL DEF ReadSpec

\* The mode at s depends on the presences that hold s.
LEMMA ModeFound ==
    ASSUME NEW s, presences' = presences
    PROVE  LET T == {j \in 1..Len(presences) : presences[j].from <= s /\ s < presences[j].to}
               k == IF T # {} THEN Min(T) ELSE 0
           IN  /\ ModeAt(s) = IF k = 0 THEN latestMode ELSE presences[k].mode
               /\ ModeAt(s)' = IF k = 0 THEN latestMode' ELSE presences[k].mode
  <1> DEFINE T == {j \in 1..Len(presences) : presences[j].from <= s /\ s < presences[j].to}
  <1>1. ModeAt(s) = IF (IF T # {} THEN Min(T) ELSE 0) = 0 THEN latestMode
                    ELSE presences[IF T # {} THEN Min(T) ELSE 0].mode
    BY DEF ModeAt, SelectInSeq
  <1>2. ModeAt(s)' = IF (IF T' # {} THEN Min(T') ELSE 0) = 0 THEN latestMode'
                     ELSE presences'[IF T' # {} THEN Min(T') ELSE 0].mode
    BY DEF ModeAt, SelectInSeq
  <1>3. T' = T
    OBVIOUS
  <1> HIDE DEF T
  <1>4. /\ ModeAt(s) = IF (IF T # {} THEN Min(T) ELSE 0) = 0 THEN latestMode
                       ELSE presences[IF T # {} THEN Min(T) ELSE 0].mode
        /\ ModeAt(s)' = IF (IF T # {} THEN Min(T) ELSE 0) = 0 THEN latestMode'
                        ELSE presences[IF T # {} THEN Min(T) ELSE 0].mode
    BY <1>1, <1>2, <1>3
  <1> QED
    BY <1>4 DEF T

\* What is observed at s depends on the entries and on the mode at s.
LEMMA ObservedDepends ==
    ASSUME NEW s, presences' = presences, states' = states, traces' = traces,
           s <= latestTime, s <= latestTime', ModeAt(s)' = ModeAt(s)
    PROVE  ObservedAt(s)' = ObservedAt(s)
  <1>1. TraceAt(s)' = TraceAt(s)
    BY DEF TraceAt
  <1>2. ASSUME NEW m
        PROVE  /\ HasSamplesAt(m, s)' = HasSamplesAt(m, s) /\ Samples(m, s)' = Samples(m, s)
               /\ PresencesIn(m, s)' = PresencesIn(m, s)
               /\ PresencesInto(m, s)' = PresencesInto(m, s)
               /\ LeftBefore(m, s, s)' = LeftBefore(m, s, s)
               /\ EntryTime(m, s)' = EntryTime(m, s) /\ HasEntry(m, s)' = HasEntry(m, s)
               /\ SampleIndex(m, s)' = SampleIndex(m, s)
    <2> DEFINE V == {j \in 1..Len(presences) : HoldsPresence(presences[j], m, s)}
    <2>1. HasSamplesAt(m, s)' = HasSamplesAt(m, s) /\ Samples(m, s)' = Samples(m, s)
      BY DEF HasSamplesAt, Samples
    <2>2. PresencesIn(m, s)' = PresencesIn(m, s) /\ PresencesInto(m, s)' = PresencesInto(m, s)
      BY DEF PresencesIn, PresencesInto
    <2>3. LeftBefore(m, s, s)' = LeftBefore(m, s, s) /\ HasEntry(m, s)' = HasEntry(m, s)
      BY DEF LeftBefore, HasEntry
    <2>4. EntryTime(m, s) = IF s >= Last(presences).to THEN Last(presences).to
                            ELSE presences[IF V # {} THEN Max(V) ELSE 0].from
      BY DEF EntryTime, SelectLastInSeq
    <2>5. EntryTime(m, s)' = IF s >= Last(presences').to THEN Last(presences').to
                             ELSE presences'[IF V' # {} THEN Max(V') ELSE 0].from
      BY DEF EntryTime, SelectLastInSeq
    <2>6. V' = V
      OBVIOUS
    <2> HIDE DEF V
    <2>7. EntryTime(m, s)' = EntryTime(m, s)
      BY <2>4, <2>5, <2>6
    <2>8. SampleIndex(m, s)' = SampleIndex(m, s)
      BY <2>7 DEF SampleIndex
    <2> QED
      BY <2>1, <2>2, <2>3, <2>7, <2>8
  <1>3. ModesWithSamples(s)' = ModesWithSamples(s)
    BY <1>2 DEF ModesWithSamples
  <1>4. ASSUME NEW ks
        PROVE  RangeLower(ks)' = RangeLower(ks) /\ RangeUpper(ks)' = RangeUpper(ks)
    BY DEF RangeLower, RangeUpper, NumSamplesWithin
  <1>5. ASSUME NEW m
        PROVE  /\ RangeLower(PresencesIn(m, s))' = RangeLower(PresencesIn(m, s))
               /\ RangeUpper(PresencesIn(m, s))' = RangeUpper(PresencesIn(m, s))
    <2>1. PICK ks : ks = PresencesIn(m, s)
      OBVIOUS
    <2> QED
      BY <2>1, <1>2, <1>4
  <1>6. PICK m : m = ModeAt(s)
    OBVIOUS
  <1>7. CanLookAhead(s, s)' = CanLookAhead(s, s)
    <2>1. CanLookAhead(s, s) = /\ s <= latestTime
                               /\ m # NoMode /\ HasSamplesAt(m, s)
                               /\ HasEntry(m, s)
                               /\ s - EntryTime(m, s) < Step * RangeUpper(PresencesIn(m, s))
                               /\ LeftBefore(m, s, s)
      BY <1>6 DEF CanLookAhead
    <2>2. CanLookAhead(s, s)' = /\ s <= latestTime'
                                /\ m # NoMode /\ HasSamplesAt(m, s)'
                                /\ HasEntry(m, s)'
                                /\ s - EntryTime(m, s)' < Step * RangeUpper(PresencesIn(m, s))'
                                /\ LeftBefore(m, s, s)'
      BY <1>6 DEF CanLookAhead
    <2> QED
      BY <2>1, <2>2, <1>2, <1>5
  <1>8. SampleIndex(ModeAt(s), s)' = SampleIndex(ModeAt(s), s)
    <2>1. SampleIndex(m, s)' = SampleIndex(m, s)
      BY <1>2
    <2> QED
      BY <2>1, <1>6
  <1> QED
    BY <1>1, <1>2, <1>3, <1>5, <1>7, <1>8 DEF ObservedAt

\* No step of acquire, under a mutex or not, changes what workers are answered for a time
\* before that of the state acquired: the mode that has been left is found in the
\* presences before the next one is the latest (state.cpp:235-284, 317-415).
THEOREM AnswersStableHolds == ReadSpec => AnswersStable
  <1> DEFINE Acquiring == apc \notin {"idle", "purge", "traces"}
             Answers == \A s \in Past : s <= prior.latestTime /\ s < msg.time =>
                            ObservedAt(s)' = ObservedAt(s)
  <1>1. ReadInv /\ [ReadNext]_readVars => (Acquiring => Answers)
    <2> SUFFICES ASSUME ReadInv, [ReadNext]_readVars, Acquiring,
                        NEW s \in Past, s <= prior.latestTime, s < msg.time
                 PROVE  ObservedAt(s)' = ObservedAt(s)
      OBVIOUS
    <2>1. PICK m, t : m = msg.mode /\ t = msg.time
      OBVIOUS
    <2>2. /\ HistoryTypeOK /\ MessageOK /\ Stage(apc, m, t) /\ s < t /\ t \in Nat
          /\ presences \in Seq(Presence) /\ presences # <<>> /\ latestTime \in Nat
          /\ apc \in {"store", "presence", "mode", "time", "sample"}
      BY <2>1, Times DEF ReadInv, MessageOK, Past, Steps
    <2>3. s \in Nat /\ presences[1].to <= s /\ s <= latestTime
      <3>1. s \in Head(presences).to..latestTime /\ Head(presences) = presences[1]
        BY <2>2 DEF Past
      <3>2. presences[1].to \in Nat
        BY <2>2, PresencesAre
      <3> QED
        BY <3>1, <3>2, <2>2
    <2>4. CASE Store
      <3>1. HistorySeen /\ latestMode \in Modes /\ states \in [Modes -> Seq(SampleEntry)]
        BY <2>2, <2>4, InvSeen, Times DEF Store, StoreIn, Stage, Seen
      <3>2. UNCHANGED <<presences, latestMode, latestTime, traces>>
        BY <2>4 DEF Store, StoreIn
      <3>3. LaterPresences(s) /\ LaterEntries(traces, traces', s)
        BY <3>2 DEF LaterPresences, LaterEntries
      <3>4. ASSUME NEW x \in Modes
            PROVE  LaterEntries(states[x], states'[x], s)
        <4>1. PICK entry : entry = SamplesLeft
          OBVIOUS
        <4>2. states' = [states EXCEPT ![latestMode] = Append(states[latestMode], entry)]
          BY <2>4, <4>1 DEF Store, StoreIn
        <4>3. ~(entry.time <= s)
          <5>1. entry.time = t
            BY <4>1, <2>1 DEF SamplesLeft
          <5> QED
            BY <5>1, <2>2, <2>3
        <4>4. CASE x = latestMode
          <5>1. states'[x] = Append(states[x], entry) /\ states[x] \in Seq(SampleEntry)
            BY <3>1, <4>2, <4>4
          <5> QED
            BY <5>1, <4>3, <2>3, EntriesLater
        <4>5. CASE x # latestMode
          BY <4>2, <4>5, <3>1 DEF LaterEntries
        <4> QED
          BY <4>4, <4>5
      <3> QED
        BY <2>3, <3>1, <3>2, <3>3, <3>4, ObservedKept
    <2>5. CASE AddPresence
      <3>1. /\ UNCHANGED <<states, latestMode, latestTime>> /\ m # latestMode
            /\ presences' = Append(presences, PresenceLeft(m, t)) /\ traces' = TraceLeaving(m, t)
        BY <2>1, <2>2, <2>5 DEF AddPresence, Stage
      <3>2. Seen /\ HistorySeen /\ latestMode \in Modes
        BY <2>2, <2>5 DEF AddPresence, Stage, Fresh, HistorySeen, Seen
      <3>3. PICK q : q = PresenceLeft(m, t)
        OBVIOUS
      <3>4. q.mode = latestMode /\ q.from = Last(presences).to /\ q.to = t
        BY <3>3, <2>2 DEF PresenceLeft
      <3>5. LaterPresences(s)
        <4>1. presences \in Seq(Presence \cup {q}) /\ q \in Presence \cup {q}
          BY <2>2
        <4>2. PICK R : R = Presence \cup {q}
          OBVIOUS
        <4>3. /\ Len(presences') = Len(presences) + 1 /\ presences'[Len(presences) + 1] = q
              /\ \A k \in 1..Len(presences) : presences'[k] = presences[k]
          BY <3>1, <3>3, <4>1, <4>2
        <4> QED
          BY <4>3, <3>4, <2>2 DEF LaterPresences
      <3>6. LaterEntries(traces, traces', s)
        <4>1. PICK x : x = [time |-> t, trace |-> Append(Last(traces).trace, latestMode)]
          OBVIOUS
        <4>2. traces' = Append(traces, x) /\ traces \in Seq(TraceEntry)
          BY <3>1, <3>2, <4>1, <2>2, Times, ModesAssumption DEF TraceLeaving
        <4>3. ~(x.time <= s)
          BY <4>1, <2>2, <2>3
        <4> QED
          BY <4>2, <4>3, <2>3, EntriesLater
      <3>7. \A x \in Modes : LaterEntries(states[x], states'[x], s)
        BY <3>1 DEF LaterEntries
      <3> QED
        BY <2>3, <3>1, <3>2, <3>5, <3>6, <3>7, ObservedKept
    <2>6. CASE EnterMode
      <3>1. UNCHANGED <<presences, states, latestTime, traces>>
        BY <2>6 DEF EnterMode
      <3>2. Linked(presences, m, t) /\ Last(presences).to = t /\ t \in 0..MaxTime
        BY <2>1, <2>2, <2>6 DEF EnterMode, Stage, Moved, MessageOK
      <3> DEFINE T == {j \in 1..Len(presences) : presences[j].from <= s /\ s < presences[j].to}
      <3>3. PICK k \in 2..Len(presences) : T = {k}
        BY <3>2, <2>2, <2>3, Holder
      <3>4. Min(T) = k /\ T # {} /\ k # 0
        BY <3>3, OnlyOne
      <3>5. /\ ModeAt(s) = IF (IF T # {} THEN Min(T) ELSE 0) = 0 THEN latestMode
                           ELSE presences[IF T # {} THEN Min(T) ELSE 0].mode
            /\ ModeAt(s)' = IF (IF T # {} THEN Min(T) ELSE 0) = 0 THEN latestMode'
                            ELSE presences[IF T # {} THEN Min(T) ELSE 0].mode
        <4>1. presences' = presences
          BY <3>1
        <4> QED
          BY <4>1, ModeFound, Zenon
      <3> HIDE DEF T
      <3>6. (IF T # {} THEN Min(T) ELSE 0) = k /\ k # 0
        BY <3>4, Zenon
      <3>7. ModeAt(s) = presences[k].mode /\ ModeAt(s)' = presences[k].mode
        BY <3>5, <3>6, Zenon
      <3> QED
        BY <3>1, <3>7, <2>3, ObservedDepends
    <2>7. CASE SetTime
      <3>1. UNCHANGED <<presences, states, latestMode, traces>> /\ latestTime' = t
        BY <2>1, <2>7 DEF SetTime
      <3>2. ModeAt(s)' = ModeAt(s)
        BY <3>1 DEF ModeAt, SelectInSeq
      <3>3. s <= latestTime'
        BY <3>1, <2>2, <2>3
      <3> QED
        BY <3>1, <3>2, <3>3, <2>3, ObservedDepends
    <2>8. CASE UNCHANGED <<presences, states, latestMode, latestTime, traces>>
      <3>1. ModeAt(s)' = ModeAt(s)
        BY <2>8 DEF ModeAt, SelectInSeq
      <3>2. s <= latestTime'
        BY <2>8, <2>3
      <3> QED
        BY <3>1, <3>2, <2>8, <2>3, ObservedDepends
    <2>9. Store \/ AddPresence \/ EnterMode \/ SetTime
          \/ UNCHANGED <<presences, states, latestMode, latestTime, traces>>
      <3>1. ~ReceiveNext /\ ~PurgePresences /\ ~PurgeTraces
        BY <2>2 DEF ReceiveNext, Receive, PurgePresences, PurgeTraces
      <3>2. UpdateSample => UNCHANGED <<presences, states, latestMode, latestTime, traces>>
        BY DEF UpdateSample
      <3>3. \A w \in Readers, x \in Modes, u \in 0..MaxTime : LookUp(w, x, u) =>
                UNCHANGED <<presences, states, latestMode, latestTime, traces>>
        BY DEF LookUp, history
      <3>4. \A w \in Readers : Copy(w) => UNCHANGED <<presences, states, latestMode, latestTime, traces>>
        BY DEF Copy, history
      <3>5. UNCHANGED readVars => UNCHANGED <<presences, states, latestMode, latestTime, traces>>
        BY DEF readVars, history
      <3> QED
        BY <3>1, <3>2, <3>3, <3>4, <3>5 DEF ReadNext, AcquireStep
    <2> QED
      BY <2>4, <2>5, <2>6, <2>7, <2>8, <2>9
  <1>2. ReadInv /\ [ReadNext]_readVars => [Acquiring => Answers]_readVars
    BY <1>1
  <1> QED
    BY <1>2, ReadInvariance, PTL DEF ReadSpec, AnswersStable

\* A reference to samples that is still valid when it is followed refers to those of its
\* snapshot, whatever is stored in between, if the states have different times
\* (state.cpp:145-151, 333-336).
THEOREM HeldIsSnapshotHolds == ReadSpec => []HeldIsSnapshot
  <1>1. ReadInv => HeldIsSnapshot
    BY DEF ReadInv, Held, HeldIsSnapshot
  <1> QED
    BY <1>1, ReadInvariance, PTL

-----------------------------------------------------------------------------
(* Entries taken in order.                                                  *)

\* If of two elements of a finite set one is always below the other, then for every
\* number there is the element with so many below it.
LEMMA Ranked ==
    ASSUME NEW S, IsFiniteSet(S), NEW below \in [S -> SUBSET S],
           \A x \in S : x \notin below[x],
           \A x, y \in S : x # y => \/ x \in below[y] /\ below[x] \subseteq below[y]
                                    \/ y \in below[x] /\ below[y] \subseteq below[x]
    PROVE  /\ Cardinality(S) \in Nat
           /\ \A x \in S : Cardinality(below[x]) + 1 \in 1..Cardinality(S)
           /\ \A n \in 1..Cardinality(S) : \E x \in S : Cardinality(below[x]) + 1 = n
           /\ \A x, y \in S : Cardinality(below[x]) = Cardinality(below[y]) => x = y
  <1> DEFINE f == [x \in S |-> Cardinality(below[x]) + 1]
             N == 1..Cardinality(S)
  <1>1. Cardinality(S) \in Nat
    BY FS_CardinalityType
  <1>2. IsFiniteSet(N) /\ Cardinality(N) = Cardinality(S)
    BY <1>1, FS_Interval
  <1>3. \A x \in S : /\ IsFiniteSet(below[x]) /\ Cardinality(below[x]) \in Nat
    BY FS_Subset, FS_CardinalityType
  <1>4. ASSUME NEW x \in S, NEW y \in S, x \in below[y], below[x] \subseteq below[y]
        PROVE  Cardinality(below[x]) < Cardinality(below[y])
    <2>1. below[x] # below[y]
      BY <1>4
    <2>2. Cardinality(below[x]) <= Cardinality(below[y])
          /\ (Cardinality(below[y]) = Cardinality(below[x]) => below[y] = below[x])
      BY <1>3, <1>4, FS_Subset
    <2> QED
      BY <2>1, <2>2, <1>3
  <1>5. ASSUME NEW x \in S
        PROVE  Cardinality(below[x]) + 1 \in N
    <2>1. below[x] # S
      OBVIOUS
    <2>2. below[x] \in SUBSET S
      OBVIOUS
    <2>3. Cardinality(below[x]) <= Cardinality(S)
          /\ (Cardinality(S) = Cardinality(below[x]) => S = below[x])
      BY <2>2, FS_Subset
    <2> QED
      BY <2>1, <2>3, <1>1, <1>3
  <1>6. \A x, y \in S : Cardinality(below[x]) = Cardinality(below[y]) => x = y
    BY <1>3, <1>4
  <1>7. f \in Injection(S, N)
    <2>1. f \in [S -> N]
      BY <1>5
    <2>2. IsInjective(f)
      BY <1>3, <1>6 DEF IsInjective
    <2> QED
      BY <2>1, <2>2 DEF Injection
  <1>8. f \in Surjection(S, N)
    <2> HIDE DEF f, N
    <2> QED
      BY <1>2, <1>7, FS_Injection
  <1>9. \A n \in N : \E x \in S : f[x] = n
    BY <1>8 DEF Surjection
  <1> QED
    BY <1>1, <1>5, <1>6, <1>9

\* Places of a list, each of which has its number.
LEMMA PlacesRanked ==
    ASSUME NEW places, IsFiniteSet(places), places \subseteq Int
    PROVE  /\ Cardinality(places) \in Nat
           /\ \A k \in places : Rank(places, k) \in 1..Cardinality(places)
           /\ \A i \in 1..Cardinality(places) : \E k \in places : Rank(places, k) = i
           /\ \A x, y \in places : Rank(places, x) = Rank(places, y) => x = y
           /\ \A x, y \in places : x < y => Rank(places, x) < Rank(places, y)
  <1> DEFINE below == [k \in places |-> {i \in places : i < k}]
  <1>1. below \in [places -> SUBSET places]
    OBVIOUS
  <1>2. \A x \in places : x \notin below[x]
    OBVIOUS
  <1>3. ASSUME NEW x \in places, NEW y \in places, x < y
        PROVE  x \in below[y] /\ below[x] \subseteq below[y]
    <2>1. \A i \in places : i < x => i < y
      BY <1>3
    <2> QED
      BY <2>1, <1>3
  <1>4. \A x, y \in places : x # y => x < y \/ y < x
    OBVIOUS
  <1>5. ASSUME NEW k \in places
        PROVE  Rank(places, k) = Cardinality(below[k]) + 1 /\ Cardinality(below[k]) \in Nat
    <2>1. IsFiniteSet(below[k])
      BY <1>1, FS_Subset
    <2>2. {i \in places : i <= k} = below[k] \cup {k} /\ k \notin below[k]
      <3>1. \A i \in places : i <= k <=> i < k \/ i = k
        OBVIOUS
      <3> QED
        BY <3>1, <1>2
    <2> QED
      BY <2>1, <2>2, FS_AddElement, FS_CardinalityType DEF Rank
  <1> HIDE DEF below
  <1>6. /\ Cardinality(places) \in Nat
        /\ \A x \in places : Cardinality(below[x]) + 1 \in 1..Cardinality(places)
        /\ \A n \in 1..Cardinality(places) : \E x \in places : Cardinality(below[x]) + 1 = n
        /\ \A x, y \in places : Cardinality(below[x]) = Cardinality(below[y]) => x = y
    BY <1>1, <1>2, <1>3, <1>4, Ranked
  <1>7. ASSUME NEW x \in places, NEW y \in places, x < y
        PROVE  Rank(places, x) < Rank(places, y)
    <2>1. Cardinality(below[x]) <= Cardinality(below[y])
      BY <1>1, <1>3, <1>7, FS_Subset
    <2>2. Cardinality(below[x]) # Cardinality(below[y])
      BY <1>6, <1>7
    <2> QED
      BY <2>1, <2>2, <1>5
  <1> QED
    BY <1>5, <1>6, <1>7

\* The entries at some places of a list: each of them once, in order.
InPlace(places) ==
    [i \in 1..Cardinality(places) |-> CHOOSE k \in places : Rank(places, k) = i]

LEMMA EntriesAre ==
    ASSUME NEW list, NEW places, NEW i \in 1..Cardinality(places)
    PROVE  EntriesAt(list, places)[i] = list[InPlace(places)[i]]
  BY DEF EntriesAt, InPlace

LEMMA ChosenEntries ==
    ASSUME NEW S, NEW list \in Seq(S), NEW places, places \subseteq 1..Len(list)
    PROVE  LET n == Cardinality(places)
               at == InPlace(places)
           IN  /\ n \in Nat /\ n <= Len(list) /\ at \in [1..n -> places]
               /\ EntriesAt(list, places) \in Seq(S) /\ Len(EntriesAt(list, places)) = n
               /\ \A i \in 1..n : EntriesAt(list, places)[i] = list[at[i]]
               /\ \A i, k \in 1..n : i < k => at[i] < at[k]
               /\ \A p \in places : \E i \in 1..n : at[i] = p
  <1> DEFINE n == Cardinality(places)
             chosen == InPlace(places)
  <1>1. /\ IsFiniteSet(places) /\ n <= Len(list) /\ places \subseteq Int
        /\ \A k \in places : list[k] \in S
    <2>1. Len(list) \in Nat /\ IsFiniteSet(1..Len(list)) /\ Cardinality(1..Len(list)) = Len(list)
      BY FS_Interval
    <2>2. \A k \in places : k \in Int /\ list[k] \in S
      OBVIOUS
    <2> QED
      BY <2>1, <2>2, FS_Subset
  <1>2. /\ n \in Nat /\ \A k \in places : Rank(places, k) \in 1..n
        /\ \A i \in 1..n : \E k \in places : Rank(places, k) = i
        /\ \A x, y \in places : Rank(places, x) = Rank(places, y) => x = y
        /\ \A x, y \in places : x < y => Rank(places, x) < Rank(places, y)
    BY <1>1, PlacesRanked
  <1>3. \A i \in 1..n : chosen[i] \in places /\ Rank(places, chosen[i]) = i
    BY <1>2 DEF InPlace
  <1>4. EntriesAt(list, places) = [i \in 1..n |-> list[chosen[i]]]
    BY DEF EntriesAt, InPlace
  <1>5. chosen \in [1..n -> places]
    BY <1>3 DEF InPlace
  <1> HIDE DEF n, chosen
  <1>6. PICK at : at = chosen
    OBVIOUS
  <1>7. ASSUME NEW i \in 1..n, NEW k \in 1..n, i < k
        PROVE  at[i] < at[k]
    <2>1. PICK x \in places, y \in places : x = at[i] /\ y = at[k] /\ Rank(places, x) = i /\ Rank(places, y) = k
      BY <1>3, <1>6
    <2>2. x \in Int /\ y \in Int /\ i \in Int /\ k \in Int
      BY <1>1, <1>2
    <2>3. y < x => k < i
      BY <2>1, <1>2
    <2>4. y = x => k = i
      BY <2>1
    <2> QED
      BY <2>1, <2>2, <2>3, <2>4, <1>7
  <1>8. ASSUME NEW p \in places
        PROVE  \E i \in 1..n : at[i] = p
    <2>1. PICK i \in 1..n : i = Rank(places, p)
      BY <1>2
    <2>2. at[i] \in places /\ Rank(places, at[i]) = Rank(places, p)
      BY <2>1, <1>3, <1>6
    <2> QED
      BY <2>2, <1>2
  <1>9. \A i \in 1..n : list[at[i]] \in S
    BY <1>1, <1>5, <1>6
  <1>10. /\ EntriesAt(list, places) \in Seq(S) /\ Len(EntriesAt(list, places)) = n
         /\ \A i \in 1..n : EntriesAt(list, places)[i] = list[at[i]]
    BY <1>2, <1>4, <1>6, <1>9
  <1> QED
    BY <1>1, <1>2, <1>5, <1>6, <1>7, <1>8, <1>10 DEF n, chosen

-----------------------------------------------------------------------------
(* Functions that are defined by recursion on a number.                     *)

\* What holds of 0 and of every number after one of which it holds, up to a last one.
LEMMA CountingUp ==
    ASSUME NEW N \in Nat, NEW P, P[0], \A n \in 1..N : P[n - 1] => P[n]
    PROVE  \A n \in 0..N : P[n]
  <1> DEFINE T == {n \in 0..N : ~P[n]}
  <1>1. SUFFICES ASSUME T # {} PROVE FALSE
    OBVIOUS
  <1>2. PICK n \in T : \A i \in T : ~(i < n)
    <2>1. T \subseteq Nat
      OBVIOUS
    <2> HIDE DEF T
    <2> QED
      BY <1>1, <2>1, LeastOf
  <1>3. n \in 1..N /\ n - 1 \in 0..N /\ n - 1 < n
    BY <1>2
  <1>4. P[n - 1]
    BY <1>2, <1>3
  <1> QED
    BY <1>2, <1>3, <1>4

\* A start and a step to each number from the one before define a function, each of
\* whose values is of the set for its number.
Iterates(f, N, S, start, step) ==
    /\ f = [n \in 0..N |-> f[n]]
    /\ \A n \in 0..N : /\ f[n] = IF n = 0 THEN start ELSE step[n][f[n - 1]]
                       /\ f[n] \in S[n]
Iterated(N, S, start, step) == CHOOSE f : Iterates(f, N, S, start, step)

LEMMA Recursion ==
    ASSUME NEW N \in Nat, NEW S, NEW start, start \in S[0], NEW step,
           \A n \in 1..N : \A x \in S[n - 1] : step[n][x] \in S[n]
    PROVE  Iterates(Iterated(N, S, start, step), N, S, start, step)
  <1> DEFINE Defines(f, k) == f[0] = start /\ (\A n \in 1..k : f[n] = step[n][f[n - 1]])
                              /\ \A n \in 0..k : f[n] \in S[n]
             P == [k \in 0..N |-> \E f : Defines(f, k)]
  <1>1. P[0]
    <2> DEFINE f == [i \in 0..0 |-> start]
    <2>1. Defines(f, 0)
      OBVIOUS
    <2>2. 0 \in 0..N
      OBVIOUS
    <2> HIDE DEF f, Defines
    <2> QED
      BY <2>1, <2>2
  <1>2. ASSUME NEW k \in 1..N, P[k - 1]
        PROVE  P[k]
    <2>1. k - 1 \in 0..N
      OBVIOUS
    <2>2. PICK f : Defines(f, k - 1)
      BY <1>2, <2>1
    <2> DEFINE g == [i \in 0..k |-> IF i = k THEN step[k][f[k - 1]] ELSE f[i]]
    <2>3. k - 1 \in 0..(k - 1) /\ f[k - 1] \in S[k - 1]
      BY <2>2
    <2>4. Defines(g, k)
      <3>1. 0 \in 0..k /\ 0 # k
        OBVIOUS
      <3>2. \A n \in 1..k : n # k => n \in 1..(k - 1) /\ n - 1 # k /\ n - 1 \in 0..k /\ n \in 0..k
        OBVIOUS
      <3>3. k \in 0..k /\ k - 1 \in 0..k /\ k - 1 # k
        OBVIOUS
      <3>4. g[0] = start
        BY <2>2, <3>1
      <3>5. g[k] = step[k][g[k - 1]] /\ g[k] \in S[k]
        BY <2>3, <3>3
      <3>6. \A n \in 1..k : n # k => g[n] = step[n][g[n - 1]]
        BY <2>2, <3>2
      <3>7. \A n \in 0..k : n # k => n \in 0..(k - 1)
        OBVIOUS
      <3>8. \A n \in 0..k : g[n] \in S[n]
        BY <2>2, <3>5, <3>7
      <3> QED
        BY <3>4, <3>5, <3>6, <3>8
    <2> HIDE DEF g
    <2>5. k \in 0..N
      OBVIOUS
    <2> QED
      BY <2>4, <2>5
  <1>3. \A k \in 0..N : P[k]
    <2> HIDE DEF P
    <2> QED
      BY <1>1, <1>2, CountingUp
  <1>4. PICK f : Defines(f, N)
    BY <1>3
  <1> DEFINE g == [n \in 0..N |-> f[n]]
  <1>5. \A n \in 0..N : n # 0 => n \in 1..N /\ n - 1 \in 0..N
    OBVIOUS
  <1>6. \A n \in 0..N : g[n] = (IF n = 0 THEN start ELSE step[n][g[n - 1]]) /\ g[n] \in S[n]
    BY <1>4, <1>5
  <1>7. PICK h : h = g
    OBVIOUS
  <1>8. g = [n \in 0..N |-> g[n]]
    OBVIOUS
  <1> HIDE DEF g
  <1>9. h = [n \in 0..N |-> h[n]]
    BY <1>7, <1>8
  <1>10. Iterates(h, N, S, start, step)
    BY <1>6, <1>7, <1>9 DEF Iterates
  <1> QED
    BY <1>10 DEF Iterated

-----------------------------------------------------------------------------
(* The next modes of a trace.                                               *)

\* The occurrences that agree with the end of a trace on k modes more than the last.
Agreeing(trace, k) ==
    {i \in Occurrences(trace) : i > k /\ \A j \in 0..k : trace[i - j] = trace[Len(trace) - j]}

LEMMA AllAgree ==
    ASSUME NEW S, NEW trace \in Seq(S)
    PROVE  Agreeing(trace, 0) = Occurrences(trace)
  <1> DEFINE N == Len(trace)
  <1>1. N \in Nat /\ \A i \in Occurrences(trace) : i \in 1..N /\ trace[i] = trace[N]
    BY DEF Occurrences, Last
  <1>2. \A i \in Occurrences(trace) : i > 0 /\ i - 0 = i /\ N - 0 = N
    BY <1>1
  <1>3. \A j \in 0..0 : j = 0
    OBVIOUS
  <1>4. \A i \in Occurrences(trace) : i > 0 /\ \A j \in 0..0 : trace[i - j] = trace[N - j]
    <2> TAKE i \in Occurrences(trace)
    <2>1. \A j \in 0..0 : trace[i - j] = trace[i] /\ trace[N - j] = trace[N]
      BY <1>2, <1>3
    <2> QED
      BY <2>1, <1>1, <1>2
  <1> HIDE DEF N
  <1> QED
    BY <1>4 DEF Agreeing, N

\* The rounds of next_modes leave the occurrences that agree so far.
LEMMA RoundsAre ==
    ASSUME NEW S, NEW trace \in Seq(S)
    PROVE  Rounds(trace) = [k \in 0..Len(trace) |-> Agreeing(trace, k)]
  <1> DEFINE N == Len(trace)
             W == [k \in 0..N |-> Agreeing(trace, k)]
             Defined(f) == f = [k \in 0..N |-> IF k = 0 THEN Occurrences(trace)
                                              ELSE Round(trace, f[k - 1], k)]
  <1>1. N \in Nat /\ \A i \in Occurrences(trace) : i \in 1..N /\ trace[i] = trace[N]
    BY DEF Occurrences, Last
  <1>2. Agreeing(trace, 0) = Occurrences(trace)
    BY AllAgree
  <1>3. ASSUME NEW k \in 1..N
        PROVE  Agreeing(trace, k) = Round(trace, Agreeing(trace, k - 1), k)
    <2>1. ASSUME NEW i \in Occurrences(trace)
          PROVE  (i > k /\ \A j \in 0..k : trace[i - j] = trace[N - j])
                 <=> /\ i > k - 1 /\ \A j \in 0..(k - 1) : trace[i - j] = trace[N - j]
                     /\ i > k /\ trace[i - k] = trace[N - k]
      <3>1. 0..k = 0..(k - 1) \cup {k} /\ (i > k => i > k - 1)
        BY <1>1
      <3> QED
        BY <3>1
    <2> HIDE DEF N
    <2> QED
      BY <2>1 DEF Agreeing, Round, N
  <1>4. Defined(W)
    <2>1. \A k \in 1..N : k - 1 \in 0..N /\ k \in 0..N /\ k # 0
      BY <1>1
    <2>2. \A k \in 0..N : k # 0 => k \in 1..N
      BY <1>1
    <2>3. \A k \in 0..N : W[k] = IF k = 0 THEN Occurrences(trace) ELSE Round(trace, W[k - 1], k)
      BY <1>2, <1>3, <2>1, <2>2
    <2> QED
      BY <2>3
  <1>5. ASSUME NEW f, Defined(f)
        PROVE  f = W
    <2> DEFINE P == [k \in 0..N |-> f[k] = W[k]]
    <2>1. \A k \in 1..N : k - 1 \in 0..N /\ k \in 0..N /\ k # 0
      BY <1>1
    <2>2. 0 \in 0..N
      BY <1>1
    <2>3. \A k \in 0..N : f[k] = IF k = 0 THEN Occurrences(trace) ELSE Round(trace, f[k - 1], k)
      <3> HIDE DEF N, W
      <3> QED
        BY <1>5
    <2>4. \A k \in 0..N : W[k] = IF k = 0 THEN Occurrences(trace) ELSE Round(trace, W[k - 1], k)
      <3> HIDE DEF N, W
      <3> QED
        BY <1>4
    <2> HIDE DEF N, W
    <2>5. P[0]
      BY <2>2, <2>3, <2>4
    <2>6. \A k \in 1..N : P[k - 1] => P[k]
      BY <2>1, <2>3, <2>4
    <2>7. \A k \in 0..N : P[k]
      <3> HIDE DEF P
      <3> QED
        BY <1>1, <2>5, <2>6, CountingUp
    <2>8. \A k \in 0..N : f[k] = W[k]
      BY <2>7
    <2>9. f = [k \in 0..N |-> f[k]]
      BY <1>5
    <2>10. W = [k \in 0..N |-> W[k]]
      BY DEF W
    <2>11. PICK g : g = W
      OBVIOUS
    <2> QED
      BY <2>8, <2>9, <2>10, <2>11
  <1>6. Rounds(trace) = CHOOSE f : Defined(f)
    BY DEF Rounds
  <1>7. Defined(Rounds(trace))
    BY <1>4, <1>6
  <1> HIDE DEF Defined
  <1> QED
    BY <1>5, <1>7

\* The rounds end with the occurrences that agree for longest, k modes more than the
\* last one, which is all but none of them.
LEMMA LongestAgree ==
    ASSUME NEW S, NEW trace \in Seq(S), trace # <<>>
    PROVE  \E k \in 0..(Len(trace) - 1) :
              /\ Longest(trace) = Agreeing(trace, k) /\ Agreeing(trace, k + 1) = {}
              /\ Occurrences(trace) # {} => Agreeing(trace, k) # {}
  <1> DEFINE N == Len(trace)
             Ends(n) == Agreeing(trace, n + 1) = {} /\ (n > 0 => Agreeing(trace, n) # {})
             k == CHOOSE n \in 0..(N - 1) : Ends(n)
             T == {n \in 0..(N - 1) : Agreeing(trace, n + 1) = {}}
  <1>1. N \in Nat /\ N > 0 /\ N - 1 \in 0..(N - 1)
    OBVIOUS
  <1>2. N - 1 \in T
    <2>1. \A i \in Occurrences(trace) : ~(i > N)
      BY DEF Occurrences
    <2>2. (N - 1) + 1 = N
      BY <1>1
    <2> HIDE DEF N
    <2>3. Agreeing(trace, N) = {}
      BY <2>1 DEF Agreeing
    <2> QED
      BY <2>2, <2>3, <1>1
  <1>3. PICK n \in T : \A i \in T : ~(i < n)
    <2>1. T \subseteq Nat
      OBVIOUS
    <2> HIDE DEF T
    <2> QED
      BY <2>1, <1>2, LeastOf
  <1>4. n \in 0..(N - 1) /\ Ends(n)
    <2>1. CASE n > 0
      <3>1. n - 1 \in 0..(N - 1) /\ (n - 1) + 1 = n /\ n - 1 < n
        BY <2>1, <1>1
      <3>2. n - 1 \notin T
        BY <3>1, <1>3
      <3>3. Agreeing(trace, n) # {}
        BY <3>1, <3>2
      <3> QED
        BY <3>3
    <2> QED
      BY <2>1
  <1>5. k \in 0..(N - 1) /\ Ends(k)
    <2> HIDE DEF Ends
    <2> QED
      BY <1>4
  <1>6. Longest(trace) = Agreeing(trace, k)
    <2>1. \A i \in 0..(N - 1) : i + 1 \in 0..N /\ i \in 0..N
      BY <1>1
    <2>2. \A i \in 0..(N - 1) : /\ Rounds(trace)[i + 1] = Agreeing(trace, i + 1)
                                /\ Rounds(trace)[i] = Agreeing(trace, i)
      <3> HIDE DEF N
      <3> QED
        BY <2>1, RoundsAre DEF N
    <2> DEFINE c == CHOOSE i \in 0..(N - 1) :
                        Rounds(trace)[i + 1] = {} /\ (i > 0 => Rounds(trace)[i] # {})
    <2>3. c = k
      <3>1. \A i \in 0..(N - 1) :
               (Rounds(trace)[i + 1] = {} /\ (i > 0 => Rounds(trace)[i] # {})) <=> Ends(i)
        BY <2>2
      <3> HIDE DEF N, Ends
      <3> QED
        BY <3>1
    <2>4. Longest(trace) = Rounds(trace)[c]
      BY DEF Longest
    <2> HIDE DEF c, k, N
    <2> QED
      BY <2>2, <2>3, <2>4, <1>5
  <1> HIDE DEF k
  <1>7. ASSUME Occurrences(trace) # {}
        PROVE  Agreeing(trace, k) # {}
    <2>1. CASE k > 0
      BY <2>1, <1>5
    <2>2. CASE ~(k > 0)
      <3>1. k = 0
        BY <2>2, <1>1, <1>5
      <3> QED
        BY <3>1, AllAgree, <1>7
    <2> QED
      BY <2>1, <2>2
  <1> QED
    BY <1>5, <1>6, <1>7

\* How long an occurrence agrees with the end.
LEMMA AgreementIs ==
    ASSUME NEW S, NEW trace \in Seq(S), trace # <<>>, NEW k \in Nat,
           Agreeing(trace, k + 1) = {}, NEW i \in Occurrences(trace)
    PROVE  /\ Agreement(trace, i) \in Nat
           /\ IF i \in Agreeing(trace, k) THEN Agreement(trace, i) = k + 1
              ELSE Agreement(trace, i) <= k
  <1> DEFINE N == Len(trace)
             Agrees(n) == \A j \in 0..n : trace[i - j] = trace[N - j]
             A == {n \in 0..(i - 1) : Agrees(n)}
  <1>1. i \in Nat /\ i >= 1 /\ N \in Nat
    BY DEF Occurrences
  <1>2. \A n, p \in Nat : n <= p /\ Agrees(p) => Agrees(n)
    <2>1. \A n, p \in Nat : n <= p => 0..n \subseteq 0..p
      OBVIOUS
    <2> QED
      BY <2>1
  <1>3. \A n \in Nat : i \in Agreeing(trace, n) <=> n \in 0..(i - 1) /\ Agrees(n)
    <2>1. \A n \in Nat : i > n <=> n \in 0..(i - 1)
      BY <1>1
    <2> QED
      BY <2>1 DEF Agreeing
  <1>4. Agreement(trace, i) = Cardinality(A)
    BY DEF Agreement
  <1> HIDE DEF Agrees
  <1>5. \A n \in A : n <= k
    <2> TAKE n \in A
    <2> SUFFICES ASSUME ~(n <= k) PROVE FALSE
      OBVIOUS
    <2>1. n \in Nat /\ k + 1 <= n /\ k + 1 \in Nat
      BY <1>1
    <2>2. Agrees(k + 1) /\ k + 1 \in 0..(i - 1)
      BY <2>1, <1>1, <1>2
    <2> QED
      BY <2>1, <2>2, <1>3
  <1>6. \A n \in A : n \in 0..(i - 1) /\ Agrees(n)
    OBVIOUS
  <1>7. CASE i \in Agreeing(trace, k)
    <2>1. k \in 0..(i - 1) /\ Agrees(k)
      BY <1>3, <1>7
    <2>2. \A n \in 0..k : n \in A
      <3> TAKE n \in 0..k
      <3>1. n \in Nat /\ n <= k /\ n \in 0..(i - 1)
        BY <2>1, <1>1
      <3> QED
        BY <3>1, <2>1, <1>2
    <2>3. \A n \in A : n \in 0..k
      BY <1>5, <1>1
    <2>4. A = 0..k
      <3> HIDE DEF A
      <3> QED
        BY <2>2, <2>3
    <2>5. Cardinality(0..k) = k + 1
      BY FS_Interval
    <2> HIDE DEF A
    <2> QED
      BY <1>4, <1>7, <2>4, <2>5
  <1>8. CASE i \notin Agreeing(trace, k)
    <2>1. \A n \in A : n \in 0..(k - 1)
      <3> TAKE n \in A
      <3>1. n # k
        BY <1>3, <1>6, <1>8
      <3> QED
        BY <3>1, <1>5, <1>1
    <2>2. A \subseteq 0..(k - 1)
      <3> HIDE DEF A
      <3> QED
        BY <2>1
    <2>3. IsFiniteSet(0..(k - 1)) /\ Cardinality(0..(k - 1)) = k
      <3>1. 0 \in Int /\ k - 1 \in Int
        OBVIOUS
      <3>2. Cardinality(0..(k - 1)) = IF 0 > k - 1 THEN 0 ELSE (k - 1) - 0 + 1
        BY <3>1, FS_Interval
      <3>3. IsFiniteSet(0..(k - 1))
        BY <3>1, FS_Interval
      <3> QED
        BY <3>2, <3>3
    <2> HIDE DEF A
    <2>4. IsFiniteSet(A) /\ Cardinality(A) <= k
      BY <2>2, <2>3, FS_Subset
    <2>5. Cardinality(A) \in Nat
      BY <2>4, FS_CardinalityType
    <2> QED
      BY <1>4, <1>8, <2>4, <2>5
  <1> QED
    BY <1>7, <1>8

\* next_modes answers with the modes that have followed the occurrences of the last
\* one whose past agrees with the present for longest, whatever the trace, and with
\* some mode if the last one has occurred before (mode.cpp:214-256).
THEOREM NextModesAreSuccessors ==
    ASSUME NEW S, NEW trace \in Seq(S), trace # <<>>
    PROVE  /\ NextModes(trace) = Successors(trace)
           /\ Occurrences(trace) # {} => NextModes(trace) # {}
           /\ \A m \in NextModes(trace) : \E i \in Occurrences(trace) : m = trace[i + 1]
  <1>1. PICK k \in 0..(Len(trace) - 1) :
              /\ Longest(trace) = Agreeing(trace, k) /\ Agreeing(trace, k + 1) = {}
              /\ Occurrences(trace) # {} => Agreeing(trace, k) # {}
    BY LongestAgree
  <1>2. k \in Nat
    OBVIOUS
  <1>3. \A i \in Occurrences(trace) :
           /\ Agreement(trace, i) \in Nat
           /\ IF i \in Agreeing(trace, k) THEN Agreement(trace, i) = k + 1
              ELSE Agreement(trace, i) <= k
    BY <1>1, <1>2, AgreementIs
  <1> DEFINE best == {o \in Occurrences(trace) :
                 \A p \in Occurrences(trace) : Agreement(trace, o) >= Agreement(trace, p)}
  <1>4. Agreeing(trace, k) \subseteq Occurrences(trace)
    BY DEF Agreeing
  <1>5. ASSUME NEW o \in Occurrences(trace)
        PROVE  o \in best <=> o \in Agreeing(trace, k)
    <2>1. CASE o \in Agreeing(trace, k)
      <3>1. \A p \in Occurrences(trace) : Agreement(trace, o) >= Agreement(trace, p)
        <4> TAKE p \in Occurrences(trace)
        <4>1. Agreement(trace, p) \in Nat /\ Agreement(trace, p) <= k + 1
          BY <1>2, <1>3
        <4>2. Agreement(trace, o) = k + 1
          BY <2>1, <1>3
        <4> QED
          BY <4>1, <4>2, <1>2
      <3> QED
        BY <2>1, <3>1
    <2>2. CASE o \notin Agreeing(trace, k)
      <3>1. PICK p \in Agreeing(trace, k) : TRUE
        BY <1>1
      <3>2. Agreement(trace, p) = k + 1 /\ Agreement(trace, o) <= k /\ Agreement(trace, o) \in Nat
        BY <2>2, <3>1, <1>3, <1>4
      <3>3. ~(Agreement(trace, o) >= Agreement(trace, p))
        BY <3>2, <1>2
      <3> QED
        BY <2>2, <3>3, <1>4
    <2> QED
      BY <2>1, <2>2
  <1>6. best = Longest(trace)
    <2>1. best \subseteq Occurrences(trace)
      OBVIOUS
    <2> HIDE DEF best
    <2> QED
      BY <2>1, <1>1, <1>4, <1>5
  <1>7. Successors(trace) = {trace[i + 1] : i \in best}
    BY DEF Successors
  <1> HIDE DEF best
  <1> QED
    BY <1>1, <1>4, <1>6, <1>7 DEF NextModes

\* The mode at a time is the one that the last presence to have ended was left for.
LEMMA ModeAtFollows ==
    ASSUME HistoryInv, NEW t \in Past
    PROVE  \E k \in 1..Len(presences) :
              /\ presences[k].to <= t /\ ModeAt(t) = presences[k].exit
              /\ \A i \in 1..Len(presences) : presences[i].to <= t => i <= k
  <1> DEFINE n == Len(presences)
             T == {j \in 1..n : presences[j].from <= t /\ t < presences[j].to}
             h == IF T # {} THEN Min(T) ELSE 0
  <1>1. /\ presences \in Seq(Presence) /\ Linked(presences, latestMode, latestTime)
        /\ latestTime \in 0..MaxTime /\ t \in Nat /\ presences[1].to <= t
        /\ Last(presences) = presences[n] /\ Last(presences).exit = latestMode
    BY PastIsSeen, Times, LastPresence DEF HistoryInv, Seen, Linked, HistoryTypeOK
  <1>2. /\ n \in Nat /\ n >= 1
        /\ \A k \in 1..n : presences[k].from \in Nat /\ presences[k].to \in Nat
        /\ \A i, k \in 1..n : i <= k => presences[i].to <= presences[k].to
        /\ \A k \in 1..(n - 1) : presences[k].exit = presences[k + 1].mode
                                 /\ presences[k].to = presences[k + 1].from
    <2>1. presences # <<>>
      BY <1>1 DEF Linked
    <2>2. /\ n \in Nat /\ n >= 1
          /\ \A k \in 1..n : presences[k].from \in Nat /\ presences[k].to \in Nat
      BY <2>1, <1>1, PresencesAre
    <2> QED
      BY <2>2, <1>1 DEF Linked
  <1>3. SelectInSeq(presences, LAMBDA p : p.from <= t /\ t < p.to) = h
    BY DEF SelectInSeq
  <1>4. CASE t >= Last(presences).to
    <2>1. T = {}
      BY <1>1, <1>4, Holder
    <2>2. ModeAt(t) = latestMode
      BY <1>3, <2>1 DEF ModeAt
    <2>3. n \in 1..n /\ \A i \in 1..n : i <= n
      BY <1>2
    <2> QED
      BY <2>2, <2>3, <1>1, <1>4
  <1>5. CASE ~(t >= Last(presences).to)
    <2>1. Last(presences).to \in Nat
      BY <1>1, <1>2
    <2>2. PICK j \in 2..n : T = {j}
      <3>1. t < Last(presences).to
        BY <2>1, <1>1, <1>5
      <3> QED
        BY <3>1, <1>1, Holder
    <2>3. h = j /\ j # 0 /\ j \in T /\ j \in Nat
      BY <2>2, OnlyOne
    <2>4. presences[j].from <= t /\ t < presences[j].to
      BY <2>3
    <2> HIDE DEF T, h
    <2>5. ModeAt(t) = presences[j].mode
      BY <1>3, <2>3 DEF ModeAt
    <2> DEFINE k == j - 1
    <2>6. k \in 1..(n - 1) /\ k + 1 = j /\ k \in 1..n
      BY <1>2
    <2> HIDE DEF k
    <2>7. presences[k].exit = presences[j].mode /\ presences[k].to = presences[j].from
      BY <2>6, <1>2
    <2>8. ASSUME NEW i \in 1..n, presences[i].to <= t
          PROVE  i <= k
      <3> SUFFICES ASSUME ~(i <= k) PROVE FALSE
        OBVIOUS
      <3>1. j <= i
        BY <2>6, <1>2
      <3>2. presences[j].to <= presences[i].to
        BY <3>1, <1>2
      <3> QED
        BY <2>4, <2>8, <3>2, <1>1, <1>2
    <2> QED
      BY <2>4, <2>5, <2>6, <2>7, <2>8
  <1> QED
    BY <1>4, <1>5

\* A trace of the past ends with another mode than the one of its time.
LEMMA TraceEnds ==
    ASSUME HistoryInv, NEW s \in Past, NEW m \in Modes, LeftBefore(m, s, s)
    PROVE  /\ TraceAt(s) \in Seq(Modes) /\ HasTrace(s) /\ TraceAt(s) # <<>>
           /\ Last(TraceAt(s)) # ModeAt(s)
           /\ \E i \in 1..Len(TraceAt(s)) : TraceAt(s)[i] = m
  <1> DEFINE left == {k \in 1..Len(presences) : presences[k].mode # NoMode /\ presences[k].to <= s}
             trace == TraceAt(s)
  <1>1. /\ HasTrace(s) /\ Len(trace) = Cardinality(left)
        /\ \A k \in left : trace[Rank(left, k)] = presences[k].mode
    BY InvSeen, TracesOfPast DEF Rank
  <1>2. trace \in Seq(Modes)
    <2>1. traces \in Seq(TraceEntry) /\ s \in Nat /\ Len(traces) \in Nat
          /\ \A k \in 1..Len(traces) : traces[k].time \in Nat /\ traces[k].trace \in Seq(Modes)
      <3>1. traces \in Seq(TraceEntry) /\ s \in Nat
        BY PastIsSeen, Times DEF HistoryInv
      <3>2. \A e \in TraceEntry : e.time \in Nat /\ e.trace \in Seq(Modes)
        BY TimesAssumption DEF TraceEntry
      <3> QED
        BY <3>1, <3>2
    <2>2. LastUpTo(traces, s) \in 1..Len(traces)
      BY <2>1, <1>1, LastUpToIs DEF HasTrace
    <2> QED
      BY <2>1, <2>2 DEF TraceAt
  <1>3. PICK K \in 1..Len(presences) :
              /\ presences[K].to <= s /\ ModeAt(s) = presences[K].exit
              /\ \A i \in 1..Len(presences) : presences[i].to <= s => i <= K
    BY ModeAtFollows
  <1>4. PICK k \in 1..Len(presences) : presences[k].mode = m /\ s > presences[k].to
    BY DEF LeftBefore
  <1>5. /\ presences \in Seq(Presence) /\ s \in Nat /\ Len(presences) \in Nat
        /\ presences[k].to \in Nat /\ presences[K].exit # presences[K].mode
        /\ presences[K].mode = NoMode => K = 1
    BY PastIsSeen, Times, PresencesAre DEF HistoryInv, Seen, Linked
  <1>6. k \in left /\ k <= K /\ K \in left
    <2>1. presences[k].to <= s /\ k <= K /\ m # NoMode
      BY <1>3, <1>4, <1>5, ModesAssumption
    <2>2. presences[K].mode # NoMode
      <3> SUFFICES ASSUME presences[K].mode = NoMode PROVE FALSE
        OBVIOUS
      <3>1. k = K
        BY <2>1, <1>5
      <3> QED
        BY <2>1, <3>1, <1>4
    <2> QED
      BY <2>1, <2>2, <1>3, <1>4
  <1>7. /\ Cardinality(left) \in Nat /\ Rank(left, k) \in 1..Cardinality(left)
        /\ Rank(left, K) = Cardinality(left)
    <2>1. IsFiniteSet(left) /\ left \subseteq Int
      <3>1. IsFiniteSet(1..Len(presences)) /\ left \subseteq 1..Len(presences)
        <4>1. IsFiniteSet(1..Len(presences))
          BY <1>5, FS_Interval
        <4> QED
          BY <4>1
      <3>2. \A i \in left : i \in Int
        OBVIOUS
      <3> HIDE DEF left
      <3> QED
        BY <3>1, <3>2, FS_Subset
    <2>2. {i \in left : i <= K} = left
      BY <1>3
    <2>3. Rank(left, K) = Cardinality(left)
      BY <2>2 DEF Rank
    <2> HIDE DEF left
    <2>4. k \in left
      BY <1>6
    <2> QED
      BY <2>1, <2>3, <2>4, PlacesRanked
  <1> HIDE DEF left, trace
  <1>8. Len(trace) >= 1 /\ trace[Len(trace)] = presences[K].mode /\ trace[Rank(left, k)] = m
    BY <1>1, <1>4, <1>6, <1>7
  <1>9. trace # <<>> /\ Last(trace) # ModeAt(s)
    BY <1>2, <1>3, <1>5, <1>8 DEF Last
  <1> QED
    BY <1>1, <1>2, <1>7, <1>8, <1>9 DEF trace

\* What follows a trace with a mode that occurs in it.
LEMMA FollowedTrace ==
    ASSUME NEW S, NEW trace \in Seq(S), NEW m \in S, trace # <<>>, Last(trace) # m,
           NEW i \in 1..Len(trace), trace[i] = m
    PROVE  LET full == Merge(trace, <<m>>)
           IN  /\ full = Append(trace, m) /\ full \in Seq(S)
               /\ NextModes(full) # {} /\ NextModes(full) = Successors(full)
               /\ \A q \in NextModes(full) : NextModes(Append(full, q)) # {}
  <1> DEFINE full == Append(trace, m)
             N == Len(trace)
  <1>1. Merge(trace, <<m>>) = full
    <2>1. Head(<<m>>) = m /\ trace \o <<m>> = Append(trace, m)
      OBVIOUS
    <2> QED
      BY <2>1 DEF Merge
  <1>2. /\ full \in Seq(S) /\ Len(full) = N + 1 /\ full[N + 1] = m /\ full # <<>> /\ N \in Nat
        /\ \A k \in 1..N : full[k] = trace[k]
    OBVIOUS
  <1> HIDE DEF full
  <1>3. i \in Occurrences(full)
    BY <1>2 DEF Occurrences, Last
  <1>4. /\ NextModes(full) = Successors(full) /\ NextModes(full) # {}
        /\ \A q \in NextModes(full) : \E k \in Occurrences(full) : q = full[k + 1]
    BY <1>2, <1>3, NextModesAreSuccessors
  <1>5. ASSUME NEW q \in NextModes(full)
        PROVE  NextModes(Append(full, q)) # {}
    <2>1. PICK k \in Occurrences(full) : q = full[k + 1]
      BY <1>4
    <2>2. k + 1 \in 1..Len(full) /\ k + 1 \in 1..(N + 1)
      BY <1>2 DEF Occurrences
    <2> DEFINE u == Append(full, q)
    <2>3. q \in S
      BY <2>1, <2>2, <1>2
    <2>4. u \in Seq(S) /\ Len(u) = N + 2 /\ u[N + 2] = q /\ u[k + 1] = q /\ u # <<>>
      BY <2>1, <2>2, <2>3, <1>2
    <2> HIDE DEF u
    <2>5. k + 1 \in Occurrences(u)
      BY <2>2, <2>4, <1>2 DEF Occurrences, Last
    <2>6. NextModes(u) # {}
      BY <2>4, <2>5, NextModesAreSuccessors
    <2> QED
      BY <2>6 DEF u
  <1> QED
    BY <1>1, <1>2, <1>4, <1>5

LEMMA NextModesOfPast == HistoryInv => NextModesExist
  <1> SUFFICES ASSUME HistoryInv, NEW s \in Past, CanLookAhead(s, s)
               PROVE  LET full == Merge(TraceAt(s), <<ModeAt(s)>>)
                      IN  /\ TraceAt(s) # <<>>
                          /\ NextModes(full) # {} /\ NextModes(full) = Successors(full)
                          /\ \A m \in NextModes(full) : NextModes(Append(full, m)) # {}
    BY DEF NextModesExist
  <1>1. ModeAt(s) \in Modes /\ LeftBefore(ModeAt(s), s, s)
    BY ModeAtIs DEF CanLookAhead, HistoryInv
  <1>2. /\ TraceAt(s) \in Seq(Modes) /\ TraceAt(s) # <<>> /\ Last(TraceAt(s)) # ModeAt(s)
        /\ \E i \in 1..Len(TraceAt(s)) : TraceAt(s)[i] = ModeAt(s)
    BY <1>1, TraceEnds
  <1> QED
    BY <1>1, <1>2, FollowedTrace

\* Whenever the robot can be looked ahead, the modes that may follow and those that
\* follow them are never none, and they are those that next_modes is for: the
\* assertion of lookahead_job_factory.cpp:45, however long the robot has gone and
\* whatever is purged.
THEOREM NextModesExistHolds == HistorySpec => []NextModesExist
  BY HistoryInvariance, NextModesOfPast, PTL

-----------------------------------------------------------------------------
(* Modes: operator< orders them, and the modes that are one key of a map are *)
(* those that operator== takes for equal.                                   *)
LEMMA EntryOrder ==
    /\ \A e \in Entry : ~EntryLess(e, e)
    /\ \A e1, e2, e3 \in Entry : EntryLess(e1, e2) /\ EntryLess(e2, e3) => EntryLess(e1, e3)
    /\ \A e1, e2 \in Entry : EntryLess(e1, e2) \/ EntryLess(e2, e1) \/ e1 = e2
  <1>1. \A e1, e2 \in Entry : e1.variable = e2.variable /\ e1.value = e2.value => e1 = e2
    BY DEF Entry
  <1>2. \A e \in Entry : e.variable \in Nat /\ e.value \in Nat
    BY DEF Entry
  <1> QED
    BY <1>1, <1>2 DEF EntryLess

LEMMA ModeEntries ==
    ASSUME NEW q \in ModeValue
    PROVE  Len(q) \in Nat /\ \A i \in 1..Len(q) : q[i] \in Entry
  BY DEF ModeValue

\* operator< is a strict order (mode.cpp:78-94), as a map demands of its keys.
THEOREM LessThanIsStrictOrder ==
    /\ \A q \in ModeValue : ~LessThan(q, q)
    /\ \A q1, q2, q3 \in ModeValue : LessThan(q1, q2) /\ LessThan(q2, q3) => LessThan(q1, q3)
  <1>1. ASSUME NEW q \in ModeValue, LessThan(q, q)
        PROVE  FALSE
    <2>1. PICK n \in 1..Len(q) : DecidedAt(q, q, n)
      BY <1>1 DEF LessThan
    <2>2. n # Len(q) + 1 /\ q[n] \in Entry
      BY ModeEntries
    <2> QED
      BY <2>1, <2>2, EntryOrder DEF DecidedAt
  <1>2. ASSUME NEW q1 \in ModeValue, NEW q2 \in ModeValue, NEW q3 \in ModeValue,
               LessThan(q1, q2), LessThan(q2, q3)
        PROVE  LessThan(q1, q3)
    <2>1. PICK m \in 1..Len(q2) : m <= Len(q1) + 1 /\ DecidedAt(q1, q2, m)
      BY <1>2 DEF LessThan
    <2>2. PICK n \in 1..Len(q3) : n <= Len(q2) + 1 /\ DecidedAt(q2, q3, n)
      BY <1>2 DEF LessThan
    <2>3. /\ Len(q1) \in Nat /\ Len(q2) \in Nat /\ Len(q3) \in Nat
          /\ \A i \in 1..Len(q1) : q1[i] \in Entry
          /\ \A i \in 1..Len(q2) : q2[i] \in Entry
          /\ \A i \in 1..Len(q3) : q3[i] \in Entry
      BY ModeEntries
    <2>4. CASE m < n
      <3>1. m \in 1..Len(q3) /\ q2[m] = q3[m]
        BY <2>2, <2>3, <2>4 DEF DecidedAt
      <3>2. \A i \in 1..(m - 1) : q1[i] = q3[i]
        BY <2>1, <2>2, <2>3, <2>4 DEF DecidedAt
      <3>3. DecidedAt(q1, q3, m)
        BY <2>1, <3>1, <3>2 DEF DecidedAt
      <3> QED
        BY <2>1, <3>1, <3>3 DEF LessThan
    <2>5. CASE n < m
      <3>1. n <= Len(q1) /\ n <= Len(q2) /\ q1[n] = q2[n]
        BY <2>1, <2>2, <2>3, <2>5 DEF DecidedAt
      <3>2. \A i \in 1..(n - 1) : q1[i] = q3[i]
        BY <2>1, <2>2, <2>3, <2>5 DEF DecidedAt
      <3>3. EntryLess(q2[n], q3[n])
        BY <2>2, <2>3, <3>1 DEF DecidedAt
      <3>4. DecidedAt(q1, q3, n)
        BY <3>1, <3>2, <3>3 DEF DecidedAt
      <3> QED
        BY <2>3, <3>1, <3>4 DEF LessThan
    <2>6. CASE n = m
      <3>1. EntryLess(q2[n], q3[n])
        BY <2>1, <2>2, <2>3, <2>6 DEF DecidedAt
      <3>2. \A i \in 1..(n - 1) : q1[i] = q3[i]
        BY <2>1, <2>2, <2>3, <2>6 DEF DecidedAt
      <3>3. n = Len(q1) + 1 \/ (n <= Len(q1) /\ EntryLess(q1[n], q3[n]))
        <4>1. n = Len(q1) + 1 \/ (n <= Len(q1) /\ EntryLess(q1[n], q2[n]))
          BY <2>1, <2>6 DEF DecidedAt
        <4> QED
          BY <4>1, <2>1, <2>3, <2>6, <3>1, EntryOrder
      <3>4. DecidedAt(q1, q3, n)
        BY <3>2, <3>3 DEF DecidedAt
      <3> QED
        BY <2>1, <2>2, <2>6, <3>4 DEF LessThan
    <2> QED
      BY <2>4, <2>5, <2>6
  <1> QED
    BY <1>1, <1>2

\* Modes are equal unless one is less than the other: the modes under one key of
\* the samples' map are those that operator== finds equal, whenever it does not
\* fail (mode.cpp:52-94, state.hpp:184).
THEOREM KeysAreEqualModes ==
    ASSUME NEW q1 \in ModeValue, NEW q2 \in ModeValue
    PROVE  q1 = q2 <=> ~LessThan(q1, q2) /\ ~LessThan(q2, q1)
  <1>1. Len(q1) \in Nat /\ Len(q2) \in Nat
        /\ (\A i \in 1..Len(q1) : q1[i] \in Entry) /\ (\A i \in 1..Len(q2) : q2[i] \in Entry)
    BY ModeEntries
  <1>2. ASSUME q1 # q2
        PROVE  LessThan(q1, q2) \/ LessThan(q2, q1)
    <2> DEFINE T == {i \in Nat : i > 0 /\ (i > Len(q1) \/ i > Len(q2) \/ q1[i] # q2[i])}
    <2>1. PICK n \in T : \A i \in T : ~(i < n)
      <3>1. T # {} /\ T \subseteq Nat
        <4>1. Len(q1) + 1 \in T
          BY <1>1
        <4> QED BY <4>1
      <3> HIDE DEF T
      <3> QED BY <3>1, LeastOf
    <2>2. n \in Nat \ {0} /\ n <= Len(q1) + 1 /\ n <= Len(q2) + 1
      <3>1. Len(q1) + 1 \in T /\ Len(q2) + 1 \in T
        BY <1>1
      <3> QED BY <1>1, <2>1, <3>1
    <2>3. \A i \in 1..(n - 1) : i <= Len(q1) /\ i <= Len(q2) /\ q1[i] = q2[i]
      BY <1>1, <2>1, <2>2
    <2>4. CASE n <= Len(q1) /\ n <= Len(q2)
      <3>1. q1[n] # q2[n] /\ q1[n] \in Entry /\ q2[n] \in Entry
        BY <1>1, <2>1, <2>2, <2>4
      <3>2. EntryLess(q1[n], q2[n]) \/ EntryLess(q2[n], q1[n])
        BY <3>1, EntryOrder
      <3>3. DecidedAt(q1, q2, n) \/ DecidedAt(q2, q1, n)
        BY <2>3, <2>4, <3>2 DEF DecidedAt
      <3> QED
        BY <1>1, <2>2, <2>4, <3>3 DEF LessThan
    <2>5. CASE n = Len(q1) + 1 /\ n <= Len(q2)
      BY <1>1, <2>2, <2>3, <2>5 DEF LessThan, DecidedAt
    <2>6. CASE n = Len(q2) + 1 /\ n <= Len(q1)
      BY <1>1, <2>2, <2>3, <2>6 DEF LessThan, DecidedAt
    <2>7. CASE n = Len(q1) + 1 /\ n = Len(q2) + 1
      <3>1. q1 \in Seq(Entry) /\ q2 \in Seq(Entry) /\ Len(q1) = Len(q2)
            /\ \A i \in 1..Len(q1) : q1[i] = q2[i]
        BY <1>1, <2>3, <2>7 DEF ModeValue
      <3>2. q1 = q2
        BY <3>1, SeqEqual
      <3> QED BY <1>2, <3>2
    <2> QED
      BY <1>1, <2>2, <2>4, <2>5, <2>6, <2>7
  <1> QED
    BY <1>2, LessThanIsStrictOrder

-----------------------------------------------------------------------------
(* Samples of segments, for all samples on an axis.                          *)
Box == [lower : Int, upper : Int]

\* Samples, with whatever boxes: those that update makes are among them.
SegmentSample == [thickness : Nat, head : Box, tail : Box]

\* Enlarging keeps a box that of points, and puts the new point within it.
LEMMA EnlargeBounds ==
    ASSUME NEW b \in Box, NEW p \in Point,
           b = EmptyBox \/ (b.lower \in Point /\ b.upper \in Point /\ b.lower <= b.upper)
    PROVE  LET e == Enlarge(b, p)
           IN  /\ e \in Box /\ e.lower \in Point /\ e.upper \in Point
               /\ e.lower <= p /\ p <= e.upper
               /\ b # EmptyBox => e.lower <= b.lower /\ b.upper <= e.upper
  BY InfinityAssumption DEF Box, EmptyBox, Enlarge, Point, Lesser, Greater

\* Points may be merged into a box in any order, and twice: the samples that
\* messages update do not depend on the order of the points in a message
\* (body.cpp:161-195).
THEOREM MergingIsUnordered ==
    ASSUME NEW b \in Box, NEW p \in Point, NEW q \in Point
    PROVE  /\ Enlarge(Enlarge(b, p), q) = Enlarge(Enlarge(b, q), p)
           /\ Enlarge(Enlarge(b, p), p) = Enlarge(b, p)
  BY InfinityAssumption DEF Box, Enlarge, Point, Lesser, Greater

\* A point of the head is within the error of the head's centre, one of the tail
\* within that of the tail's: the capsule of a sample contains every point that
\* was merged into it (body.cpp:197-201, geometry.cpp:212-219).
THEOREM CapsuleContainsPoints ==
    ASSUME NEW s \in SegmentSample, NEW p \in Int, ~IsEmpty(s)
    PROVE  /\ s.head.lower <= p /\ p <= s.head.upper => Apart(2 * p, HeadCentre(s)) <= Error(s)
           /\ s.tail.lower <= p /\ p <= s.tail.upper => Apart(2 * p, TailCentre(s)) <= Error(s)
  <1> DEFINE h == s.head  t == s.tail
  <1>1. h.lower \in Int /\ h.upper \in Int /\ t.lower \in Int /\ t.upper \in Int
    BY DEF SegmentSample, Box
  <1>2. Error(s) >= Radius(h) /\ Error(s) >= Radius(t)
    BY <1>1 DEF Error, Greater, Radius
  <1>3. Error(s) \in Int
    BY <1>1 DEF Error, Greater, Radius
  <1> QED
    BY <1>1, <1>2, <1>3 DEF Apart, HeadCentre, TailCentre, Centre, Radius

\* The axis and the reach of a sample are numbers, the axis being in order.
LEMMA SampleTypes ==
    ASSUME NEW s \in SegmentSample
    PROVE  /\ HeadCentre(s) \in Int /\ TailCentre(s) \in Int
           /\ Axis(s).lower \in Int /\ Axis(s).upper \in Int
           /\ Axis(s).lower <= Axis(s).upper
           /\ Axis(s).lower <= HeadCentre(s) /\ HeadCentre(s) <= Axis(s).upper
           /\ Axis(s).lower <= TailCentre(s) /\ TailCentre(s) <= Axis(s).upper
           /\ Axis(s).lower \in {HeadCentre(s), TailCentre(s)}
           /\ Axis(s).upper \in {HeadCentre(s), TailCentre(s)}
           /\ Reach(s) \in Nat
  <1>1. s.head.lower \in Int /\ s.head.upper \in Int /\ s.tail.lower \in Int
        /\ s.tail.upper \in Int /\ s.thickness \in Nat
    BY DEF SegmentSample, Box
  <1>2. HeadCentre(s) \in Int /\ TailCentre(s) \in Int
    BY <1>1 DEF HeadCentre, TailCentre, Centre
  <1>3. Error(s) \in Nat
    BY <1>1 DEF Error, IsEmpty, IsEmptyBox, Greater, Radius
  <1>4. Reach(s) \in Nat
    BY <1>1, <1>3 DEF Reach, Thickness
  <1> QED
    BY <1>2, <1>4 DEF Axis, Hull, Lesser, Greater

\* Samples whose bounding boxes are disjoint do not collide, so that the test of
\* the boxes never hides a collision, and whether samples intersect is whether
\* the distance that the barriers are made of is zero: discarding and reusing
\* jobs mean the same by a collision (body.cpp:217-220, barrier.cpp:221-225).
THEOREM IntersectsIffNoDistance ==
    ASSUME NEW s1 \in SegmentSample, NEW s2 \in SegmentSample
    PROVE  Intersects(s1, s2) <=> CapsuleRobot(s1, s2) = 0
  <1> DEFINE l1 == Axis(s1).lower  u1 == Axis(s1).upper  r1 == Reach(s1)
             l2 == Axis(s2).lower  u2 == Axis(s2).upper  r2 == Reach(s2)
             d == SegmentDistance(s1, s2)
  <1>1. l1 \in Int /\ u1 \in Int /\ r1 \in Nat /\ l2 \in Int /\ u2 \in Int /\ r2 \in Nat
    BY SampleTypes
  <1>2. d \in Int /\ d >= l1 - u2 /\ d >= l2 - u1 /\ d >= 0
    BY <1>1 DEF SegmentDistance, Greater
  <1>3. Disjoint(BoundingBox(s1), BoundingBox(s2)) <=> u1 + r1 < l2 - r2 \/ l1 - r1 > u2 + r2
    BY DEF Disjoint, BoundingBox, Widen
  <1>4. Disjoint(BoundingBox(s1), BoundingBox(s2)) => d > r1 + r2
    <2> HIDE DEF l1, u1, r1, l2, u2, r2, d
    <2> QED BY <1>1, <1>2, <1>3
  <1>5. CapsuleRobot(s1, s2) = 0 <=> d <= r1 + r2
    <2>1. CapsuleRobot(s1, s2) = Greater(0, d - (r1 + r2))
      BY DEF CapsuleRobot
    <2> HIDE DEF r1, r2, d
    <2> QED BY <1>1, <1>2, <2>1 DEF Greater
  <1>6. Intersects(s1, s2) <=> ~Disjoint(BoundingBox(s1), BoundingBox(s2)) /\ d <= r1 + r2
    BY DEF Intersects
  <1> HIDE DEF l1, u1, r1, l2, u2, r2, d
  <1> QED
    BY <1>1, <1>2, <1>4, <1>5, <1>6

\* What a barrier of capsules stands on: a robot sample is no nearer to the human
\* sample of the barrier than to another one, plus the distance of the two
\* (barrier.cpp:215-225).
THEOREM CapsuleTriangle ==
    ASSUME NEW h1 \in SegmentSample, NEW h2 \in SegmentSample, NEW r \in SegmentSample
    PROVE  CapsuleRobot(h1, r) <= CapsuleHuman(h1, h2) + CapsuleRobot(h2, r)
  <1> DEFINE l1 == Axis(h1).lower  u1 == Axis(h1).upper  e1 == Reach(h1)
             l2 == Axis(h2).lower  u2 == Axis(h2).upper  e2 == Reach(h2)
             l == Axis(r).lower    u == Axis(r).upper    e == Reach(r)
             far == Greater(PointDistance(HeadCentre(h2), Axis(h1)),
                            PointDistance(TailCentre(h2), Axis(h1)))
             d1 == SegmentDistance(h1, r)
             d2 == SegmentDistance(h2, r)
  <1>1. /\ l1 \in Int /\ u1 \in Int /\ e1 \in Nat /\ l1 <= u1
        /\ l2 \in Int /\ u2 \in Int /\ e2 \in Nat /\ l2 <= u2
        /\ l \in Int /\ u \in Int /\ e \in Nat /\ l <= u
    BY SampleTypes
  <1>2. far \in Int /\ far >= 0 /\ far >= l1 - l2 /\ far >= u2 - u1
    <2>1. far >= PointDistance(l2, Axis(h1)) /\ far >= PointDistance(u2, Axis(h1)) /\ far \in Int
      <3> DEFINE a == PointDistance(HeadCentre(h2), Axis(h1))
                 b == PointDistance(TailCentre(h2), Axis(h1))
      <3>1. a \in Int /\ b \in Int
        BY SampleTypes DEF PointDistance
      <3>2. far >= a /\ far >= b /\ far \in Int
        BY <3>1 DEF Greater
      <3> QED BY <3>2, SampleTypes
    <2>2. /\ PointDistance(l2, Axis(h1)) >= l1 - l2 /\ PointDistance(l2, Axis(h1)) >= 0
          /\ PointDistance(u2, Axis(h1)) >= u2 - u1
          /\ PointDistance(l2, Axis(h1)) \in Int /\ PointDistance(u2, Axis(h1)) \in Int
      BY <1>1 DEF PointDistance
    <2> HIDE DEF far
    <2> QED BY <1>1, <2>1, <2>2
  <1>3. d1 = Greater(0, Greater(l1 - u, l - u1)) /\ d2 = Greater(0, Greater(l2 - u, l - u2))
    BY DEF SegmentDistance
  <1>4. /\ CapsuleRobot(h1, r) = Greater(0, d1 - (e1 + e))
        /\ CapsuleRobot(h2, r) = Greater(0, d2 - (e2 + e))
        /\ CapsuleHuman(h1, h2) = Greater(0, far + e2 - e1)
    BY DEF CapsuleRobot, CapsuleHuman
  <1> HIDE DEF l1, u1, e1, l2, u2, e2, l, u, e, far, d1, d2
  <1>5. d1 <= far + d2 /\ d1 \in Int /\ d2 \in Int
    BY <1>1, <1>2, <1>3 DEF Greater
  <1> QED
    BY <1>1, <1>2, <1>4, <1>5 DEF Greater

\* The same of spheres, with which a user may make the barriers instead
\* (barrier.cpp:202-210).
THEOREM SphereTriangle ==
    ASSUME NEW h1 \in SegmentSample, NEW h2 \in SegmentSample, NEW r \in SegmentSample
    PROVE  SphereRobot(h1, r) <= SphereHuman(h1, h2) + SphereRobot(h2, r)
  <1> DEFINE c1 == SphereCentre(h1)  e1 == SphereRadius(h1)
             c2 == SphereCentre(h2)  e2 == SphereRadius(h2)
             axis == [lower |-> 2 * Axis(r).lower, upper |-> 2 * Axis(r).upper]
             e == 2 * Reach(r)
             p1 == PointDistance(c1, axis)
             p2 == PointDistance(c2, axis)
  <1>1. c1 \in Int /\ c2 \in Int /\ e1 \in Int /\ e2 \in Int /\ e \in Int
    BY SampleTypes DEF SphereCentre, SphereRadius, Apart
  <1>2. axis.lower \in Int /\ axis.upper \in Int /\ axis.lower <= axis.upper
    BY SampleTypes
  <1>3. p1 \in Int /\ p2 \in Int /\ p1 <= Apart(c1, c2) + p2 /\ Apart(c1, c2) \in Int
    <2> HIDE DEF c1, c2, axis
    <2> QED BY <1>1, <1>2 DEF PointDistance, Apart
  <1>4. /\ SphereRobot(h1, r) = Greater(0, p1 - e - e1)
        /\ SphereRobot(h2, r) = Greater(0, p2 - e - e2)
        /\ SphereHuman(h1, h2) = Greater(0, Apart(c1, c2) + e2 - e1)
    BY DEF SphereRobot, SphereHuman
  <1> HIDE DEF c1, c2, e1, e2, e, p1, p2, axis
  <1> QED
    BY <1>1, <1>3, <1>4 DEF Greater

-----------------------------------------------------------------------------
(* The check of a robot sample against a section.                            *)
LEMMA BarriersAreSequences ==
    ASSUME NEW section \in Section
    PROVE  /\ section.human \in HumanSamples
           /\ section.barriers \in Seq(Barrier)
           /\ Len(section.barriers) \in Nat
           /\ section.barriers # <<>> =>
                 /\ Len(section.barriers) > 0
                 /\ Last(section.barriers) = section.barriers[Len(section.barriers)]
                 /\ Last(section.barriers) \in Barrier
BY EmptySeq DEF Section, Last

LEMMA RobotDistances ==
    ASSUME NEW h \in HumanSamples, NEW r \in RobotSamples
    PROVE  RobotDistance[h][r] \in Nat
BY DistanceAssumption

(* The triangle inequality is what reusing rests on: what is as far from a    *)
(* human sample as a barrier says is clear of every human sample nearer to   *)
(* it than that (barrier.cpp:174-178).                                      *)
LEMMA BarrierClears ==
    ASSUME NEW h1 \in HumanSamples, NEW h2 \in HumanSamples, NEW r \in RobotSamples,
           NEW d \in Nat, d <= RobotDistance[h1][r], HumanDistance[h1][h2] < d
    PROVE  RobotDistance[h2][r] > 0
<1>1. RobotDistance[h1][r] <= HumanDistance[h1][h2] + RobotDistance[h2][r]
  BY DistanceAssumption
<1>2. /\ RobotDistance[h1][r] \in Nat /\ RobotDistance[h2][r] \in Nat
      /\ HumanDistance[h1][h2] \in Nat
  BY DistanceAssumption
<1> QED
  BY <1>1, <1>2

\* What a check makes of the barriers: another one, or a longer last one.
Appended(section, r, index) ==
    Append(section.barriers,
           [distance |-> RobotDistance[section.human][r], range |-> RangeAt(index)])
Extended(section, index) ==
    Append(Front(section.barriers), UpdateWith(Last(section.barriers), index))

LEMMA CheckCases ==
    ASSUME NEW section \in Section, NEW r \in RobotSamples, NEW index \in Index
    PROVE  LET checked == Check(section, r, index).barriers
           IN  \/ SectionCollides(section) /\ checked = section.barriers
               \/ /\ ~SectionCollides(section) /\ Nearer(section, r)
                  /\ checked = Appended(section, r, index)
               \/ /\ ~SectionCollides(section) /\ ~Nearer(section, r)
                  /\ section.barriers # <<>>
                  /\ RobotDistance[section.human][r] >= Last(section.barriers).distance
                  /\ checked = Extended(section, index)
<1>1. section.human \in HumanSamples /\ RobotDistance[section.human][r] \in Nat
  BY RobotDistances, BarriersAreSequences
<1>2. section.barriers # <<>> => Last(section.barriers).distance \in Nat
  BY BarriersAreSequences DEF Barrier
<1>3. ~Nearer(section, r) =>
        /\ section.barriers # <<>>
        /\ RobotDistance[section.human][r] >= Last(section.barriers).distance
  BY <1>1, <1>2 DEF Nearer
<1> QED
  BY <1>3 DEF Check, Appended, Extended, Section

(* An update keeps the distance of the barrier.                             *)
LEMMA UpdateKeepsDistance ==
    ASSUME NEW barrier \in Barrier, NEW index \in Index
    PROVE  UpdateWith(barrier, index).distance = barrier.distance
BY DEF UpdateWith, Barrier

(* An extended sequence differs in its last barrier, whose distance stays.  *)
LEMMA ExtendedProperties ==
    ASSUME NEW section \in Section, NEW index \in Index, section.barriers # <<>>
    PROVE  /\ Len(Extended(section, index)) = Len(section.barriers)
           /\ \A i \in 1..Len(section.barriers) :
                 Extended(section, index)[i].distance = section.barriers[i].distance
           /\ Last(Extended(section, index)) = UpdateWith(Last(section.barriers), index)
<1> DEFINE b == section.barriers
           n == Len(b)
           front == Front(b)
           last == UpdateWith(Last(b), index)
<1>1. b \in Seq(Barrier) /\ n \in Nat /\ n > 0 /\ Last(b) = b[n] /\ b[n] \in Barrier
  BY BarriersAreSequences
<1>2. /\ front \in Seq(Barrier) /\ Len(front) = n - 1
      /\ \A i \in 1..(n - 1) : front[i] = b[i]
  <2>1. front = SubSeq(b, 1, n - 1)
    BY DEF Front
  <2> QED
    BY <1>1, <2>1, SubSeqProperties
<1>3. front \in Seq(Barrier \cup {last}) /\ last \in Barrier \cup {last}
  BY <1>2
<1>4. /\ Len(Append(front, last)) = n
      /\ \A i \in 1..(n - 1) : Append(front, last)[i] = b[i]
      /\ Append(front, last)[n] = last
  BY <1>1, <1>2, <1>3, AppendProperties
<1>5. last.distance = b[n].distance
  BY <1>1, UpdateKeepsDistance
<1>6. \A i \in 1..n : Append(front, last)[i].distance = b[i].distance
  BY <1>1, <1>4, <1>5
<1> QED
  BY <1>1, <1>4, <1>6 DEF Extended, Last

LEMMA AppendedProperties ==
    ASSUME NEW section \in Section, NEW r \in RobotSamples, NEW index \in Index
    PROVE  /\ Len(Appended(section, r, index)) = Len(section.barriers) + 1
           /\ \A i \in 1..Len(section.barriers) :
                 Appended(section, r, index)[i] = section.barriers[i]
           /\ Last(Appended(section, r, index)).distance = RobotDistance[section.human][r]
           /\ Last(Appended(section, r, index)).range = RangeAt(index)
<1> DEFINE b == section.barriers
           new == [distance |-> RobotDistance[section.human][r], range |-> RangeAt(index)]
<1>1. b \in Seq(Barrier) /\ b \in Seq(Barrier \cup {new}) /\ new \in Barrier \cup {new}
  BY BarriersAreSequences
<1>2. /\ Len(Append(b, new)) = Len(b) + 1
      /\ \A i \in 1..Len(b) : Append(b, new)[i] = b[i]
      /\ Append(b, new)[Len(b) + 1] = new
  BY <1>1, AppendProperties
<1> QED
  BY <1>2 DEF Appended, Last

(* A robot sample that was checked is clear of every human sample nearer than *)
(* the last barrier: a barrier never promises more than the nearest of its    *)
(* samples allows (barrier.cpp:75-90, 174-178).                             *)
THEOREM CheckedSampleIsClear ==
    ASSUME NEW section \in Section, NEW r \in RobotSamples, NEW index \in Index,
           NEW h \in HumanSamples,
           HumanDistance[section.human][h] < Last(Check(section, r, index).barriers).distance
    PROVE  RobotDistance[h][r] > 0
<1> DEFINE checked == Check(section, r, index).barriers
<1>1. /\ section.human \in HumanSamples /\ RobotDistance[section.human][r] \in Nat
      /\ HumanDistance[section.human][h] \in Nat
  BY RobotDistances, BarriersAreSequences, DistanceAssumption
<1>2. Last(checked).distance \in Nat /\ Last(checked).distance <= RobotDistance[section.human][r]
  <2>1. CASE SectionCollides(section)
    <3>1. Last(checked).distance = 0
      BY <2>1, CheckCases DEF SectionCollides
    <3> QED
      BY <1>1, <3>1
  <2>2. CASE checked = Appended(section, r, index)
    BY <1>1, <2>2, AppendedProperties
  <2>3. CASE /\ section.barriers # <<>> /\ checked = Extended(section, index)
             /\ RobotDistance[section.human][r] >= Last(section.barriers).distance
    <3>1. Last(section.barriers) \in Barrier
      BY <2>3, BarriersAreSequences
    <3>2. Last(checked).distance = Last(section.barriers).distance
      BY <2>3, <3>1, ExtendedProperties, UpdateKeepsDistance
    <3> QED
      BY <1>1, <2>3, <3>1, <3>2 DEF Barrier
  <2> QED
    BY <2>1, <2>2, <2>3, CheckCases
<1> QED
  BY <1>1, <1>2, BarrierClears

(* The check keeps the barriers of a section in order of distance, which the *)
(* bisection of _reuse_element relies on (barrier.cpp:75-90, 92-108).       *)
THEOREM CheckKeepsNearing ==
    ASSUME NEW section \in Section, NEW r \in RobotSamples, NEW index \in Index,
           Nearing(section.barriers)
    PROVE  Nearing(Check(section, r, index).barriers)
<1> DEFINE b == section.barriers
           n == Len(b)
           checked == Check(section, r, index).barriers
<1>1. b \in Seq(Barrier) /\ n \in Nat /\ \A i \in 1..n : b[i].distance \in Nat
  <2>1. b \in Seq(Barrier) /\ n \in Nat
    BY BarriersAreSequences
  <2>2. \A i \in 1..n : b[i] \in Barrier
    BY <2>1
  <2> QED
    BY <2>1, <2>2 DEF Barrier
<1>2. CASE SectionCollides(section)
  BY <1>2, CheckCases
<1>3. CASE Nearer(section, r) /\ checked = Appended(section, r, index)
  <2>1. /\ Len(checked) = n + 1 /\ \A i \in 1..n : checked[i] = b[i]
        /\ checked[n + 1].distance = RobotDistance[section.human][r]
    BY <1>3, AppendedProperties DEF Last
  <2>2. RobotDistance[section.human][r] \in Nat
    BY RobotDistances, BarriersAreSequences
  <2> HIDE DEF n, checked
  <2>3. \A i \in 1..n : b[i].distance > RobotDistance[section.human][r]
    <3> SUFFICES ASSUME NEW i \in 1..n PROVE b[i].distance > RobotDistance[section.human][r]
      OBVIOUS
    <3>1. n > 0 /\ b # <<>> /\ Last(b) = b[n] /\ n \in 1..n
      <4>1. n > 0 /\ n \in 1..n
        BY <1>1
      <4> QED
        BY <4>1, EmptySeq DEF n, Last
    <3>2. b[n].distance > RobotDistance[section.human][r]
      BY <1>1, <1>3, <2>2, <3>1 DEF Nearer
    <3>3. i = n \/ b[i].distance > b[n].distance
      BY <1>1, <3>1 DEF Nearing, n
    <3> QED
      BY <1>1, <2>2, <3>1, <3>2, <3>3
  <2> SUFFICES ASSUME NEW i \in 1..(n + 1), NEW k \in 1..(n + 1), i < k
               PROVE  checked[i].distance > checked[k].distance
    BY <2>1 DEF Nearing, checked
  <2>4. i \in 1..n /\ (k \in 1..n \/ k = n + 1)
    BY <1>1
  <2>5. CASE k \in 1..n
    <3>1. b[i].distance > b[k].distance
      BY <2>4, <2>5 DEF Nearing, n
    <3> QED
      BY <2>1, <2>4, <2>5, <3>1
  <2>6. CASE k = n + 1
    <3>1. checked[i] = b[i] /\ b[i].distance > RobotDistance[section.human][r]
      BY <2>1, <2>3, <2>4
    <3>2. checked[k].distance = RobotDistance[section.human][r]
      BY <2>1, <2>6
    <3> QED
      BY <3>1, <3>2
  <2> QED
    BY <2>4, <2>5, <2>6
<1>4. CASE b # <<>> /\ checked = Extended(section, index)
  BY <1>4, ExtendedProperties DEF Nearing
<1> QED
  BY <1>2, <1>3, <1>4, CheckCases

\* Two sequences of bounds, one after the other.
LEMMA JoinedBounds ==
    ASSUME NEW q \in Seq(Nat), NEW z \in Seq(Nat), Len(z) >= 1
    PROVE  /\ q \o z \in Seq(Nat) /\ Len(q \o z) = Len(q) + Len(z)
           /\ (q \o z)[Len(q) + Len(z)] = z[Len(z)]
<1>1. /\ Len(q) \in Nat /\ Len(z) \in Nat /\ q \o z \in Seq(Nat)
      /\ Len(q \o z) = Len(q) + Len(z)
      /\ \A i \in 1..(Len(q) + Len(z)) : (q \o z)[i] = IF i <= Len(q) THEN q[i] ELSE z[i - Len(q)]
  BY ConcatProperties
<1>2. PICK l \in Nat, m \in Nat : l = Len(q) /\ m = Len(z)
  BY <1>1
<1>3. m >= 1 => l + m \in 1..(l + m) /\ ~(l + m <= l) /\ (l + m) - l = m
  OBVIOUS
<1> QED
  BY <1>1, <1>2, <1>3

(* Half of the steps do not reach beyond the mode.                          *)
LEMMA IncreaseReaches ==
    ASSUME NEW range \in TraceSampleRange, NEW trace \in Nat, trace > MaxTrace(range),
           range.bounds # <<>>
    PROVE  /\ MaxTrace(Increase(range, trace)) \in (MaxTrace(range) + 1)..trace
           /\ MaxSample(Increase(range, trace)) = 0
<1> DEFINE n == Len(range.bounds)
           steps == (trace - MaxTrace(range) + 1) \div 2
           zeros == [i \in 1..steps |-> 0]
           bounds == range.bounds \o zeros
<1>1. range.bounds \in Seq(Nat) /\ n \in Nat /\ n > 0 /\ range.initial.trace \in Nat
  BY EmptySeq DEF TraceSampleRange, Index
<1>2. MaxTrace(range) \in Int /\ MaxTrace(range) = range.initial.trace + n - 1
  BY <1>1 DEF MaxTrace
<1>3. steps \in Nat /\ steps >= 1 /\ steps <= trace - MaxTrace(range)
  BY <1>2
<1>4. zeros \in Seq(Nat) /\ Len(zeros) = steps /\ zeros[steps] = 0
  BY <1>3
<1>5. bounds \in Seq(Nat) /\ Len(bounds) = n + steps /\ bounds[n + steps] = 0
  <2> HIDE DEF steps, zeros
  <2> QED
    BY <1>1, <1>3, <1>4, JoinedBounds
<1>6. /\ Increase(range, trace).bounds = bounds
      /\ Increase(range, trace).initial = range.initial
  BY DEF Increase, TraceSampleRange
<1> HIDE DEF n, steps, zeros, bounds
<1>7. MaxTrace(Increase(range, trace)) = range.initial.trace + (n + steps) - 1
  BY <1>5, <1>6 DEF MaxTrace
<1>8. MaxSample(Increase(range, trace)) = 0
  <2>1. PICK increased : increased = Increase(range, trace) /\ increased.bounds = bounds
    BY <1>6
  <2>2. MaxSample(increased) = bounds[Len(bounds)]
    BY <2>1 DEF MaxSample, Last
  <2> QED
    BY <1>5, <2>1, <2>2
<1> QED
  BY <1>1, <1>2, <1>3, <1>7, <1>8

(* After a check, the last barrier does not end beyond the sample that was    *)
(* checked: what has not been searched is never covered, though the loop of   *)
(* increase_trace_index makes half of its steps (trace_sample_range.cpp,     *)
(* barrier.cpp:54, 75-90).                                                  *)
THEOREM CheckEndsAtSample ==
    ASSUME NEW section \in Section, NEW r \in RobotSamples, NEW index \in Index,
           ~SectionCollides(section),
           section.barriers # <<>> =>
              /\ Last(section.barriers).range.bounds # <<>>
              /\ MaxTrace(Last(section.barriers).range) <= index.trace
    PROVE  LET end == Last(Check(section, r, index).barriers).range
           IN  /\ MaxTrace(end) <= index.trace
               /\ MaxTrace(end) = index.trace => MaxSample(end) <= index.sample
<1> DEFINE checked == Check(section, r, index).barriers
           last == Last(section.barriers)
<1>1. index.trace \in Nat /\ index.sample \in Nat
  BY DEF Index
<1>2. CASE checked = Appended(section, r, index)
  <2>1. Last(checked).range = RangeAt(index)
    BY <1>2, AppendedProperties
  <2>2. MaxTrace(RangeAt(index)) = index.trace /\ MaxSample(RangeAt(index)) = index.sample
    BY <1>1 DEF RangeAt, MaxTrace, MaxSample, Last
  <2> QED
    BY <1>1, <2>1, <2>2
<1>3. CASE section.barriers # <<>> /\ checked = Extended(section, index)
  <2>1. last \in Barrier /\ last.range \in TraceSampleRange /\ last.range.bounds # <<>>
    BY <1>3, BarriersAreSequences DEF Barrier
  <2>2. Last(checked) = UpdateWith(last, index)
    BY <1>3, ExtendedProperties
  <2>3. CASE index.trace > MaxTrace(last.range)
    <3>1. Last(checked).range = Increase(last.range, index.trace)
      BY <2>1, <2>2, <2>3 DEF UpdateWith, Barrier
    <3> QED
      BY <1>1, <2>1, <2>3, <3>1, IncreaseReaches
  <2>4. CASE ~(index.trace > MaxTrace(last.range))
    <3> DEFINE n == Len(last.range.bounds)
               updated == [last.range.bounds EXCEPT ![n] = index.sample]
    <3>1. last.range.bounds \in Seq(Nat) /\ n \in Nat /\ n > 0
      BY <2>1, EmptySeq DEF TraceSampleRange
    <3>2. updated \in Seq(Nat) /\ Len(updated) = n /\ updated[n] = index.sample
      BY <1>1, <3>1
    <3>3. /\ Last(checked).range.initial = last.range.initial
          /\ Last(checked).range.bounds = updated
      BY <2>1, <2>2, <2>4 DEF UpdateWith, Update, Barrier, TraceSampleRange
    <3> QED
      BY <1>1, <1>3, <3>2, <3>3 DEF MaxTrace, MaxSample, Last
  <2> QED
    BY <2>3, <2>4
<1> QED
  BY <1>2, <1>3, CheckCases

-----------------------------------------------------------------------------
(* The bisection of the barriers of a section.                              *)

LEMMA BarrierFields ==
    ASSUME NEW barriers \in Seq(Barrier)
    PROVE  /\ Len(barriers) \in Nat
           /\ \A k \in 1..Len(barriers) :
                 /\ barriers[k] \in Barrier /\ barriers[k].distance \in Nat
                 /\ barriers[k].range \in TraceSampleRange
                 /\ barriers[k].range.bounds \in Seq(Nat)
                 /\ barriers[k].range.initial \in Index
                 /\ barriers[k].range.initial.trace \in Nat
                 /\ barriers[k].range.initial.sample \in Nat
  <1>1. \A b \in Barrier : b.distance \in Nat /\ b.range \in TraceSampleRange
    BY DEF Barrier
  <1>2. \A range \in TraceSampleRange : range.bounds \in Seq(Nat) /\ range.initial \in Index
    BY DEF TraceSampleRange
  <1>3. \A index \in Index : index.trace \in Nat /\ index.sample \in Nat
    BY DEF Index
  <1>4. Len(barriers) \in Nat /\ \A k \in 1..Len(barriers) : barriers[k] \in Barrier
    OBVIOUS
  <1> QED
    BY <1>1, <1>2, <1>3, <1>4

\* What a bisection of barriers answers between two bounds, by its own answers f.
Halving(f, barriers, distance, lower, upper) ==
    LET middle == (lower + upper) \div 2
    IN  IF upper <= lower + 1 THEN middle
        ELSE IF distance >= barriers[middle].distance THEN f[<<lower, middle>>]
        ELSE f[<<middle, upper>>]

\* f answers so between any bounds in 1..n.
Bisects(f, barriers, distance, n) ==
    f = [bounds \in (1..n) \X (1..n) |-> Halving(f, barriers, distance, bounds[1], bounds[2])]

LEMMA Middle ==
    ASSUME NEW n \in Nat, NEW l \in 1..n, NEW u \in 1..n
    PROVE  /\ (l + u) \div 2 \in 1..n
           /\ u > l + 1 => /\ (l + u) \div 2 - l < u - l /\ u - (l + u) \div 2 < u - l
                           /\ l < (l + u) \div 2 /\ (l + u) \div 2 < u
           /\ u = l + 1 => (l + u) \div 2 = l
  <1> DEFINE m == (l + u) \div 2
  <1>1. l + u \in Nat /\ l \in Nat /\ u \in Nat
    OBVIOUS
  <1>2. m \in Nat /\ 2 * m <= l + u /\ l + u < 2 * m + 2
    BY <1>1
  <1> HIDE DEF m
  <1>3. m \in 1..n
    BY <1>1, <1>2
  <1>4. u > l + 1 => m - l < u - l /\ u - m < u - l /\ l < m /\ m < u
    BY <1>1, <1>2
  <1>5. u = l + 1 => m = l
    BY <1>1, <1>2
  <1> QED
    BY <1>3, <1>4, <1>5 DEF m

\* The bisection ends: it defines a function of the bounds.
LEMMA BisectionEnds ==
    ASSUME NEW barriers, NEW distance, NEW n \in Nat
    PROVE  \E f : Bisects(f, barriers, distance, n)
  <1> DEFINE D == (1..n) \X (1..n)
             Half(f, b) == Halving(f, barriers, distance, b[1], b[2])
             S == [d \in 0..n |-> {f \in [D -> 1..n] : \A b \in D : b[2] - b[1] <= d => f[b] = Half(f, b)}]
             start == [b \in D |-> (b[1] + b[2]) \div 2]
             step == [d \in 1..n |-> [f \in S[d - 1] |-> [b \in D |-> Half(f, b)]]]
  <1>1. \A b \in D : b[1] \in 1..n /\ b[2] \in 1..n /\ b = <<b[1], b[2]>>
    OBVIOUS
  <1>2. start \in S[0]
    <2>1. start \in [D -> 1..n]
      <3>1. \A b \in D : (b[1] + b[2]) \div 2 \in 1..n
        <4> HIDE DEF D
        <4> QED
          BY <1>1, Middle
      <3> QED
        BY <3>1
    <2>2. \A b \in D : b[2] - b[1] <= 0 => b[2] <= b[1] + 1
      BY <1>1
    <2>3. \A b \in D : b[2] - b[1] <= 0 => start[b] = Half(start, b)
      BY <2>2 DEF Halving
    <2>4. 0 \in 0..n
      OBVIOUS
    <2> HIDE DEF start, D
    <2> QED
      BY <2>1, <2>3, <2>4
  <1>3. ASSUME NEW d \in 1..n, NEW f \in S[d - 1]
        PROVE  step[d][f] \in S[d]
    <2> DEFINE g == [b \in D |-> Half(f, b)]
    <2>1. d - 1 \in 0..n /\ d \in 0..n /\ d \in Nat
      OBVIOUS
    <2>2. f \in [D -> 1..n] /\ \A b \in D : b[2] - b[1] <= d - 1 => f[b] = Half(f, b)
      BY <2>1
    <2>3. step[d][f] = g
      BY <2>1
    <2>4. ASSUME NEW b \in D
          PROVE  Half(f, b) \in 1..n
      <3> DEFINE l == b[1]
                 u == b[2]
                 m == (l + u) \div 2
      <3>1. l \in 1..n /\ u \in 1..n /\ m \in 1..n
        BY <1>1, Middle
      <3> HIDE DEF l, u, m
      <3>2. <<l, m>> \in D /\ <<m, u>> \in D
        BY <3>1
      <3>3. f[<<l, m>>] \in 1..n /\ f[<<m, u>>] \in 1..n
        BY <2>2, <3>2
      <3> QED
        BY <3>1, <3>3 DEF Halving, l, u, m
    <2>5. ASSUME NEW b \in D, b[2] - b[1] <= d
          PROVE  g[b] = Half(g, b)
      <3> DEFINE l == b[1]
                 u == b[2]
                 m == (l + u) \div 2
      <3>1. l \in 1..n /\ u \in 1..n /\ m \in 1..n /\ u - l <= d
            /\ (u > l + 1 => m - l < u - l /\ u - m < u - l)
        BY <1>1, <2>5, Middle
      <3>2. CASE u <= l + 1
        BY <3>2 DEF Halving
      <3>3. CASE ~(u <= l + 1)
        <4> HIDE DEF l, u, m
        <4>1. <<l, m>> \in D /\ <<m, u>> \in D
          BY <3>1
        <4>2. m - l <= d - 1 /\ u - m <= d - 1
          BY <3>1, <3>3, <2>1
        <4>3. f[<<l, m>>] = Half(f, <<l, m>>) /\ f[<<m, u>>] = Half(f, <<m, u>>)
          BY <2>2, <4>1, <4>2
        <4>4. g[<<l, m>>] = f[<<l, m>>] /\ g[<<m, u>>] = f[<<m, u>>]
          BY <4>1, <4>3
        <4>5. g[b] = Half(f, b)
          OBVIOUS
        <4> HIDE DEF g
        <4> QED
          BY <4>4, <4>5 DEF Halving, l, u, m
      <3> QED
        BY <3>2, <3>3
    <2>6. g \in [D -> 1..n]
      BY <2>4
    <2>7. S[d] = {h \in [D -> 1..n] : \A b \in D : b[2] - b[1] <= d => h[b] = Half(h, b)}
      BY <2>1
    <2> HIDE DEF g, step, S, Half, D
    <2> QED
      BY <2>3, <2>5, <2>6, <2>7
  <1>4. PICK f : \A d \in 0..n : f[d] \in S[d]
    <2> HIDE DEF S, start, step
    <2>1. PICK f : f = Iterated(n, S, start, step)
      OBVIOUS
    <2>2. Iterates(f, n, S, start, step)
      BY <1>2, <1>3, <2>1, Recursion
    <2> QED
      BY <2>2 DEF Iterates
  <1>5. n \in 0..n
    OBVIOUS
  <1>6. f[n] \in [D -> 1..n] /\ \A b \in D : b[2] - b[1] <= n => f[n][b] = Half(f[n], b)
    BY <1>4, <1>5
  <1>7. \A b \in D : b[2] - b[1] <= n
    BY <1>1
  <1>8. f[n] = [b \in D |-> Half(f[n], b)]
    <2> HIDE DEF D, Half, S
    <2> QED
      BY <1>6, <1>7
  <1> QED
    BY <1>8 DEF Bisects

\* It answers with a place between the bounds, and if the barriers come nearer, with
\* the last that is farther than the distance.
LEMMA BisectionFinds ==
    ASSUME NEW barriers \in Seq(Barrier), NEW distance \in Int,
           NEW n \in Nat, n = Len(barriers), NEW f, Bisects(f, barriers, distance, n)
    PROVE  \A l, u \in 1..n :
              /\ f[<<l, u>>] \in 1..n
              /\ l < u /\ distance < barriers[l].distance /\ distance >= barriers[u].distance =>
                    /\ f[<<l, u>>] \in l..(u - 1) /\ distance < barriers[f[<<l, u>>]].distance
                    /\ distance >= barriers[f[<<l, u>>] + 1].distance
  <1> DEFINE Far(k) == distance < barriers[k].distance
             Good(l, u) == /\ f[<<l, u>>] \in 1..n
                           /\ l < u /\ Far(l) /\ ~Far(u) =>
                                /\ f[<<l, u>>] \in l..(u - 1) /\ Far(f[<<l, u>>])
                                /\ ~Far(f[<<l, u>>] + 1)
             P == [d \in 0..n |-> \A l, u \in 1..n : u - l <= d => Good(l, u)]
  <1>1. \A k \in 1..n : barriers[k].distance \in Nat
    BY BarrierFields
  <1>2. \A l, u \in 1..n : f[<<l, u>>] = Halving(f, barriers, distance, l, u)
    <2>1. \A l, u \in 1..n : <<l, u>> \in (1..n) \X (1..n)
      OBVIOUS
    <2>2. PICK g : g = f
      OBVIOUS
    <2>3. g = [bounds \in (1..n) \X (1..n) |-> Halving(f, barriers, distance, bounds[1], bounds[2])]
      BY <2>2 DEF Bisects
    <2> QED
      BY <2>1, <2>2, <2>3
  <1> HIDE DEF Far
  <1>3. ASSUME NEW l \in 1..n, NEW u \in 1..n, u <= l + 1
        PROVE  Good(l, u)
    <2>1. f[<<l, u>>] = (l + u) \div 2
      BY <1>2, <1>3 DEF Halving
    <2>2. (l + u) \div 2 \in 1..n /\ (u = l + 1 => (l + u) \div 2 = l)
      BY Middle
    <2>3. CASE l < u
      <3>1. u = l + 1 /\ l \in l..(u - 1)
        BY <1>3, <2>3
      <3>2. f[<<l, u>>] = l
        BY <2>1, <2>2, <3>1
      <3> QED
        BY <3>1, <3>2
    <2>4. CASE ~(l < u)
      BY <2>1, <2>2, <2>4
    <2> QED
      BY <2>3, <2>4
  <1>4. P[0]
    <2>1. \A l, u \in 1..n : u - l <= 0 => u <= l + 1
      OBVIOUS
    <2>2. 0 \in 0..n
      OBVIOUS
    <2> HIDE DEF Good
    <2> QED
      BY <1>3, <2>1, <2>2
  <1>5. ASSUME NEW d \in 1..n, P[d - 1]
        PROVE  P[d]
    <2>1. d - 1 \in 0..n /\ d \in 0..n
      OBVIOUS
    <2>2. \A l, u \in 1..n : u - l <= d - 1 => Good(l, u)
      BY <1>5, <2>1
    <2>3. ASSUME NEW l \in 1..n, NEW u \in 1..n, u - l <= d
          PROVE  Good(l, u)
      <3> DEFINE m == (l + u) \div 2
      <3>1. /\ m \in 1..n
            /\ u > l + 1 => m - l < u - l /\ u - m < u - l /\ l < m /\ m < u
        BY Middle
      <3> HIDE DEF m
      <3>2. CASE u > l + 1
        <4>1. m - l <= d - 1 /\ u - m <= d - 1 /\ l < m /\ m < u
          BY <2>3, <3>1, <3>2
        <4>2. Good(l, m) /\ Good(m, u)
          BY <2>2, <3>1, <4>1
        <4>3. f[<<l, u>>] = IF Far(m) THEN f[<<m, u>>] ELSE f[<<l, m>>]
          <5>1. ~(u <= l + 1)
            BY <3>2
          <5>2. Far(m) <=> ~(distance >= barriers[m].distance)
            BY <3>1, <1>1 DEF Far
          <5> QED
            BY <5>1, <5>2, <1>2 DEF Halving, m
        <4> QED
          BY <4>1, <4>2, <4>3, <3>1
      <3>3. CASE ~(u > l + 1)
        BY <1>3, <3>3
      <3> QED
        BY <3>2, <3>3
    <2> HIDE DEF Good
    <2> QED
      BY <2>1, <2>3
  <1>6. \A d \in 0..n : P[d]
    <2> HIDE DEF P
    <2> QED
      BY <1>4, <1>5, CountingUp
  <1>7. ASSUME NEW l \in 1..n, NEW u \in 1..n
        PROVE  Good(l, u)
    <2>1. u - l <= n /\ n \in 0..n
      OBVIOUS
    <2> HIDE DEF Good
    <2> QED
      BY <2>1, <1>6
  <1>8. \A l, u \in 1..n : distance >= barriers[u].distance <=> ~Far(u)
    BY <1>1 DEF Far
  <1>9. ASSUME NEW l \in 1..n, NEW u \in 1..n, l < u, distance < barriers[l].distance,
               distance >= barriers[u].distance
        PROVE  /\ f[<<l, u>>] \in l..(u - 1) /\ distance < barriers[f[<<l, u>>]].distance
               /\ distance >= barriers[f[<<l, u>>] + 1].distance
    <2>1. Far(l) /\ ~Far(u)
      BY <1>8, <1>9 DEF Far
    <2>2. f[<<l, u>>] \in l..(u - 1) /\ Far(f[<<l, u>>]) /\ ~Far(f[<<l, u>>] + 1)
      BY <1>7, <1>9, <2>1
    <2>3. f[<<l, u>>] + 1 \in 1..n
      BY <2>2
    <2> QED
      BY <2>2, <2>3, <1>1 DEF Far
  <1> QED
    BY <1>7, <1>9

\* _reuse_element finds the last barrier that is farther than the distance, of
\* barriers that come nearer, and always one of them or none (barrier.cpp:134-178).
THEOREM ReuseElementIsLast ==
    ASSUME NEW barriers \in Seq(Barrier), NEW distance \in Int
    PROVE  LET reuse == ReuseElement(barriers, distance)
           IN  /\ reuse \in 0..Len(barriers)
               /\ Nearing(barriers) =>
                     \A k \in 1..Len(barriers) : distance < barriers[k].distance <=> k <= reuse
  <1> DEFINE n == Len(barriers)
             F == CHOOSE f : Bisects(f, barriers, distance, n)
  <1>1. n \in Nat /\ \A k \in 1..n : barriers[k].distance \in Nat
    BY BarrierFields
  <1>2. Bisects(F, barriers, distance, n)
    BY <1>1, BisectionEnds
  <1>3. ReuseElement(barriers, distance) =
            IF n = 0 \/ distance >= barriers[1].distance THEN 0
            ELSE IF distance < barriers[n].distance THEN n ELSE F[<<1, n>>]
    BY DEF ReuseElement, Bisects, Halving
  <1> HIDE DEF F, n
  <1>4. Nearing(barriers) => \A i, k \in 1..n : i < k => barriers[i].distance > barriers[k].distance
    BY DEF Nearing, n
  <1>5. CASE n = 0 \/ distance >= barriers[1].distance
    <2>1. ReuseElement(barriers, distance) = 0
      BY <1>3, <1>5
    <2>2. ASSUME Nearing(barriers), NEW k \in 1..n
          PROVE  ~(distance < barriers[k].distance) /\ ~(k <= 0)
      <3>1. distance >= barriers[1].distance /\ 1 \in 1..n
        BY <1>1, <1>5
      <3>2. barriers[1].distance >= barriers[k].distance
        BY <3>1, <1>1, <1>4, <2>2
      <3> QED
        BY <3>1, <3>2, <1>1
    <2> QED
      BY <2>1, <2>2, <1>1 DEF n
  <1>6. CASE ~(n = 0 \/ distance >= barriers[1].distance) /\ distance < barriers[n].distance
    <2>1. ReuseElement(barriers, distance) = n
      BY <1>3, <1>6
    <2>2. ASSUME Nearing(barriers), NEW k \in 1..n
          PROVE  distance < barriers[k].distance /\ k <= n
      <3>1. n \in 1..n
        BY <1>1, <1>6
      <3>2. barriers[n].distance <= barriers[k].distance
        BY <3>1, <1>1, <1>4, <2>2
      <3> QED
        BY <3>1, <3>2, <1>1, <1>6
    <2> QED
      BY <2>1, <2>2, <1>1 DEF n
  <1>7. CASE ~(n = 0 \/ distance >= barriers[1].distance) /\ ~(distance < barriers[n].distance)
    <2>1. /\ 1 \in 1..n /\ n \in 1..n /\ distance < barriers[1].distance
          /\ distance >= barriers[n].distance /\ 1 < n
      BY <1>1, <1>7
    <2>2. /\ F[<<1, n>>] \in 1..(n - 1) /\ distance < barriers[F[<<1, n>>]].distance
          /\ distance >= barriers[F[<<1, n>>] + 1].distance
      BY <2>1, <1>1, <1>2, BisectionFinds DEF n
    <2> DEFINE r == F[<<1, n>>]
    <2> HIDE DEF r
    <2>3. /\ ReuseElement(barriers, distance) = r /\ r \in 1..(n - 1) /\ r \in 1..n /\ r + 1 \in 1..n
          /\ distance < barriers[r].distance /\ distance >= barriers[r + 1].distance
      BY <2>2, <1>1, <1>3, <1>7 DEF r
    <2>4. ASSUME Nearing(barriers), NEW k \in 1..n
          PROVE  distance < barriers[k].distance <=> k <= r
      <3>1. CASE k <= r
        <4>1. barriers[r].distance <= barriers[k].distance
          <5>1. k = r \/ barriers[k].distance > barriers[r].distance
            BY <3>1, <2>3, <1>1, <1>4, <2>4
          <5> QED
            BY <5>1, <2>3, <1>1
        <4>2. PICK x \in Nat, y \in Nat : x = barriers[k].distance /\ y = barriers[r].distance
          BY <2>3, <1>1
        <4>3. distance < x
          BY <4>1, <4>2, <2>3
        <4> QED
          BY <3>1, <4>2, <4>3
      <3>2. CASE ~(k <= r)
        <4>1. PICK q \in 1..n : q = r + 1 /\ q <= k
          BY <3>2, <2>3, <1>1
        <4>2. barriers[k].distance <= barriers[q].distance
          <5>1. k = q \/ barriers[q].distance > barriers[k].distance
            BY <4>1, <1>1, <1>4, <2>4
          <5> QED
            BY <5>1, <1>1
        <4>3. PICK x \in Nat, y \in Nat : x = barriers[k].distance /\ y = barriers[q].distance
          BY <1>1
        <4>4. distance >= y
          BY <4>1, <4>3, <2>3
        <4>5. ~(distance < x)
          BY <4>2, <4>3, <4>4
        <4> QED
          BY <3>2, <4>3, <4>5
      <3> QED
        BY <3>1, <3>2
    <2> QED
      BY <2>3, <2>4, <1>1 DEF n
  <1> QED
    BY <1>5, <1>6, <1>7

-----------------------------------------------------------------------------
(* The barriers of a job stay in order while it searches.                   *)

\* A range reaches as far as where it begins.
RangeFits(range) == range.bounds # <<>> /\ range.bounds[1] >= range.initial.sample

\* Barriers in order: each is nearer than those before, and begins after their end.
Ordered(barriers) ==
    /\ barriers # <<>> /\ Nearing(barriers)
    /\ \A i \in 1..Len(barriers) : RangeFits(barriers[i].range)
    /\ \A i, k \in 1..Len(barriers) : i < k =>
          EndsBefore(barriers[i].range, barriers[k].range.initial)

\* Sections whose barriers are in order, also those of one after those of another.
Chained(sections) ==
    /\ \A k \in 1..Len(sections) : Ordered(sections[k].barriers)
    /\ \A k, n \in 1..Len(sections) : k < n =>
          \A i \in 1..Len(sections[k].barriers), l \in 1..Len(sections[n].barriers) :
              EndsBefore(sections[k].barriers[i].range, sections[n].barriers[l].range.initial)

\* All barriers end before an index.
AllEnd(barriers, index) ==
    \A i \in 1..Len(barriers) : EndsBefore(barriers[i].range, index)
Done(sections, index) == \A k \in 1..Len(sections) : AllEnd(sections[k].barriers, index)

LEMMA RangeFields ==
    ASSUME NEW range \in TraceSampleRange
    PROVE  /\ range.bounds \in Seq(Nat) /\ Len(range.bounds) \in Nat /\ range.initial \in Index
           /\ range.initial.trace \in Nat /\ range.initial.sample \in Nat
           /\ range.bounds # <<>> =>
                 /\ Len(range.bounds) >= 1 /\ MaxTrace(range) \in Nat /\ MaxSample(range) \in Nat
                 /\ MaxTrace(range) = range.initial.trace + Len(range.bounds) - 1
                 /\ MaxSample(range) = range.bounds[Len(range.bounds)]
                 /\ range.initial.trace <= MaxTrace(range)
  <1>1. range.bounds \in Seq(Nat) /\ range.initial \in Index
    BY DEF TraceSampleRange
  <1>2. range.initial.trace \in Nat /\ range.initial.sample \in Nat
    BY <1>1 DEF Index
  <1>3. ASSUME range.bounds # <<>>
        PROVE  /\ Len(range.bounds) >= 1 /\ MaxSample(range) \in Nat
               /\ MaxSample(range) = range.bounds[Len(range.bounds)]
    BY <1>1, <1>3 DEF MaxSample, Last
  <1>4. ASSUME range.bounds # <<>>
        PROVE  /\ MaxTrace(range) \in Nat /\ range.initial.trace <= MaxTrace(range)
               /\ MaxTrace(range) = range.initial.trace + Len(range.bounds) - 1
    <2>1. Len(range.bounds) \in Nat /\ Len(range.bounds) >= 1
      BY <1>1, <1>3, <1>4
    <2> QED
      BY <2>1, <1>2 DEF MaxTrace
  <1> QED
    BY <1>1, <1>2, <1>3, <1>4

\* What EXCEPT makes of ranges, barriers and sections.
LEMMA Replaced ==
    /\ \A x : \A range \in TraceSampleRange :
          /\ [range EXCEPT !.bounds = x] = [initial |-> range.initial, bounds |-> x]
          /\ x \in Seq(Nat) => [initial |-> range.initial, bounds |-> x] \in TraceSampleRange
    /\ \A x : \A b \in Barrier :
          /\ [b EXCEPT !.range = x] = [distance |-> b.distance, range |-> x]
          /\ x \in TraceSampleRange => [distance |-> b.distance, range |-> x] \in Barrier
    /\ \A x : \A section \in Section :
          /\ [section EXCEPT !.barriers = x] = [human |-> section.human, barriers |-> x]
          /\ x \in Seq(Barrier) => [human |-> section.human, barriers |-> x] \in Section
  <1>1. \A x : \A range \in TraceSampleRange :
          /\ [range EXCEPT !.bounds = x] = [initial |-> range.initial, bounds |-> x]
          /\ x \in Seq(Nat) => [initial |-> range.initial, bounds |-> x] \in TraceSampleRange
    BY DEF TraceSampleRange
  <1>2. \A x : \A b \in Barrier :
          /\ [b EXCEPT !.range = x] = [distance |-> b.distance, range |-> x]
          /\ x \in TraceSampleRange => [distance |-> b.distance, range |-> x] \in Barrier
    BY DEF Barrier
  <1>3. \A x : \A section \in Section :
          /\ [section EXCEPT !.barriers = x] = [human |-> section.human, barriers |-> x]
          /\ x \in Seq(Barrier) => [human |-> section.human, barriers |-> x] \in Section
    BY DEF Section
  <1> QED
    BY <1>1, <1>2, <1>3

\* A range that ends before where another begins ends before where that one ends.
LEMMA EndsEarlier ==
    ASSUME NEW first \in TraceSampleRange, NEW second \in TraceSampleRange, RangeFits(second),
           NEW index \in Index, EndsBefore(first, second.initial)
    PROVE  /\ EndsBefore(second, index) => EndsBefore(first, index)
           /\ MaxTrace(first) <= second.initial.trace /\ MaxTrace(first) <= MaxTrace(second)
           /\ MaxTrace(first) = MaxTrace(second) => MaxSample(first) < MaxSample(second)
  <1>1. /\ first.bounds # <<>> /\ second.bounds # <<>>
        /\ second.bounds[1] >= second.initial.sample
        /\ \/ MaxTrace(first) < second.initial.trace
           \/ MaxTrace(first) = second.initial.trace /\ MaxSample(first) < second.initial.sample
    BY DEF EndsBefore, RangeFits
  <1>2. index.trace \in Nat /\ index.sample \in Nat
    BY DEF Index
  <1>3. /\ MaxTrace(first) \in Nat /\ MaxSample(first) \in Nat
        /\ MaxTrace(second) \in Nat /\ MaxSample(second) \in Nat
        /\ second.initial.trace \in Nat /\ second.initial.sample \in Nat
        /\ second.initial.trace <= MaxTrace(second)
    BY <1>1, RangeFields
  <1>4. MaxTrace(second) = second.initial.trace => MaxSample(second) >= second.initial.sample
    <2>1. ASSUME MaxTrace(second) = second.initial.trace
          PROVE  Len(second.bounds) = 1
      <3>1. /\ Len(second.bounds) \in Nat /\ second.initial.trace \in Nat
            /\ MaxTrace(second) = second.initial.trace + Len(second.bounds) - 1
        BY <1>1, RangeFields
      <3>2. \A a, c \in Nat : a + c - 1 = a => c = 1
        OBVIOUS
      <3>3. second.initial.trace + Len(second.bounds) - 1 = second.initial.trace
        BY <3>1, <2>1
      <3> QED
        BY <3>1, <3>2, <3>3
    <2>2. MaxSample(second) = second.bounds[Len(second.bounds)]
      BY <1>1, RangeFields
    <2> QED
      BY <2>1, <2>2, <1>1
  <1> QED
    BY <1>1, <1>2, <1>3, <1>4 DEF EndsBefore

LEMMA EndsLater ==
    ASSUME NEW range \in TraceSampleRange, NEW index \in Index, NEW next \in Index,
           EndsBefore(range, index),
           \/ index.trace < next.trace
           \/ index.trace = next.trace /\ index.sample <= next.sample
    PROVE  EndsBefore(range, next)
  <1>1. index.trace \in Nat /\ index.sample \in Nat /\ next.trace \in Nat /\ next.sample \in Nat
    BY DEF Index
  <1>2. range.bounds # <<>> /\ MaxTrace(range) \in Nat /\ MaxSample(range) \in Nat
    BY RangeFields DEF EndsBefore
  <1> QED
    BY <1>1, <1>2 DEF EndsBefore

LEMMA BoundChanges ==
    ASSUME NEW q \in Seq(Nat), Len(q) >= 1, NEW x \in Nat, NEW steps \in Nat
    PROVE  /\ [i \in 1..steps |-> 0] \in Seq(Nat) /\ Len([i \in 1..steps |-> 0]) = steps
           /\ [q EXCEPT ![Len(q)] = x] \in Seq(Nat) /\ Len([q EXCEPT ![Len(q)] = x]) = Len(q)
           /\ [q EXCEPT ![Len(q)] = x][Len(q)] = x /\ [q EXCEPT ![Len(q)] = x] # <<>>
           /\ [q EXCEPT ![Len(q)] = x][1] = IF Len(q) = 1 THEN x ELSE q[1]
  <1>1. PICK zeros : zeros = [i \in 1..steps |-> 0]
    OBVIOUS
  <1>2. zeros \in Seq(Nat) /\ Len(zeros) = steps
    BY <1>1
  <1>3. PICK u : u = [q EXCEPT ![Len(q)] = x]
    OBVIOUS
  <1>4. u \in Seq(Nat) /\ Len(u) = Len(q)
    BY <1>3
  <1>5. u[Len(q)] = x /\ u[1] = (IF Len(q) = 1 THEN x ELSE q[1]) /\ u # <<>>
    BY <1>3, <1>4
  <1> QED
    BY <1>1, <1>2, <1>3, <1>4, <1>5

\* The range of a new barrier.
LEMMA NewRange ==
    ASSUME NEW index \in Index, NEW next \in Index,
           index.trace = next.trace, index.sample < next.sample
    PROVE  /\ RangeAt(index) \in TraceSampleRange /\ RangeFits(RangeAt(index))
           /\ RangeAt(index).initial = index /\ EndsBefore(RangeAt(index), next)
  <1>1. index.trace \in Nat /\ index.sample \in Nat /\ <<index.sample>> \in Seq(Nat)
    BY DEF Index
  <1>2. RangeAt(index) \in TraceSampleRange
    BY <1>1 DEF RangeAt, TraceSampleRange
  <1>3. MaxTrace(RangeAt(index)) = index.trace /\ MaxSample(RangeAt(index)) = index.sample
    BY <1>1 DEF RangeAt, MaxTrace, MaxSample, Last
  <1>4. RangeAt(index).bounds # <<>> /\ RangeFits(RangeAt(index)) /\ RangeAt(index).initial = index
    BY <1>1 DEF RangeAt, RangeFits
  <1> QED
    BY <1>2, <1>3, <1>4 DEF EndsBefore

\* A sequence that is not empty, with another one after it.
LEMMA JoinedSequences ==
    ASSUME NEW q \in Seq(Nat), NEW z \in Seq(Nat), Len(q) >= 1
    PROVE  q \o z \in Seq(Nat) /\ q \o z # <<>> /\ (q \o z)[1] = q[1]
  <1>1. /\ Len(q) \in Nat /\ Len(z) \in Nat /\ q \o z \in Seq(Nat)
        /\ Len(q \o z) = Len(q) + Len(z)
        /\ \A i \in 1..(Len(q) + Len(z)) : (q \o z)[i] = IF i <= Len(q) THEN q[i] ELSE z[i - Len(q)]
    BY ConcatProperties
  <1>2. PICK u : u = q \o z
    OBVIOUS
  <1>3. u[1] = q[1] /\ Len(u) # 0 /\ u \in Seq(Nat)
    BY <1>1, <1>2
  <1> QED
    BY <1>2, <1>3

\* The range of a barrier that is updated keeps its beginning.
LEMMA UpdatedRange ==
    ASSUME NEW b \in Barrier, RangeFits(b.range), NEW index \in Index, NEW next \in Index,
           index.trace = next.trace, index.sample < next.sample, EndsBefore(b.range, index)
    PROVE  LET updated == UpdateWith(b, index)
           IN  /\ updated \in Barrier /\ RangeFits(updated.range)
               /\ updated.range.initial = b.range.initial /\ EndsBefore(updated.range, next)
  <1> DEFINE range == b.range
             n == Len(range.bounds)
  <1>1. /\ range \in TraceSampleRange /\ range.bounds # <<>> /\ b.distance \in Nat
        /\ range.bounds[1] >= range.initial.sample
    BY DEF RangeFits, Barrier
  <1>2. /\ range.bounds \in Seq(Nat) /\ n \in Nat /\ range.initial \in Index /\ n >= 1
        /\ MaxTrace(range) \in Nat /\ MaxSample(range) \in Nat /\ range.initial.sample \in Nat
        /\ MaxSample(range) = range.bounds[n] /\ range.initial.trace \in Nat
        /\ MaxTrace(range) = range.initial.trace + n - 1
    BY <1>1, RangeFields
  <1>3. index.trace \in Nat /\ index.sample \in Nat /\ next.sample \in Nat
    BY DEF Index
  <1>4. CASE index.trace > MaxTrace(range)
    <2>1. PICK steps \in Nat : steps >= 1 /\ steps = (index.trace - MaxTrace(range) + 1) \div 2
      <3>1. PICK k \in Nat : k >= 1 /\ k = index.trace - MaxTrace(range)
        BY <1>2, <1>3, <1>4
      <3>2. (k + 1) \div 2 \in Nat /\ (k + 1) \div 2 >= 1
        BY <3>1
      <3> QED
        BY <3>1, <3>2
    <2>2. PICK zeros : zeros = [i \in 1..steps |-> 0] /\ zeros \in Seq(Nat) /\ Len(zeros) = steps
      BY <1>2, BoundChanges
    <2>3. PICK bounds : /\ bounds = range.bounds \o zeros /\ bounds \in Seq(Nat)
                        /\ bounds # <<>> /\ bounds[1] = range.bounds[1]
      <3>1. zeros \in Seq(Nat) /\ range.bounds \in Seq(Nat) /\ Len(range.bounds) >= 1
        BY <1>2, <2>2
      <3>2. PICK q : q = range.bounds
        OBVIOUS
      <3>3. q \o zeros \in Seq(Nat) /\ q \o zeros # <<>> /\ (q \o zeros)[1] = q[1]
        <4>1. q \in Seq(Nat) /\ zeros \in Seq(Nat) /\ Len(q) >= 1
          BY <3>1, <3>2, Zenon
        <4> HIDE DEF range, n
        <4> QED
          BY <4>1, JoinedSequences, Zenon
      <3> QED
        BY <3>2, <3>3
    <2> DEFINE u == [initial |-> range.initial, bounds |-> bounds]
    <2>4. Increase(range, index.trace) = u /\ u.bounds = bounds /\ u.initial = range.initial
      <3>1. Increase(range, index.trace) = [range EXCEPT !.bounds = bounds]
        BY <2>1, <2>2, <2>3, Zenon DEF Increase
      <3> QED
        BY <1>1, <2>3, <3>1, Replaced
    <2>5. UpdateWith(b, index) = [distance |-> b.distance, range |-> u]
      BY <1>4, <2>4, Replaced DEF UpdateWith
    <2>6. u \in TraceSampleRange
      BY <1>1, <2>3, Replaced
    <2>7. MaxTrace(u) \in (MaxTrace(range) + 1)..index.trace /\ MaxSample(u) = 0
      <3> HIDE DEF u
      <3> QED
        BY <1>1, <1>3, <1>4, <2>4, IncreaseReaches
    <2> HIDE DEF u
    <2>8. UpdateWith(b, index) \in Barrier /\ UpdateWith(b, index).range = u
      BY <1>1, <2>5, <2>6 DEF Barrier
    <2>9. RangeFits(u) /\ u.bounds # <<>>
      BY <1>1, <2>3, <2>4 DEF RangeFits
    <2>10. EndsBefore(u, next)
      BY <1>2, <1>3, <2>7, <2>9 DEF EndsBefore
    <2> QED
      BY <2>4, <2>8, <2>9, <2>10
  <1>5. CASE ~(index.trace > MaxTrace(range))
    <2>1. MaxTrace(range) = index.trace /\ MaxSample(range) < index.sample
      BY <1>2, <1>3, <1>5 DEF EndsBefore
    <2>2. PICK q \in Seq(Nat) : q = range.bounds /\ Len(q) >= 1 /\ Len(q) = n
      BY <1>2
    <2> DEFINE bounds == [q EXCEPT ![Len(q)] = index.sample]
               u == [initial |-> range.initial, bounds |-> bounds]
    <2>3. /\ bounds \in Seq(Nat) /\ Len(bounds) = n /\ bounds[n] = index.sample
          /\ bounds # <<>>
          /\ bounds[1] = IF n = 1 THEN index.sample ELSE range.bounds[1]
      <3>1. Len(q) >= 1 /\ index.sample \in Nat
        BY <1>3, <2>2
      <3>2. /\ bounds \in Seq(Nat) /\ Len(bounds) = Len(q) /\ bounds[Len(q)] = index.sample
            /\ bounds # <<>> /\ bounds[1] = IF Len(q) = 1 THEN index.sample ELSE q[1]
        BY <3>1, BoundChanges, Zenon
      <3> HIDE DEF bounds
      <3> QED
        BY <2>2, <3>2
    <2>9. Update(range, index.sample) = u
      <3>1. Update(range, index.sample) = [range EXCEPT !.bounds = bounds]
        BY <1>1, <2>2 DEF Update
      <3> QED
        BY <1>1, <3>1, Replaced
    <2> HIDE DEF bounds
    <2>4. UpdateWith(b, index) = [distance |-> b.distance, range |-> u]
      BY <1>5, <2>9, Replaced DEF UpdateWith
    <2>5. u.initial = range.initial /\ u.bounds = bounds
      OBVIOUS
    <2>6. u \in TraceSampleRange
      BY <1>1, <2>3, Replaced
    <2> HIDE DEF u
    <2>7. UpdateWith(b, index) \in Barrier /\ UpdateWith(b, index).range = u
      BY <1>1, <2>4, <2>6 DEF Barrier
    <2>8. MaxTrace(u) = MaxTrace(range) /\ MaxSample(u) = index.sample
      BY <1>2, <2>3, <2>5 DEF MaxTrace, MaxSample, Last
    <2>10. bounds[1] >= range.initial.sample
      <3>1. n = 1 => index.sample >= range.initial.sample
        BY <1>1, <1>2, <1>3, <2>1
      <3> QED
        BY <3>1, <1>1, <2>3
    <2>11. RangeFits(u) /\ EndsBefore(u, next)
      BY <1>3, <2>1, <2>3, <2>5, <2>8, <2>10 DEF RangeFits, EndsBefore
    <2> QED
      BY <2>5, <2>7, <2>11
  <1> QED
    BY <1>4, <1>5

\* A sequence whose last element is replaced.
LEMMA LastReplaced ==
    ASSUME NEW S, NEW q \in Seq(S), q # <<>>, NEW x \in S
    PROVE  /\ Len(q) \in Nat /\ Len(q) >= 1 /\ Last(q) = q[Len(q)] /\ Last(q) \in S
           /\ Front(q) \in Seq(S) /\ Len(Front(q)) = Len(q) - 1
           /\ \A i \in 1..(Len(q) - 1) : Front(q)[i] = q[i]
           /\ Append(Front(q), x) \in Seq(S) /\ Len(Append(Front(q), x)) = Len(q)
           /\ \A i \in 1..Len(q) : Append(Front(q), x)[i] = IF i = Len(q) THEN x ELSE q[i]
  <1> DEFINE n == Len(q)
             front == Front(q)
  <1>1. n \in Nat /\ n >= 1 /\ Last(q) = q[n] /\ Last(q) \in S
    BY DEF Last
  <1>2. /\ front \in Seq(S) /\ Len(front) = n - 1
        /\ \A i \in 1..(n - 1) : front[i] = q[i]
    <2>1. PICK f : f = SubSeq(q, 1, n - 1)
      OBVIOUS
    <2>2. f \in Seq(S) /\ Len(f) = n - 1 /\ \A i \in 1..(n - 1) : f[i] = q[i]
      <3>1. n - 1 \in Int /\ \A i \in 1..(n - 1) : q[i] \in S
        BY <1>1
      <3>2. /\ f \in Seq(S) /\ Len(f) = (IF 1 <= n - 1 THEN (n - 1) - 1 + 1 ELSE 0)
            /\ \A i \in 1..((n - 1) - 1 + 1) : f[i] = q[1 + i - 1]
        BY <2>1, <3>1, SubSeqProperties
      <3>3. (n - 1) - 1 + 1 = n - 1 /\ (~(1 <= n - 1) => n - 1 = 0)
        <4> HIDE DEF n
        <4> QED
          BY <1>1
      <3>4. \A i \in 1..(n - 1) : 1 + i - 1 = i
        BY <1>1
      <3> HIDE DEF n
      <3> QED
        BY <3>2, <3>3, <3>4
    <2>3. front = f
      BY <2>1 DEF Front
    <2> HIDE DEF front
    <2> QED
      BY <2>2, <2>3
  <1> HIDE DEF front, n
  <1>3. PICK u : u = Append(front, x)
    OBVIOUS
  <1>4. /\ u \in Seq(S) /\ Len(u) = n /\ u[n] = x
        /\ \A i \in 1..(n - 1) : u[i] = front[i]
    BY <1>1, <1>2, <1>3, AppendProperties
  <1>5. \A i \in 1..n : u[i] = IF i = n THEN x ELSE q[i]
    BY <1>1, <1>2, <1>4
  <1> QED
    BY <1>1, <1>2, <1>3, <1>4, <1>5 DEF front, n

\* A check keeps the barriers of a section in order, which end with the sample.
LEMMA CheckOrders ==
    ASSUME NEW section \in Section, section.barriers = <<>> \/ Ordered(section.barriers),
           NEW r \in RobotSamples, NEW index \in Index, NEW next \in Index,
           index.trace = next.trace, index.sample < next.sample,
           AllEnd(section.barriers, index)
    PROVE  LET checked == Check(section, r, index)
               b == section.barriers
           IN  /\ checked \in Section /\ checked.human = section.human
               /\ Ordered(checked.barriers) /\ AllEnd(checked.barriers, next)
               /\ \A i \in 1..Len(checked.barriers) :
                     \/ checked.barriers[i].range.initial = index
                     \/ /\ i \in 1..Len(b)
                        /\ checked.barriers[i].range.initial = b[i].range.initial
  <1> DEFINE b == section.barriers
             n == Len(b)
             checked == Check(section, r, index)
  <1>1. /\ b \in Seq(Barrier) /\ n \in Nat /\ section.human \in HumanSamples
        /\ \A i \in 1..n : /\ b[i] \in Barrier /\ b[i].range \in TraceSampleRange
                           /\ EndsBefore(b[i].range, index)
        /\ RobotDistance[section.human][r] \in Nat
    <2>1. b \in Seq(Barrier) /\ section.human \in HumanSamples
      BY BarriersAreSequences
    <2> QED
      BY <2>1, BarrierFields, RobotDistances DEF AllEnd
  <1>2. /\ Nearing(b) /\ \A i \in 1..n : RangeFits(b[i].range)
        /\ \A i, k \in 1..n : i < k => EndsBefore(b[i].range, b[k].range.initial)
    <2>1. CASE b = <<>>
      <3>1. n = 0 /\ \A i \in 1..n : FALSE
        BY <2>1
      <3> QED
        BY <3>1 DEF Nearing
    <2>2. CASE Ordered(b)
      BY <2>2 DEF Ordered
    <2> QED
      BY <2>1, <2>2
  <1>3. ASSUME NEW i \in 1..n
        PROVE  EndsBefore(b[i].range, next)
    <2>1. index.sample <= next.sample
      BY DEF Index
    <2> QED
      BY <2>1, <1>1, EndsLater
  <1>4. CASE SectionCollides(section)
    <2>1. checked = section /\ b # <<>>
      BY <1>4 DEF Check, SectionCollides
    <2> QED
      BY <2>1, <1>3 DEF AllEnd
  <1>5. ASSUME NEW u, u \in Seq(Barrier), checked.barriers = u, ~SectionCollides(section)
        PROVE  checked \in Section /\ checked.human = section.human
    <2>1. PICK q : checked = [section EXCEPT !.barriers = q]
      BY <1>5 DEF Check
    <2>2. checked = [human |-> section.human, barriers |-> q]
      BY <2>1, Replaced
    <2>3. q = u
      BY <2>2, <1>5
    <2> HIDE DEF checked
    <2> QED
      BY <2>2, <2>3, <1>1, <1>5 DEF Section
  <1>6. Nearing(checked.barriers)
    BY <1>2, CheckKeepsNearing
  <1>7. CASE ~SectionCollides(section) /\ checked.barriers = Appended(section, r, index)
    <2> DEFINE new == [distance |-> RobotDistance[section.human][r], range |-> RangeAt(index)]
    <2>1. /\ RangeAt(index) \in TraceSampleRange /\ RangeFits(RangeAt(index))
          /\ RangeAt(index).initial = index /\ EndsBefore(RangeAt(index), next)
      BY NewRange
    <2>2. new \in Barrier /\ new.range = RangeAt(index)
      BY <2>1, <1>1 DEF Barrier
    <2> HIDE DEF new
    <2>3. PICK u : /\ u = checked.barriers /\ u \in Seq(Barrier) /\ Len(u) = n + 1 /\ u[n + 1] = new
                   /\ \A i \in 1..n : u[i] = b[i]
      <3>1. Appended(section, r, index) = Append(b, new)
        BY DEF Appended, new
      <3>2. /\ Append(b, new) \in Seq(Barrier) /\ Len(Append(b, new)) = n + 1
            /\ Append(b, new)[n + 1] = new /\ \A i \in 1..n : Append(b, new)[i] = b[i]
        BY <1>1, <2>2, AppendProperties
      <3> QED
        BY <3>1, <3>2, <1>7
    <2>4. \A i \in 1..(n + 1) : i = n + 1 \/ i \in 1..n
      BY <1>1
    <2>5. \A i, k \in 1..(n + 1) : i < k => i \in 1..n
      BY <1>1
    <2> HIDE DEF checked, b, n
    <2>6. Ordered(u)
      <3>1. u # <<>>
        BY <1>1, <2>3
      <3>2. \A i \in 1..(n + 1) : RangeFits(u[i].range)
        BY <1>2, <2>1, <2>2, <2>3, <2>4
      <3>3. ASSUME NEW i \in 1..(n + 1), NEW k \in 1..(n + 1), i < k
            PROVE  EndsBefore(u[i].range, u[k].range.initial)
        <4>1. i \in 1..n /\ u[i] = b[i]
          BY <2>3, <2>5, <3>3
        <4>2. CASE k = n + 1
          BY <4>1, <4>2, <1>1, <2>1, <2>2, <2>3
        <4>3. CASE k \in 1..n
          BY <4>1, <4>3, <1>2, <2>3, <3>3
        <4> QED
          BY <2>4, <4>2, <4>3
      <3>4. Nearing(u)
        BY <1>6, <2>3
      <3> QED
        BY <2>3, <3>1, <3>2, <3>3, <3>4 DEF Ordered
    <2>7. \A i \in 1..(n + 1) : EndsBefore(u[i].range, next)
      BY <1>3, <2>1, <2>2, <2>3, <2>4
    <2>8. \A i \in 1..(n + 1) : \/ u[i].range.initial = index
                                \/ i \in 1..n /\ u[i].range.initial = b[i].range.initial
      BY <2>1, <2>2, <2>3, <2>4
    <2> QED
      BY <1>5, <1>7, <2>3, <2>6, <2>7, <2>8 DEF AllEnd, checked, b, n
  <1>8. CASE ~SectionCollides(section) /\ b # <<>> /\ checked.barriers = Extended(section, index)
    <2> DEFINE new == UpdateWith(Last(b), index)
    <2>1. n >= 1 /\ n \in 1..n /\ Last(b) = b[n]
      BY <1>1, <1>8 DEF Last
    <2>2. /\ new \in Barrier /\ RangeFits(new.range)
          /\ new.range.initial = b[n].range.initial /\ EndsBefore(new.range, next)
      BY <1>1, <1>2, <2>1, UpdatedRange
    <2> HIDE DEF new
    <2>3. PICK u : /\ u = checked.barriers /\ u \in Seq(Barrier) /\ Len(u) = n
                   /\ \A i \in 1..n : u[i] = IF i = n THEN new ELSE b[i]
      <3>1. Extended(section, index) = Append(Front(b), new)
        BY DEF Extended, new
      <3>2. /\ Append(Front(b), new) \in Seq(Barrier) /\ Len(Append(Front(b), new)) = n
            /\ \A i \in 1..n : Append(Front(b), new)[i] = IF i = n THEN new ELSE b[i]
        <4>1. b \in Seq(Barrier) /\ b # <<>>
          BY <1>1, <1>8
        <4> HIDE DEF b
        <4> QED
          BY <4>1, <2>2, LastReplaced
      <3> QED
        BY <3>1, <3>2, <1>8
    <2> HIDE DEF checked, b, n
    <2>4. \A i, k \in 1..n : i < k => i # n
      BY <1>1
    <2>5. Ordered(u)
      <3>1. u # <<>>
        BY <1>1, <2>1, <2>3
      <3>2. \A i \in 1..n : RangeFits(u[i].range)
        BY <1>2, <2>2, <2>3
      <3>3. ASSUME NEW i \in 1..n, NEW k \in 1..n, i < k
            PROVE  EndsBefore(u[i].range, u[k].range.initial)
        <4>1. u[i] = b[i] /\ u[k].range.initial = b[k].range.initial
          BY <2>2, <2>3, <2>4, <3>3
        <4> QED
          BY <4>1, <1>2, <3>3
      <3>4. Nearing(u)
        BY <1>6, <2>3
      <3> QED
        BY <2>3, <3>1, <3>2, <3>3, <3>4 DEF Ordered
    <2>6. \A i \in 1..n : EndsBefore(u[i].range, next) /\ u[i].range.initial = b[i].range.initial
      BY <1>3, <2>2, <2>3
    <2> QED
      BY <1>5, <1>8, <2>3, <2>5, <2>6 DEF AllEnd, checked, b, n
  <1> QED
    BY <1>4, <1>7, <1>8, CheckCases

\* Sections in a list are sections, whose barriers have ranges.
LEMMA SectionsAre ==
    ASSUME NEW sections \in Seq(Section)
    PROVE  /\ Len(sections) \in Nat
           /\ \A k \in 1..Len(sections) :
                 /\ sections[k] \in Section /\ sections[k].barriers \in Seq(Barrier)
                 /\ sections[k].human \in HumanSamples
                 /\ \A i \in 1..Len(sections[k].barriers) :
                       sections[k].barriers[i].range \in TraceSampleRange
  <1>1. Len(sections) \in Nat /\ \A k \in 1..Len(sections) : sections[k] \in Section
    OBVIOUS
  <1> QED
    BY <1>1, BarriersAreSequences, BarrierFields

\* A section may follow a list when its barriers begin after those of the list.
LEMMA ChainedAppend ==
    ASSUME NEW q \in Seq(Section), Chained(q), NEW x \in Section, Ordered(x.barriers),
           \A k \in 1..Len(q) :
              \A i \in 1..Len(q[k].barriers), l \in 1..Len(x.barriers) :
                  EndsBefore(q[k].barriers[i].range, x.barriers[l].range.initial),
           NEW next \in Index, Done(q, next), AllEnd(x.barriers, next)
    PROVE  /\ Append(q, x) \in Seq(Section) /\ Append(q, x) # <<>>
           /\ Chained(Append(q, x)) /\ Done(Append(q, x), next)
  <1> DEFINE n == Len(q)
  <1>1. PICK u : u = Append(q, x)
    OBVIOUS
  <1>2. /\ u \in Seq(Section) /\ Len(u) = n + 1 /\ u[n + 1] = x /\ n \in Nat
        /\ \A k \in 1..n : u[k] = q[k]
    BY <1>1, AppendProperties
  <1>3. \A k \in 1..(n + 1) : k = n + 1 \/ k \in 1..n
    BY <1>2
  <1>4. \A k, l \in 1..(n + 1) : k < l => k \in 1..n
    BY <1>2
  <1>5. u # <<>>
    BY <1>2
  <1> HIDE DEF n
  <1>6. \A k \in 1..(n + 1) : Ordered(u[k].barriers) /\ AllEnd(u[k].barriers, next)
    BY <1>2, <1>3 DEF Chained, Done, n
  <1>7. ASSUME NEW k \in 1..(n + 1), NEW l \in 1..(n + 1), k < l
        PROVE  \A i \in 1..Len(u[k].barriers), o \in 1..Len(u[l].barriers) :
                  EndsBefore(u[k].barriers[i].range, u[l].barriers[o].range.initial)
    <2>1. k \in 1..n /\ u[k] = q[k]
      BY <1>2, <1>4, <1>7
    <2>2. CASE l = n + 1
      BY <2>1, <2>2, <1>2 DEF n
    <2>3. CASE l \in 1..n
      BY <2>1, <2>3, <1>2, <1>7 DEF Chained, n
    <2> QED
      BY <1>3, <2>2, <2>3
  <1> QED
    BY <1>1, <1>2, <1>5, <1>6, <1>7 DEF Chained, Done

\* What the update policies make of the sections: nothing, a check of the last one, or
\* of another one after them.
LEMMA SequenceCases ==
    ASSUME NEW sections \in Seq(Section), Chained(sections), NEW h \in HumanSamples,
           NEW r \in RobotSamples, NEW index \in Index, NEW policy \in Policies
    PROVE  LET checked == CheckSequence(policy, sections, h, r, index)
           IN  \/ sections # <<>> /\ checked = sections
               \/ sections # <<>> /\ checked = Append(Front(sections), Check(Last(sections), r, index))
               \/ checked = Append(sections, Check(NewSection(h), r, index))
  <1> DEFINE new == Check(NewSection(h), r, index)
             last == Last(sections)
             begun == IF sections = <<>> THEN <<NewSection(h)>> ELSE sections
             asked == Policy(policy, begun, h, r, index)
  <1>1. NewSection(h) \in Section /\ NewSection(h).barriers = <<>> /\ NewSection(h).human = h
    BY DEF NewSection, Section
  <1>2. new.barriers # <<>>
    <2>1. new.barriers = Appended(NewSection(h), r, index)
      BY <1>1, CheckCases DEF SectionCollides
    <2>2. Len(Appended(NewSection(h), r, index)) = Len(NewSection(h).barriers) + 1
      BY <1>1, AppendedProperties
    <2>3. Len(NewSection(h).barriers) = 0
      BY <1>1
    <2>4. Len(new.barriers) = 1
      BY <2>1, <2>2, <2>3
    <2>5. Len(<<>>) = 0 /\ 0 # 1
      BY EmptySeq
    <2> HIDE DEF new
    <2> QED
      BY <2>4, <2>5, Zenon
  <1>3. CheckSequence(policy, sections, h, r, index) =
            IF Last(asked).barriers = <<>> THEN Front(asked) ELSE asked
    BY DEF CheckSequence
  <1>4. CASE sections = <<>>
    <2>1. begun = <<NewSection(h)>> /\ Last(begun) = NewSection(h) /\ Front(begun) = <<>>
      BY <1>4 DEF Last, Front
    <2>2. asked = Append(<<>>, new)
      <3>1. ReplaceLast(begun, new) = Append(<<>>, new)
        BY <2>1 DEF ReplaceLast
      <3>2. CASE policy = "keep one"
        BY <3>1, <3>2, <2>1 DEF Policy, KeepOne
      <3>3. CASE policy = "different"
        BY <3>1, <3>3, <2>1, <1>1 DEF Policy, AddWhenDifferent
      <3>4. CASE policy = "necessary"
        BY <3>1, <3>4, <2>1, <1>1 DEF Policy, AddWhenNecessary
      <3> QED
        BY <3>2, <3>3, <3>4 DEF Policies
    <2>3. Last(asked) = new
      <3> HIDE DEF new
      <3>1. Append(<<>>, new) = <<new>>
        OBVIOUS
      <3>2. Last(<<new>>) = new
        BY DEF Last
      <3> QED
        BY <3>1, <3>2, <2>2
    <2> QED
      BY <2>2, <2>3, <1>2, <1>3, <1>4
  <1>5. CASE sections # <<>>
    <2> DEFINE checked == Check(last, r, index)
               cut == [checked EXCEPT !.barriers = Front(@)]
    <2>1. /\ begun = sections /\ last \in Section /\ Len(sections) \in Nat /\ Len(sections) >= 1
          /\ last = sections[Len(sections)] /\ last.barriers # <<>>
      <3>1. Len(sections) \in Nat /\ Len(sections) >= 1 /\ last = sections[Len(sections)]
        BY <1>5 DEF Last
      <3>2. last \in Section /\ Ordered(last.barriers)
        BY <3>1, SectionsAre DEF Chained
      <3> QED
        BY <3>1, <3>2, <1>5 DEF Ordered
    <2> HIDE DEF last
    <2>2. checked.barriers # <<>>
      <3>1. CASE checked.barriers = last.barriers
        BY <3>1, <2>1
      <3>2. CASE checked.barriers = Appended(last, r, index)
        <4>1. Len(Appended(last, r, index)) = Len(last.barriers) + 1 /\ Len(last.barriers) \in Nat
          BY <2>1, AppendedProperties, BarriersAreSequences
        <4> HIDE DEF checked
        <4> QED
          BY <3>2, <4>1
      <3>3. CASE checked.barriers = Extended(last, index)
        <4>1. Len(Extended(last, index)) = Len(last.barriers) /\ Len(last.barriers) > 0
          BY <2>1, ExtendedProperties, BarriersAreSequences
        <4> HIDE DEF checked
        <4> QED
          BY <3>3, <4>1
      <3> QED
        BY <2>1, <3>1, <3>2, <3>3, CheckCases
    <2>3. ASSUME NEW x \in {checked, new}, NEW q, q \in Seq(Section) \/ q = <<>>,
                 asked = Append(q, x)
          PROVE  Last(asked).barriers # <<>>
      <3>1. x.barriers # <<>>
        BY <1>2, <2>2, <2>3
      <3>2. Last(Append(q, x)) = x
        <4>1. q \in Seq(Section \cup {x}) /\ x \in Section \cup {x}
          <5>1. CASE q \in Seq(Section)
            BY <5>1
          <5>2. CASE q = <<>>
            BY <5>2
          <5> QED
            BY <5>1, <5>2, <2>3
        <4>2. Len(Append(q, x)) = Len(q) + 1 /\ Append(q, x)[Len(q) + 1] = x
          BY <4>1, AppendProperties
        <4> QED
          BY <4>2 DEF Last
      <3> HIDE DEF asked
      <3> QED
        BY <3>1, <3>2, <2>3
    <2>4. Front(sections) \in Seq(Section)
      BY <1>5, <2>1, LastReplaced
    <2>5. ASSUME asked = Append(Front(sections), checked)
          PROVE  CheckSequence(policy, sections, h, r, index) = Append(Front(sections), checked)
      <3>1. Last(asked).barriers # <<>>
        BY <2>3, <2>4, <2>5
      <3> QED
        BY <3>1, <2>5, <1>3
    <2>6. ASSUME asked = Append(sections, new)
          PROVE  CheckSequence(policy, sections, h, r, index) = Append(sections, new)
      <3>1. Last(asked).barriers # <<>>
        BY <2>3, <2>6
      <3> QED
        BY <3>1, <2>6, <1>3
    <2>7. ASSUME asked = sections
          PROVE  CheckSequence(policy, sections, h, r, index) = sections
      BY <2>1, <2>7, <1>3 DEF last
    <2>8. ASSUME ~SectionCollides(last), ~(RobotDistance[checked.human][r] > 0)
          PROVE  cut = last
      <3>1. checked.human = last.human /\ last.human \in HumanSamples
        <4>1. \/ checked = last
              \/ \E b : checked = [last EXCEPT !.barriers = b]
          BY DEF Check
        <4> QED
          BY <4>1, <2>1 DEF Section
      <3>2. RobotDistance[last.human][r] = 0
        <4>1. RobotDistance[last.human][r] \in Nat /\ RobotDistance[checked.human][r] = RobotDistance[last.human][r]
          BY <3>1, RobotDistances
        <4> QED
          BY <4>1, <2>8
      <3>3. Last(last.barriers).distance \in Nat /\ Last(last.barriers).distance # 0
        BY <2>1, <2>8, BarriersAreSequences DEF SectionCollides, Barrier
      <3>4. Nearer(last, r)
        BY <3>2, <3>3 DEF Nearer
      <3> DEFINE b == last.barriers
                 x == [distance |-> RobotDistance[last.human][r], range |-> RangeAt(index)]
      <3>5. checked = [last EXCEPT !.barriers = Append(b, x)]
        BY <2>8, <3>4 DEF Check
      <3>6. x \in Barrier
        <4>1. RangeAt(index) \in TraceSampleRange
          <5>1. <<index.sample>> \in Seq(Nat)
            BY DEF Index
          <5> QED
            BY <5>1 DEF RangeAt, TraceSampleRange
        <4> QED
          BY <4>1, <3>2 DEF Barrier
      <3>7. b \in Seq(Barrier)
        BY <2>1, BarriersAreSequences
      <3>8. Front(Append(b, x)) = b
        <4> HIDE DEF b, x
        <4>6. /\ Append(b, x) \in Seq(Barrier) /\ Len(Append(b, x)) = Len(b) + 1
              /\ \A i \in 1..Len(b) : Append(b, x)[i] = b[i]
          BY <3>6, <3>7, AppendProperties
        <4>1. PICK u : u = Append(b, x) /\ u \in Seq(Barrier) /\ Len(u) = Len(b) + 1
                       /\ \A i \in 1..Len(b) : u[i] = b[i]
          BY <4>6
        <4>2. u # <<>> /\ Len(b) \in Nat
          BY <4>1, <3>7
        <4>3. /\ Front(u) \in Seq(Barrier) /\ Len(Front(u)) = Len(u) - 1
              /\ \A i \in 1..(Len(u) - 1) : Front(u)[i] = u[i]
          <5>1. PICK c \in Barrier : TRUE
            BY <3>6
          <5> QED
            BY <4>1, <4>2, <5>1, LastReplaced
        <4>4. Len(Front(u)) = Len(b) /\ \A i \in 1..Len(b) : Front(u)[i] = b[i]
          <5>1. Len(u) - 1 = Len(b)
            BY <4>1, <4>2
          <5> QED
            BY <4>1, <4>3, <5>1
        <4>5. Front(u) = b
          BY <4>3, <4>4, <3>7, SeqEqual
        <4> QED
          BY <4>1, <4>5
      <3>9. \A y : [last EXCEPT !.barriers = y] = [human |-> last.human, barriers |-> y]
        BY <2>1, Replaced
      <3>10. checked = [human |-> last.human, barriers |-> Append(b, x)]
        BY <3>5, <3>9
      <3>11. cut = [human |-> last.human, barriers |-> Front(Append(b, x))]
        <4> HIDE DEF checked, x, b
        <4> QED
          BY <3>10
      <3>12. last = [human |-> last.human, barriers |-> last.barriers]
        BY <2>1 DEF Section
      <3> QED
        BY <3>8, <3>11, <3>12
    <2>9. ReplaceLast(sections, last) = sections
      <3> DEFINE q == Append(Front(sections), last)
      <3>1. /\ q \in Seq(Section) /\ Len(q) = Len(sections)
            /\ \A i \in 1..Len(sections) : q[i] = IF i = Len(sections) THEN last ELSE sections[i]
        BY <1>5, <2>1, LastReplaced
      <3> HIDE DEF q
      <3>2. q = sections
        BY <3>1, <2>1, SeqEqual
      <3> QED
        BY <3>2 DEF ReplaceLast, q
    <2>10. sections \o <<new>> = Append(sections, new)
      <3> HIDE DEF new
      <3>1. sections \in Seq(Section \cup {new})
        OBVIOUS
      <3> QED
        BY <3>1
    <2> HIDE DEF checked, new
    <2>11. CASE policy = "keep one"
      <3>1. asked = Append(Front(sections), checked)
        BY <2>1, <2>11 DEF Policy, KeepOne, ReplaceLast, last, checked
      <3> QED
        BY <3>1, <2>5, <1>5 DEF checked, last
    <2>12. CASE policy = "different"
      <3>1. \/ asked = Append(Front(sections), checked)
            \/ asked = sections
            \/ asked = Append(sections, new)
        BY <2>1, <2>12 DEF Policy, AddWhenDifferent, ReplaceLast, last, checked, new
      <3> QED
        BY <3>1, <2>5, <2>6, <2>7, <1>5 DEF checked, last, new
    <2>13. CASE policy = "necessary"
      <3>1. \/ asked = Append(Front(sections), checked)
            \/ asked = sections
            \/ /\ ~SectionCollides(last) /\ ~(RobotDistance[checked.human][r] > 0)
               /\ asked = ReplaceLast(sections, cut) \o <<new>>
        BY <2>1, <2>13 DEF Policy, AddWhenNecessary, ReplaceLast, last, checked, new
      <3>2. asked = ReplaceLast(sections, cut) \o <<new>>
                /\ ~SectionCollides(last) /\ ~(RobotDistance[checked.human][r] > 0)
                => asked = Append(sections, new)
        BY <2>8, <2>9, <2>10
      <3> QED
        BY <3>1, <3>2, <2>5, <2>6, <2>7, <1>5 DEF checked, last, new
    <2> QED
      BY <2>11, <2>12, <2>13 DEF Policies
  <1> QED
    BY <1>4, <1>5

LEMMA FrontOfSections ==
    ASSUME NEW q \in Seq(Section), q # <<>>
    PROVE  /\ Last(q) = q[Len(q)] /\ Front(q) \in Seq(Section)
           /\ Len(Front(q)) = Len(q) - 1
           /\ \A k \in 1..(Len(q) - 1) : Front(q)[k] = q[k]
  <1>1. q[1] \in Section
    BY EmptySeq
  <1> QED
    BY <1>1, LastReplaced

\* The sections stay in order, and end with the sample that was checked.
LEMMA SequenceOrders ==
    ASSUME NEW sections \in Seq(Section), Chained(sections), NEW h \in HumanSamples,
           NEW r \in RobotSamples, NEW index \in Index, NEW next \in Index,
           index.trace = next.trace, index.sample < next.sample,
           NEW policy \in Policies, Done(sections, index)
    PROVE  LET checked == CheckSequence(policy, sections, h, r, index)
           IN  checked \in Seq(Section) /\ Chained(checked) /\ Done(checked, next)
  <1> DEFINE checked == CheckSequence(policy, sections, h, r, index)
             n == Len(sections)
  <1>1. Done(sections, next)
    <2>1. ASSUME NEW k \in 1..n, NEW i \in 1..Len(sections[k].barriers)
          PROVE  EndsBefore(sections[k].barriers[i].range, next)
      <3>1. EndsBefore(sections[k].barriers[i].range, index)
        BY DEF Done, AllEnd
      <3>2. index.sample <= next.sample
        BY DEF Index
      <3> QED
        BY <3>1, <3>2, SectionsAre, EndsLater
    <2> QED
      BY <2>1 DEF Done, AllEnd
  <1>2. CASE checked = sections
    BY <1>1, <1>2
  <1>3. CASE sections # <<>> /\ checked = Append(Front(sections), Check(Last(sections), r, index))
    <2> DEFINE last == sections[n]
               new == Check(last, r, index)
               q == Front(sections)
    <2>1. /\ n \in Nat /\ n >= 1 /\ Last(sections) = last /\ q \in Seq(Section) /\ Len(q) = n - 1
          /\ \A k \in 1..(n - 1) : q[k] = sections[k]
      <3>1. n \in Nat /\ n >= 1 /\ last \in Section
        BY <1>3
      <3> HIDE DEF last
      <3>2. /\ Last(sections) = sections[n] /\ Front(sections) \in Seq(Section)
            /\ Len(Front(sections)) = n - 1
            /\ \A k \in 1..(n - 1) : Front(sections)[k] = sections[k]
        BY <1>3, FrontOfSections, Zenon
      <3>3. Last(sections) = last
        BY <3>2 DEF last
      <3> HIDE DEF n
      <3> QED
        BY <3>1, <3>2, <3>3
    <2>2. n \in 1..n /\ \A k \in 1..(n - 1) : k \in 1..n /\ k < n
      BY <2>1
    <2>3. \A k, l \in 1..(n - 1) : k < l => k \in 1..n /\ l \in 1..n
      BY <2>2
    <2>4. last \in Section /\ Ordered(last.barriers) /\ AllEnd(last.barriers, index)
      BY <2>2, SectionsAre DEF Chained, Done
    <2> HIDE DEF q
    <2>5. Chained(q) /\ Done(q, next)
      <3>1. \A k \in 1..(n - 1) : Ordered(q[k].barriers) /\ AllEnd(q[k].barriers, next)
        BY <1>1, <2>1, <2>2 DEF Chained, Done
      <3>2. ASSUME NEW k \in 1..(n - 1), NEW l \in 1..(n - 1), k < l
            PROVE  \A i \in 1..Len(q[k].barriers), o \in 1..Len(q[l].barriers) :
                      EndsBefore(q[k].barriers[i].range, q[l].barriers[o].range.initial)
        BY <2>1, <2>3, <3>2 DEF Chained
      <3> HIDE DEF n
      <3> QED
        BY <2>1, <3>1, <3>2 DEF Chained, Done
    <2>6. /\ new \in Section /\ Ordered(new.barriers) /\ AllEnd(new.barriers, next)
          /\ \A l \in 1..Len(new.barriers) :
                \/ new.barriers[l].range.initial = index
                \/ /\ l \in 1..Len(last.barriers)
                   /\ new.barriers[l].range.initial = last.barriers[l].range.initial
      <3> HIDE DEF last
      <3> QED
        BY <2>4, CheckOrders
    <2>7. ASSUME NEW k \in 1..Len(q)
          PROVE  \A i \in 1..Len(q[k].barriers), l \in 1..Len(new.barriers) :
                    EndsBefore(q[k].barriers[i].range, new.barriers[l].range.initial)
      <3>1. q[k] = sections[k] /\ k \in 1..n /\ k < n
        BY <2>1, <2>2
      <3>2. \A i \in 1..Len(sections[k].barriers) :
               /\ EndsBefore(sections[k].barriers[i].range, index)
               /\ \A l \in 1..Len(last.barriers) :
                     EndsBefore(sections[k].barriers[i].range, last.barriers[l].range.initial)
        BY <2>2, <3>1 DEF Chained, Done, AllEnd
      <3> HIDE DEF new, last
      <3> QED
        BY <2>6, <3>1, <3>2
    <2> HIDE DEF new
    <2>8. /\ Append(q, new) \in Seq(Section) /\ Chained(Append(q, new)) /\ Done(Append(q, new), next)
      BY <2>1, <2>5, <2>6, <2>7, ChainedAppend
    <2>9. checked = Append(q, new)
      BY <1>3, <2>1 DEF q, new
    <2> HIDE DEF checked
    <2> QED
      BY <2>8, <2>9 DEF checked
  <1>4. CASE checked = Append(sections, Check(NewSection(h), r, index))
    <2> DEFINE new == Check(NewSection(h), r, index)
    <2>1. NewSection(h) \in Section /\ NewSection(h).barriers = <<>>
      BY DEF NewSection, Section
    <2>2. AllEnd(NewSection(h).barriers, index) /\ Len(NewSection(h).barriers) = 0
      BY <2>1 DEF AllEnd
    <2>3. /\ new \in Section /\ Ordered(new.barriers) /\ AllEnd(new.barriers, next)
          /\ \A l \in 1..Len(new.barriers) :
                \/ new.barriers[l].range.initial = index
                \/ l \in 1..Len(NewSection(h).barriers)
      BY <2>1, <2>2, CheckOrders
    <2>4. \A l \in 1..Len(new.barriers) : new.barriers[l].range.initial = index
      BY <2>2, <2>3
    <2> HIDE DEF new
    <2>5. ASSUME NEW k \in 1..n
          PROVE  \A i \in 1..Len(sections[k].barriers), l \in 1..Len(new.barriers) :
                    EndsBefore(sections[k].barriers[i].range, new.barriers[l].range.initial)
      BY <2>4 DEF Done, AllEnd
    <2>6. /\ Append(sections, new) \in Seq(Section) /\ Chained(Append(sections, new))
          /\ Done(Append(sections, new), next)
      BY <1>1, <2>3, <2>5, ChainedAppend
    <2> HIDE DEF checked
    <2> QED
      BY <1>4, <2>6 DEF new, checked
  <1> QED
    BY <1>2, <1>3, <1>4, SequenceCases

=============================================================================
