------------------------------- MODULE ModeTraces ------------------------------
(***************************************************************************)
(* ModeTrace (mode.cpp): the sequence of the modes of a robot, of which all  *)
(* that matters is whether two of them are equal.  Indices count from 1, so *)
(* that 0 stands for the -1 of the code.  The likelihood of an entry is left *)
(* to NextModes, whose weights are those of the entries that are pushed.    *)
(***************************************************************************)
EXTENDS Naturals, Sequences, FiniteSets, SequencesExt

ForwardIndex(trace, mode) == SelectInSeq(trace, LAMBDA q : q = mode)
BackwardIndex(trace, mode) == SelectLastInSeq(trace, LAMBDA q : q = mode)

HasLooped(trace) == \E i \in 1..(Len(trace) - 1) : trace[i] = Last(trace)

(* reduce_between, with its two assertions.                                 *)
CanReduce(trace, lower, upper) == trace # <<>> /\ lower <= upper
ReduceBetween(trace, lower, upper) == SubSeq(trace, lower, upper)

(* merge: t2 preceded by the modes of t1, which must have one.              *)
Merge(t1, t2) == (IF Last(t1) = Head(t2) THEN Front(t1) ELSE t1) \o t2

-----------------------------------------------------------------------------
(* next_modes: the occurrences of the last mode are compared backwards with  *)
(* the end of the trace, one mode more in every round.                      *)
Occurrences(trace) == {i \in 1..(Len(trace) - 1) : trace[i] = Last(trace)}

\* Mutant: the first mode of the trace is never compared.
RoundSkippingFirst(trace, valid, k) ==
    {i \in valid : i > k + 1 /\ trace[i - k] = trace[Len(trace) - k]}

Round(trace, valid, k) ==
    {i \in valid : i > k /\ trace[i - k] = trace[Len(trace) - k]}

Rounds(trace) ==
    LET valid[k \in 0..Len(trace)] ==
            IF k = 0 THEN Occurrences(trace) ELSE Round(trace, valid[k - 1], k)
    IN  valid

\* Those that were still valid in the last round that had any.
Longest(trace) ==
    LET rounds == Rounds(trace)
        k == CHOOSE n \in 0..(Len(trace) - 1) :
                 rounds[n + 1] = {} /\ (n > 0 => rounds[n] # {})
    IN  rounds[k]

NextModes(trace) == {trace[i + 1] : i \in Longest(trace)}

-----------------------------------------------------------------------------
(* What next_modes is for: the modes that followed the occurrences of the    *)
(* last mode whose past agrees with the present for longest.                *)
Agreement(trace, i) ==
    Cardinality({k \in 0..(i - 1) :
        \A j \in 0..k : trace[i - j] = trace[Len(trace) - j]})

Successors(trace) ==
    {trace[i + 1] : i \in {o \in Occurrences(trace) :
        \A p \in Occurrences(trace) : Agreement(trace, o) >= Agreement(trace, p)}}
=============================================================================
