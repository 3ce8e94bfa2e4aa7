------------------------------- MODULE ModeValues ------------------------------
(***************************************************************************)
(* The values of the class Mode (mode.cpp) and their comparison.  A mode is a *)
(* sequence of variables with their values, in the order of the variables as *)
(* a map keeps it; the empty one is that of a robot not seen yet.  Names are *)
(* numbers, in the order of the strings they stand for.                     *)
(***************************************************************************)
EXTENDS Integers, Sequences

Entry == [variable : Nat, value : Nat]

Ascending(q) == \A i, k \in 1..Len(q) : i < k => q[i].variable < q[k].variable

ModeValue == {q \in Seq(Entry) : Ascending(q)}
EmptyMode == <<>>

\* operator==: modes that have no variable on which they differ must be equal,
\* or the assertion fails.
DifferOn(q1, q2) ==
    \E i \in 1..Len(q1), k \in 1..Len(q2) :
        q1[i].variable = q2[k].variable /\ q1[i].value # q2[k].value

CanCompare(q1, q2) == q1 = q2 \/ DifferOn(q1, q2)

EntryLess(e1, e2) ==
    \/ e1.variable < e2.variable
    \/ e1.variable = e2.variable /\ e1.value < e2.value

\* operator<: the first place where the modes differ decides, and a mode that
\* ends there comes first.
DecidedAt(q1, q2, n) ==
    /\ \A i \in 1..(n - 1) : q1[i] = q2[i]
    /\ n = Len(q1) + 1 \/ (n <= Len(q1) /\ EntryLess(q1[n], q2[n]))

LessThan(q1, q2) == \E n \in 1..Len(q2) : n <= Len(q1) + 1 /\ DecidedAt(q1, q2, n)
=============================================================================
