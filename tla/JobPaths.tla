-------------------------------- MODULE JobPaths -------------------------------
(***************************************************************************)
(* LookAheadJobPath (lookahead_job.cpp): where the trace of a job has taken   *)
(* one of several next modes, with the number of the one it took.            *)
(***************************************************************************)
EXTENDS Integers, Sequences, SequencesExt, Choosing

Node == [priority : Nat, position : Nat]

\* add: positions are positive and increase.
CanAdd(path, position) ==
    position > 0 /\ (path = <<>> \/ Last(path).position < position)
Add(path, priority, position) ==
    Append(path, [priority |-> priority, position |-> position])

RemoveUpTo(path, position) ==
    LET kept == EntriesAt(path, {i \in 1..Len(path) : path[i].position > position})
    IN  [i \in 1..Len(kept) |-> [kept[i] EXCEPT !.position = @ - position]]

RemoveAfter(path, position) ==
    SubSeq(path, 1, SelectLastInSeq(path, LAMBDA n : n.position <= position))

ReducePath(path, lower, upper) == RemoveUpTo(RemoveAfter(path, upper), lower)

Priorities(path) == [i \in 1..Len(path) |-> path[i].priority]
=============================================================================
