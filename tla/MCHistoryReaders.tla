---------------------------- MODULE MCHistoryReaders ---------------------------
(* Instance of HistoryReaders for TLC: one worker that reads while a robot    *)
(* goes back and forth between its modes.                                    *)
EXTENDS HistoryReaders, TLC

CONSTANT p1

MCPlaces == [m \in Modes |-> {p1}]
MCSymmetry == Permutations(Modes)
=============================================================================
