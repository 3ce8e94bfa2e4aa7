----------------------------- MODULE MCRobotHistory ----------------------------
(* Instance of RobotHistory for TLC: a robot of three modes, which may branch *)
(* and go round, and whose history is purged within the bound.              *)
EXTENDS RobotHistory, TLC

CONSTANT p1

MCPlaces == [m \in Modes |-> {p1}]
MCSymmetry == Permutations(Modes)
=============================================================================
