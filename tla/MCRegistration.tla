----------------------------- MODULE MCRegistration -----------------------------
(* Instance of Registration for TLC.                                        *)
EXTENDS Registration

(* Bodies of one kind are treated alike.                                    *)
BodySymmetry == Permutations(Humans) \cup Permutations(Robots)
=============================================================================
