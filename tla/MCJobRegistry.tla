------------------------------ MODULE MCJobRegistry -----------------------------
(* Instance of JobRegistry for TLC: the root, a child, a grandchild.        *)
EXTENDS JobRegistry

MCPaths == {<<>>, <<0>>, <<0, 1>>}
MCTimes == {100, 200}
=============================================================================
