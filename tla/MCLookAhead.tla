------------------------------- MODULE MCLookAhead ------------------------------
(* Instance of LookAhead for TLC: a human segment at two places and a robot   *)
(* segment seen at two points, as samples on an axis.                       *)
EXTENDS LookAhead, Segments, FiniteSetsExt

MCModes == {"A", "B", "C"}
MCValueOf == [m \in MCModes \cup {NoMode} |->
    CASE m = "A" -> <<[variable |-> 1, value |-> 1]>>
      [] m = "B" -> <<[variable |-> 1, value |-> 2]>>
      [] m = "C" -> <<[variable |-> 1, value |-> 3]>>
      [] m = NoMode -> EmptyMode]

MCPoints == {3, 5}
MCPlaces == [A |-> MCPoints, B |-> {3}, C |-> {5}]

\* Human samples are named by their point.
MCHumanSamples == {0, 2}
MCRobotSamples == (SUBSET MCPoints) \ {{}}

\* The distances of the samples below, counted in halves, in a form that TLC
\* evaluates often and fast.
Nearest(h, r) == CHOOSE d \in {Apart(h, p) : p \in r} : \A p \in r : d <= Apart(h, p)
MCRobotDistance == [h \in MCHumanSamples |-> [r \in MCRobotSamples |->
    IF Nearest(h, r) <= 1 THEN 0 ELSE 2 * (Nearest(h, r) - 1)]]
MCHumanDistance == [h \in MCHumanSamples |-> [k \in MCHumanSamples |-> 2 * Apart(h, k)]]

SampleOf(points, thickness) ==
    FoldSet(LAMBDA p, s : UpdateTail(UpdateHead(s, p), p), NewSample(thickness), points)

ASSUME DistancesAreThoseOfSegments ==
    \A h \in MCHumanSamples :
        /\ \A r \in MCRobotSamples :
               /\ MCRobotDistance[h][r] = CapsuleRobot(SampleOf({h}, 0), SampleOf(r, 1))
               /\ MCRobotDistance[h][r] = 0 <=> Intersects(SampleOf({h}, 0), SampleOf(r, 1))
        /\ \A k \in MCHumanSamples :
               MCHumanDistance[h][k] = CapsuleHuman(SampleOf({h}, 0), SampleOf({k}, 0))

MCFactories == {[equivalence |-> "strong", policy |-> "different"],
                [equivalence |-> "weak", policy |-> "necessary"],
                [equivalence |-> "discard", policy |-> "different"]}
MCStrong == {[equivalence |-> "strong", policy |-> "different"]}
=============================================================================
