-------------------------------- MODULE Segments -------------------------------
(***************************************************************************)
(* Samples of body segments and the distances between them (body.cpp,       *)
(* geometry.cpp, barrier.cpp), along one axis, the points being integers.    *)
(* Lengths are counted in halves of their unit: centres are sums of two      *)
(* bounds and radii are differences.                                        *)
(*                                                                         *)
(* The centres, the error and the bounding sets that a sample keeps are      *)
(* functions of its bounds: update recomputes those it has.                 *)
(***************************************************************************)
EXTENDS Integers

CONSTANT Infinity   \* beyond all points

ASSUME InfinityAssumption == Infinity \in Nat \ {0}

Point == (1 - Infinity)..(Infinity - 1)

Lesser(a, b) == IF a <= b THEN a ELSE b
Greater(a, b) == IF a <= b THEN b ELSE a
Apart(a, b) == IF a <= b THEN b - a ELSE a - b

-----------------------------------------------------------------------------
(* Boxes: [lower, upper].                                                   *)

EmptyBox == [lower |-> Infinity, upper |-> -Infinity]
IsEmptyBox(b) == b.lower > b.upper
Centre(b) == b.lower + b.upper
Radius(b) == b.upper - b.lower
Hull(p1, p2) == [lower |-> Lesser(p1, p2), upper |-> Greater(p1, p2)]
Widen(b, v) == [lower |-> b.lower - v, upper |-> b.upper + v]
Disjoint(b1, b2) == b1.upper < b2.lower \/ b1.lower > b2.upper

\* The bounds with a point more: _update_head, _update_tail.
Enlarge(b, p) == [lower |-> Lesser(b.lower, p), upper |-> Greater(b.upper, p)]

-----------------------------------------------------------------------------
(* Samples.                                                                 *)

\* create_sample: a sample of a segment, without points yet.
NewSample(thickness) == [thickness |-> thickness, head |-> EmptyBox, tail |-> EmptyBox]

IsEmpty(s) == IsEmptyBox(s.head) \/ IsEmptyBox(s.tail)
HeadCentre(s) == Centre(s.head)
TailCentre(s) == Centre(s.tail)
Error(s) == IF IsEmpty(s) THEN 0 ELSE Greater(Radius(s.head), Radius(s.tail))
Thickness(s) == 2 * s.thickness
Reach(s) == Error(s) + Thickness(s)

\* update, of one point of the head or of the tail.
UpdateHead(s, p) == [s EXCEPT !.head = Enlarge(@, p)]
UpdateTail(s, p) == [s EXCEPT !.tail = Enlarge(@, p)]

\* operator!=: samples of the same segment differ if what they show differs.
Differs(s1, s2) ==
    \/ Error(s1) # Error(s2)
    \/ s1.thickness # s2.thickness
    \/ IsEmptyBox(s1.head) # IsEmptyBox(s2.head)
    \/ ~IsEmptyBox(s1.head) /\ HeadCentre(s1) # HeadCentre(s2)
    \/ IsEmptyBox(s1.tail) # IsEmptyBox(s2.tail)
    \/ ~IsEmptyBox(s1.tail) /\ TailCentre(s1) # TailCentre(s2)

Axis(s) == Hull(HeadCentre(s), TailCentre(s))
BoundingBox(s) == Widen(Axis(s), Reach(s))

\* The centre of the sphere, and the radius, are counted in quarters.
SphereCentre(s) == HeadCentre(s) + TailCentre(s)
SphereRadius(s) == Apart(HeadCentre(s), TailCentre(s)) + 2 * Reach(s)

-----------------------------------------------------------------------------
(* Distances.                                                               *)

PointDistance(p, b) ==
    IF p < b.lower THEN b.lower - p ELSE IF p > b.upper THEN p - b.upper ELSE 0

SegmentDistance(s1, s2) ==
    Greater(0, Greater(Axis(s1).lower - Axis(s2).upper, Axis(s2).lower - Axis(s1).upper))

Intersects(s1, s2) ==
    /\ ~Disjoint(BoundingBox(s1), BoundingBox(s2))
    /\ SegmentDistance(s1, s2) <= Reach(s1) + Reach(s2)

\* minimum_human_robot_distance and maximum_human_human_distance of capsules.
CapsuleRobot(human, robot) ==
    Greater(0, SegmentDistance(human, robot) - (Reach(human) + Reach(robot)))

CapsuleHuman(reference, other) ==
    Greater(0, Greater(PointDistance(HeadCentre(other), Axis(reference)),
                       PointDistance(TailCentre(other), Axis(reference)))
               + Reach(other) - Reach(reference))

\* The same of spheres, in quarters.
SphereRobot(human, robot) ==
    Greater(0, PointDistance(SphereCentre(human), [lower |-> 2 * Axis(robot).lower,
                                                   upper |-> 2 * Axis(robot).upper])
               - 2 * Reach(robot) - SphereRadius(human))

SphereHuman(reference, other) ==
    Greater(0, Apart(SphereCentre(reference), SphereCentre(other))
               + SphereRadius(other) - SphereRadius(reference))
=============================================================================
