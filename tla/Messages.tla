-------------------------------- MODULE Messages -------------------------------
(***************************************************************************)
(* The four messages (message.hpp) and their JSON documents (serialisation,  *)
(* deserialisation).  A JSON object is a function on its member names, an    *)
(* array a sequence; JSON text stands for the document it is parsed into.    *)
(* A message carries its C++ type in the field type, which no document has.  *)
(***************************************************************************)
EXTENDS Naturals, Sequences, FiniteSets

CONSTANT Null   \* the JSON null

EmptyObject == [member \in {} |-> Null]

AddMember(object, name, value) ==
    [member \in DOMAIN object \cup {name} |-> IF member = name THEN value ELSE object[member]]

-----------------------------------------------------------------------------
(* The constructors.                                                        *)

HumanPresentation(id, pairs, thicknesses) ==
    [type |-> "presentation", id |-> id, isHuman |-> TRUE, messageFrequency |-> 0,
     segmentPairs |-> pairs, thicknesses |-> thicknesses]

RobotPresentation(id, frequency, pairs, thicknesses) ==
    [type |-> "presentation", id |-> id, isHuman |-> FALSE, messageFrequency |-> frequency,
     segmentPairs |-> pairs, thicknesses |-> thicknesses]

\* bodies: pairs of an identifier and a map from keypoints to points.
HumanState(bodies, timestamp) ==
    [type |-> "human state", bodies |-> bodies, timestamp |-> timestamp]

RobotState(id, mode, points, timestamp) ==
    [type |-> "robot state", id |-> id, mode |-> mode, points |-> points,
     timestamp |-> timestamp]

\* human and robot: a body and a segment of it.
CollisionNotification(human, robot, time, distance, mode, likelihood) ==
    [type |-> "notification", human |-> human, robot |-> robot, currentTime |-> time,
     collisionDistance |-> distance, collisionMode |-> mode, likelihood |-> likelihood]

-----------------------------------------------------------------------------
(* What a program can have constructed: lists, coordinates that are numbers,  *)
(* and a body with a thickness for each of its segments.                     *)

IsList(list) == list \in Seq({list[i] : i \in DOMAIN list})

IsPoint(point) ==
    /\ point = [x |-> point.x, y |-> point.y, z |-> point.z]
    /\ Null \notin {point.x, point.y, point.z}

IsSamples(points) == IsList(points) /\ \A i \in DOMAIN points : IsPoint(points[i])

IsPresentation(m) ==
    /\ IsList(m.segmentPairs) /\ IsList(m.thicknesses)
    /\ Len(m.thicknesses) = Len(m.segmentPairs)
    /\ \/ m = HumanPresentation(m.id, m.segmentPairs, m.thicknesses)
       \/ m = RobotPresentation(m.id, m.messageFrequency, m.segmentPairs, m.thicknesses)

IsHumanState(m) ==
    /\ IsList(m.bodies)
    /\ \A i \in DOMAIN m.bodies :
        LET keypoints == m.bodies[i].keypoints
        IN  /\ m.bodies[i] = [id |-> m.bodies[i].id, keypoints |-> keypoints]
            /\ keypoints = [k \in DOMAIN keypoints |-> keypoints[k]]
            /\ \A k \in DOMAIN keypoints : IsSamples(keypoints[k])
    /\ m = HumanState(m.bodies, m.timestamp)

IsRobotState(m) ==
    /\ IsList(m.points) /\ \A i \in DOMAIN m.points : IsSamples(m.points[i])
    /\ m = RobotState(m.id, m.mode, m.points, m.timestamp)

IsNotification(m) ==
    m = CollisionNotification(m.human, m.robot, m.currentTime, m.collisionDistance,
                              m.collisionMode, m.likelihood)

IsMessage(m) ==
    \/ m.type = "presentation" /\ IsPresentation(m)
    \/ m.type = "human state"  /\ IsHumanState(m)
    \/ m.type = "robot state"  /\ IsRobotState(m)
    \/ m.type = "notification" /\ IsNotification(m)

-----------------------------------------------------------------------------
(* to_document.                                                             *)

PresentationDocument(m) ==
    LET document ==
            [id |-> m.id, isHuman |-> m.isHuman, segmentPairs |-> m.segmentPairs,
             thicknesses |-> [i \in 1..Len(m.segmentPairs) |-> m.thicknesses[i]]]
    IN  IF m.isHuman THEN document
        ELSE AddMember(document, "messageFrequency", m.messageFrequency)

HumanStateDocument(m) ==
    [bodies |-> [i \in 1..Len(m.bodies) |->
        [body_id |-> m.bodies[i].id, keypoints |-> m.bodies[i].keypoints]],
     timestamp |-> m.timestamp]

RobotStateDocument(m) ==
    [bodyId |-> m.id, mode |-> m.mode, timestamp |-> m.timestamp,
     continuousState |-> [i \in 1..Len(m.points) |-> [j \in 1..Len(m.points[i]) |->
        LET p == m.points[i][j] IN <<p.x, p.y, p.z>>]]]

NotificationDocument(m) ==
    LET document ==
            [human |-> m.human, robot |-> m.robot, currentTime |-> m.currentTime,
             collisionDistance |-> m.collisionDistance, likelihood |-> m.likelihood]
    IN  IF m.collisionMode = EmptyObject THEN document
        ELSE AddMember(document, "collisionMode", m.collisionMode)

Serialise(m) ==
    CASE m.type = "presentation" -> PresentationDocument(m)
      [] m.type = "human state"  -> HumanStateDocument(m)
      [] m.type = "robot state"  -> RobotStateDocument(m)
      [] m.type = "notification" -> NotificationDocument(m)

-----------------------------------------------------------------------------
(* make.                                                                    *)

\* The members whose absence is an error, for the type that is expected.
CanMake(type, d) ==
    CASE type = "presentation" -> ~d.isHuman => "messageFrequency" \in DOMAIN d
      [] type = "notification" -> "collisionMode" \in DOMAIN d
      [] OTHER -> TRUE

MakePresentation(d) ==
    IF d.isHuman THEN HumanPresentation(d.id, d.segmentPairs, d.thicknesses)
    ELSE RobotPresentation(d.id, d.messageFrequency, d.segmentPairs, d.thicknesses)

\* Mutant: a point is dropped only if none of its coordinates is known.
SeenPartly(point) == point.x # Null \/ point.y # Null \/ point.z # Null

\* A point with a null coordinate has not been seen.
Seen(point) == point.x # Null /\ point.y # Null /\ point.z # Null

\* The points of a keypoint that have been seen, in order.
SeenPoints(points) ==
    LET seen == {i \in DOMAIN points : Seen(points[i])}
        Rank(i) == Cardinality({j \in seen : j <= i})
    IN  [n \in 1..Cardinality(seen) |-> points[CHOOSE i \in seen : Rank(i) = n]]

MakeHumanState(d) ==
    HumanState(
        [i \in 1..Len(d.bodies) |->
            [id |-> d.bodies[i].body_id,
             keypoints |-> [k \in DOMAIN d.bodies[i].keypoints |->
                SeenPoints(d.bodies[i].keypoints[k])]]],
        d.timestamp)

MakeRobotState(d) ==
    RobotState(d.bodyId, d.mode,
        [i \in 1..Len(d.continuousState) |-> [j \in 1..Len(d.continuousState[i]) |->
            LET c == d.continuousState[i][j] IN [x |-> c[1], y |-> c[2], z |-> c[3]]]],
        d.timestamp)

MakeNotification(d) ==
    CollisionNotification(d.human, d.robot, d.currentTime, d.collisionDistance,
                          d.collisionMode, d.likelihood)

Make(type, d) ==
    CASE type = "presentation" -> MakePresentation(d)
      [] type = "human state"  -> MakeHumanState(d)
      [] type = "robot state"  -> MakeRobotState(d)
      [] type = "notification" -> MakeNotification(d)
=============================================================================
