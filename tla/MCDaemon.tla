-------------------------------- MODULE MCDaemon -------------------------------
(* Instance of Daemon for TLC: a few words, a message of each type, one that  *)
(* has no collision mode, and a human state with a point that is not seen.   *)
EXTENDS Daemon

MCNumerals == [w \in {"4x"} |-> 4]

p == [x |-> 1, y |-> 2, z |-> 3]
unseen == [x |-> 1, y |-> 2, z |-> Null]

MCPairs == <<<<"0", "1">>, <<"1", "2">>>>
MCMode == [phase |-> "A"]
MCHuman == [bodyId |-> "h", segment |-> <<"0", "1">>]
MCRobot == [bodyId |-> "r", segment |-> <<"0", "1">>]
MCNotification(mode) ==
    CollisionNotification(MCHuman, MCRobot, 5, [lower |-> 1, upper |-> 2], mode, 1)

MCInputs == {
    HumanPresentation("h", MCPairs, <<1, 2>>),
    RobotPresentation("r", 10, MCPairs, <<1, 2>>),
    HumanState(<<[id |-> "h", keypoints |-> [nose |-> <<p>>]]>>, 5),
    RobotState("r", MCMode, <<<<p>>, <<>>>>, 5),
    MCNotification(MCMode), MCNotification(EmptyObject)}

MCForeign == {
    [document |-> [bodies |-> <<[body_id |-> "h", keypoints |-> [nose |-> <<p, unseen>>]]>>,
                   timestamp |-> 6],
     message |-> HumanState(<<[id |-> "h", keypoints |-> [nose |-> <<p>>]]>>, 6)]}
=============================================================================
