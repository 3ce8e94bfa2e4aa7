SPECIFICATION Spec
CHECK_DEADLOCK FALSE
CONSTANTS
    Humans = {h1, h2, h3}
    Robots = {r1, r2}
    Overlap = FALSE
    RobotsFirst = TRUE
    MaxPairs = 6
SYMMETRY BodySymmetry
INVARIANTS
    EachPairOnce
    PromotionSafe
