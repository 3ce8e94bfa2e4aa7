------------------------------ MODULE Registration ------------------------------
(***************************************************************************)
(* How RuntimeReceiver registers bodies and keeps the human-robot pairs     *)
(* that wait to become jobs.                                                *)
(*                                                                         *)
(* Every subscriber calls back on a thread of its own.  The two state       *)
(* callbacks exclude each other by _state_received_mux, so they are one     *)
(* thread here.  The presentation callback takes no lock at all: it runs     *)
(* between any two accesses that a state callback makes to the registry and  *)
(* to the pairs.  Accesses that overlap are undefined in C++; of their       *)
(* outcomes the model keeps those in which one precedes the other, and a    *)
(* loop over the pairs sees those that were there when it started.         *)
(*                                                                         *)
(* Histories are reduced to whether a body has had a state; JobLifecycle    *)
(* has their times.                                                         *)
(***************************************************************************)
EXTENDS Naturals, FiniteSets, SequencesExt

CONSTANTS
    Humans, Robots,     \* body identifiers
    Overlap,            \* TRUE if presentation and state callbacks may overlap
    RobotsFirst,        \* TRUE if robots are registered before any human appears
    MaxPairs            \* bound: pending pairs when a callback starts

ASSUME DisjointBodies == Humans \cap Robots = {}
ASSUME SwitchAssumption == Overlap \in BOOLEAN /\ RobotsFirst \in BOOLEAN /\ MaxPairs \in Nat

VARIABLES
    humans, robots,     \* BodyRegistry._humans and _robots, without the histories
    known,              \* the bodies whose history has a state
    pending,            \* _pending_human_robot_pairs
    promoted,           \* pairs turned into jobs since both were registered
    bpc, bbody, bids,   \* presentation callback: statement, body, ids not yet paired
    spc, sbody, sids,   \* state callback: the same
    smsg,               \* the humans of the message
    sbodies,            \* those not yet looked at
    gone,               \* hids_to_remove
    left,               \* pending pairs that a loop over them has still to examine
    kept,               \* new_pending_human_robot_pairs, or new_pairs
    ever,               \* history: the pairs ever turned into jobs
    overlapped,         \* history: a presentation and a state callback have overlapped
    failure             \* the exception that ended the program, or "none"

registry == <<humans, robots, known>>
presentation == <<bpc, bbody, bids>>
promotion == <<left, kept, ever>>
message == <<smsg, sbodies>>
state == <<spc, sbody, sids, message, gone, promotion>>
outcome == <<overlapped, failure>>
vars == <<registry, pending, promoted, presentation, state, outcome>>

Bodies == Humans \cup Robots
NoBody == "nobody"
Pair == [human : Bodies, robot : Bodies]

IsRegistered(b) == b \in humans \cup robots
Up == failure = "none"

Init ==
    /\ humans = {} /\ robots = {} /\ known = {}
    /\ pending = <<>> /\ promoted = {}
    /\ bpc = "idle" /\ bbody = NoBody /\ bids = {}
    /\ spc = "idle" /\ sbody = NoBody /\ sids = {} /\ smsg = {} /\ sbodies = {}
    /\ gone = {} /\ left = <<>> /\ kept = <<>> /\ ever = {}
    /\ overlapped = FALSE /\ failure = "none"

InsertBody(b) ==
    /\ humans' = humans \cup ({b} \cap Humans)
    /\ robots' = robots \cup ({b} \cap Robots)
    /\ UNCHANGED known

-----------------------------------------------------------------------------
(* The presentation callback.                                               *)

\* A presentation of a registered body has no effect.
Present(b) ==
    /\ Up /\ bpc = "idle" /\ (Overlap \/ spc = "idle")
    /\ Len(pending) <= MaxPairs
    /\ RobotsFirst /\ b \in Robots => humans = {} /\ spc = "idle"
    /\ ~IsRegistered(b)
    /\ bpc' = "ids" /\ bbody' = b
    /\ overlapped' = (overlapped \/ spc # "idle")
    /\ UNCHANGED <<registry, pending, promoted, bids, state, failure>>

\* robot_ids() or human_ids() returns a copy.
PresentIds ==
    /\ Up /\ bpc = "ids"
    /\ bids' = IF bbody \in Humans THEN robots ELSE humans
    /\ bpc' = "push"
    /\ UNCHANGED <<registry, pending, promoted, bbody, state, outcome>>

\* The body presented is the first of the pair whatever it is.
PresentPush ==
    /\ Up /\ bpc = "push"
    /\ \E id \in bids :
          /\ pending' = Append(pending, [human |-> bbody, robot |-> id])
          /\ bids' = bids \ {id}
    /\ UNCHANGED <<registry, promoted, bpc, bbody, state, outcome>>

PresentInsert ==
    /\ Up /\ bpc = "push" /\ bids = {}
    /\ InsertBody(bbody)
    /\ bpc' = "idle" /\ bbody' = NoBody
    /\ UNCHANGED <<pending, promoted, bids, state, outcome>>

-----------------------------------------------------------------------------
(* The state callbacks: registration of unknown humans.                     *)

StartState ==
    /\ Up /\ spc = "idle" /\ (Overlap \/ bpc = "idle")
    /\ Len(pending) <= MaxPairs
    /\ overlapped' = (overlapped \/ bpc # "idle")

HumanState(bodies) ==
    /\ StartState
    /\ RobotsFirst => bbody \notin Robots
    /\ spc' = "register" /\ smsg' = bodies /\ sbodies' = bodies
    /\ UNCHANGED <<registry, pending, promoted, presentation, sbody, sids, gone, promotion, failure>>

\* The states of unknown robots are discarded.
RobotState(r) ==
    /\ StartState
    /\ r \in robots
    /\ known' = known \cup {r}
    /\ spc' = "remove"
    /\ UNCHANGED <<humans, robots, pending, promoted, presentation, sbody, sids, message, gone,
                   promotion, failure>>

Register(h) ==
    /\ Up /\ spc = "register"
    /\ h \in sbodies
    /\ sbodies' = sbodies \ {h}
    /\ IF IsRegistered(h) THEN UNCHANGED <<spc, sbody>> ELSE spc' = "ids" /\ sbody' = h
    /\ UNCHANGED <<registry, pending, promoted, presentation, sids, smsg, gone, promotion, outcome>>

StateIds ==
    /\ Up /\ spc = "ids"
    /\ sids' = robots
    /\ spc' = "push"
    /\ UNCHANGED <<registry, pending, promoted, presentation, sbody, message, gone, promotion,
                   outcome>>

StatePush ==
    /\ Up /\ spc = "push"
    /\ \E r \in sids :
          /\ pending' = Append(pending, [human |-> sbody, robot |-> r])
          /\ sids' = sids \ {r}
    /\ UNCHANGED <<registry, promoted, presentation, spc, sbody, message, gone, promotion, outcome>>

StateInsert ==
    /\ Up /\ spc = "push" /\ sids = {}
    /\ InsertBody(sbody)
    /\ spc' = "register" /\ sbody' = NoBody
    /\ UNCHANGED <<pending, promoted, presentation, sids, message, gone, promotion, outcome>>

\* Every body of the message is registered: a state is acquired for each.
Acquire ==
    /\ Up /\ spc = "register" /\ sbodies = {}
    /\ known' = known \cup smsg
    /\ spc' = "remove"
    /\ UNCHANGED <<humans, robots, pending, promoted, presentation, sbody, sids, message, gone,
                   promotion, outcome>>

-----------------------------------------------------------------------------
(* Removal and promotion.                                                   *)

\* Any humans with a state that are not in the message may have timed out.
RemoveHumans ==
    /\ Up /\ spc = "remove"
    /\ \E hids \in SUBSET ((humans \cap known) \ smsg) :
          /\ humans' = humans \ hids
          /\ known' = known \ hids
          /\ promoted' = {p \in promoted : p.human \notin hids}
          /\ gone' = hids
          /\ spc' = IF hids = {} THEN "examine" ELSE "filter"
    /\ UNCHANGED <<robots, pending, presentation, sbody, sids, message, promotion, outcome>>

\* The loop over the pairs, and later that of the promotion, iterates over
\* them as they are when it starts.
FilterStart ==
    /\ Up /\ spc = "filter"
    /\ left' = pending /\ spc' = "filtering"
    /\ UNCHANGED <<registry, pending, promoted, presentation, sbody, sids, message, gone, kept,
                   ever, outcome>>

\* Mutant: the pairs of the humans removed stay.
FilterNothing ==
    /\ Up /\ spc = "filtering" /\ left # <<>>
    /\ left' = Tail(left)
    /\ kept' = Append(kept, Head(left))
    /\ UNCHANGED <<registry, pending, promoted, presentation, spc, sbody, sids, message, gone, ever,
                   outcome>>

\* The pairs of the humans removed are dropped.
Filter ==
    /\ Up /\ spc = "filtering" /\ left # <<>>
    /\ left' = Tail(left)
    /\ IF Head(left).human \in gone THEN UNCHANGED kept ELSE kept' = Append(kept, Head(left))
    /\ UNCHANGED <<registry, pending, promoted, presentation, spc, sbody, sids, message, gone, ever,
                   outcome>>

\* _pending_human_robot_pairs = new_pending_human_robot_pairs.
FilterEnd ==
    /\ Up /\ spc = "filtering" /\ left = <<>>
    /\ pending' = kept
    /\ kept' = <<>> /\ gone' = {} /\ spc' = "examine"
    /\ UNCHANGED <<registry, promoted, presentation, sbody, sids, message, left, ever, outcome>>

PromoteStart ==
    /\ Up /\ spc = "examine"
    /\ left' = pending /\ spc' = "promote"
    /\ UNCHANGED <<registry, pending, promoted, presentation, sbody, sids, message, gone, kept, ever,
                   outcome>>

PromotionFailure(p) ==
    CASE p.robot \notin robots -> "robot not registered"
      [] p.human \notin humans -> "human not registered"
      [] OTHER -> "none"

\* What the creation of the jobs of a pair may come to.  The registry of a
\* reusing factory refuses a path that it has at the timestamp, which is that of
\* the human's latest state: one it has been given for the pair before.  It also
\* refuses a timestamp that it has not, once it has a later one.  Another
\* timestamp, or the discarding factory, refuses nothing.
CreationOutcomes(p) ==
    {"none"} \cup (IF p \in ever THEN {"job already registered"} ELSE {})
             \cup (IF ever # {} THEN {"timestamp not in job registry"} ELSE {})

\* Jobs are created once both bodies have states and the robot can be looked
\* ahead.
PromoteFirst ==
    LET p == Head(left)
    IN  /\ PromotionFailure(p) = "none"
        /\ {p.human, p.robot} \subseteq known
        /\ failure' \in CreationOutcomes(p)
        /\ IF failure' = "none"
           THEN promoted' = promoted \cup {p} /\ ever' = ever \cup {p}
           ELSE UNCHANGED <<promoted, ever>>
        /\ UNCHANGED kept

KeepFirst ==
    /\ PromotionFailure(Head(left)) = "none"
    /\ kept' = Append(kept, Head(left))
    /\ UNCHANGED <<promoted, ever, failure>>

FailFirst ==
    /\ PromotionFailure(Head(left)) # "none"
    /\ failure' = PromotionFailure(Head(left))
    /\ UNCHANGED <<promoted, ever, kept>>

\* The pair that fails stays the first of those left.
Promote ==
    /\ Up /\ spc = "promote"
    /\ left # <<>>
    /\ PromoteFirst \/ KeepFirst \/ FailFirst
    /\ left' = IF failure' = "none" THEN Tail(left) ELSE left
    /\ UNCHANGED <<registry, pending, presentation, spc, sbody, sids, message, gone, overlapped>>

\* Mutant: the pairs kept are forgotten.
AssignEmpty ==
    /\ Up /\ spc = "promote" /\ left = <<>>
    /\ pending' = <<>>
    /\ kept' = <<>> /\ smsg' = {} /\ spc' = "idle"
    /\ UNCHANGED <<registry, promoted, presentation, sbody, sids, sbodies, gone, left, ever, outcome>>

\* _pending_human_robot_pairs = new_pairs, and the callback ends.
AssignPairs ==
    /\ Up /\ spc = "promote" /\ left = <<>>
    /\ pending' = kept
    /\ kept' = <<>> /\ smsg' = {} /\ spc' = "idle"
    /\ UNCHANGED <<registry, promoted, presentation, sbody, sids, sbodies, gone, left, ever, outcome>>

-----------------------------------------------------------------------------
Next ==
    \/ \E b \in Bodies : Present(b)
    \/ PresentIds \/ PresentPush \/ PresentInsert
    \/ \E bodies \in SUBSET Humans \ {{}} : HumanState(bodies)
    \/ \E r \in Robots : RobotState(r)
    \/ \E h \in Humans : Register(h)
    \/ StateIds \/ StatePush \/ StateInsert
    \/ Acquire
    \/ RemoveHumans \/ FilterStart \/ Filter \/ FilterEnd
    \/ PromoteStart \/ Promote \/ AssignPairs

Spec == Init /\ [][Next]_vars

-----------------------------------------------------------------------------
(* Every variable stays in its domain; only registered bodies have states.  *)
TypeOK ==
    /\ humans \subseteq Humans /\ robots \subseteq Robots
    /\ known \subseteq humans \cup robots
    /\ ToSet(pending) \cup ToSet(left) \cup ToSet(kept) \cup promoted \cup ever \subseteq Pair
    /\ bpc \in {"idle", "ids", "push"} /\ bbody \in Bodies \cup {NoBody} /\ bids \subseteq Bodies
    /\ spc \in {"idle", "register", "ids", "push", "remove", "filter", "filtering", "examine",
                "promote"}
    /\ sbody \in Humans \cup {NoBody} /\ sids \subseteq Robots
    /\ sbodies \subseteq smsg /\ smsg \subseteq Humans /\ gone \subseteq Humans
    /\ overlapped \in BOOLEAN
    /\ failure \in {"none", "robot not registered", "human not registered",
                    "job already registered", "timestamp not in job registry"}

Quiescent == spc = "idle" /\ bpc = "idle" /\ Up

Places(h, r) ==
    LET p == [human |-> h, robot |-> r]
    IN  Cardinality({k \in DOMAIN pending : pending[k] = p})
        + (IF p \in promoted THEN 1 ELSE 0)

(* As long as callbacks have not overlapped and robots come first, the pairs *)
(* are exact: between two callbacks every registered human and robot are    *)
(* together in one pending pair or have been promoted, never both, and no   *)
(* pair of a body that was removed remains (runtime_io.cpp:43-46, 59-61,    *)
(* 141-144, 163-171).                                                      *)
EachPairOnce ==
    (Quiescent /\ RobotsFirst /\ ~overlapped) =>
        /\ \A h \in humans, r \in robots : Places(h, r) = 1
        /\ \A p \in ToSet(pending) \cup promoted : p.human \in humans /\ p.robot \in robots

(* Then the promotion looks up no body that is not in the registry          *)
(* (body_registry.cpp:144,164), and a reusing factory refuses no pair whose  *)
(* jobs are still there (lookahead_job_factory.cpp:89): only a human that    *)
(* was removed and comes back, or a timestamp before that of other jobs      *)
(* (lookahead_job_registry.cpp:126), can make the creation of a job fail.    *)
PromotionSafe ==
    (RobotsFirst /\ ~overlapped) =>
        /\ failure \notin {"robot not registered", "human not registered"}
        /\ failure = "job already registered" => Head(left) \notin promoted

(* Robots come first and are never removed: however callbacks overlap, the   *)
(* robot of a pair is in the registry when the pair is examined             *)
(* (body_registry.cpp:144), whatever becomes of its human.                  *)
RobotOfPairRegistered == failure # "robot not registered"

(* What the constructor of HumanRobotIdPair says by the names of its        *)
(* parameters (runtime_io.hpp:56): the first of a pair is the human, the    *)
(* second is the robot.                                                     *)
PairFields == \A p \in ToSet(pending) : p.human \in Humans /\ p.robot \in Robots

(* What runtime_io.hpp:61-62 says of the waiting jobs: "to populate as soon *)
(* as the registry has history for the corresponding human-robot pair".     *)
(* Between two callbacks no pair of registered bodies has been lost.        *)
NoPairLost == Quiescent => \A h \in humans, r \in robots : Places(h, r) > 0
=============================================================================
