--------------------------- MODULE RegistrationProofs --------------------------
(***************************************************************************)
(* Proofs about the registration of bodies and their pairs, for any bodies    *)
(* and any number of pairs.                                                 *)
(*                                                                         *)
(* EachPairOnce only speaks of the time between two callbacks.  Exact says   *)
(* what holds at every place of them: the pairs are at first those pending,  *)
(* and in a loop over them those kept and those left; the pairs of the body   *)
(* that is being pushed are there as far as its loop has come; those of       *)
(* humans that have just been removed are there until they are filtered.     *)
(***************************************************************************)
EXTENDS Registration, SequenceTheorems, FiniteSetTheorems, TLAPS

Lists == pending \in Seq(Pair) /\ left \in Seq(Pair) /\ kept \in Seq(Pair)

\* The humans of the message that have been looked at are registered, or about
\* to be.
Looked ==
    /\ bpc # "idle" => bbody \in Bodies
    /\ spc \in {"ids", "push"} => sbody \in Humans
    /\ spc = "register" => smsg \ sbodies \subseteq humans
    /\ spc \in {"ids", "push"} => smsg \ sbodies \subseteq humans \cup {sbody}
    /\ spc \notin {"register", "ids", "push"} => sbodies = {}

Typed == TypeOK /\ Lists /\ Looked

Looping == spc \in {"filtering", "promote"}

\* The pairs at hand, none of them twice.
Held == IF Looping THEN ToSet(kept) \cup ToSet(left) ELSE ToSet(pending)
HeldOnce ==
    IF Looping
    THEN IsInjective(kept) /\ IsInjective(left) /\ ToSet(kept) \cap ToSet(left) = {}
    ELSE IsInjective(pending) /\ kept = <<>>

\* The body whose pairs are being pushed, and those it is still to be paired with.
Pushed == (IF bpc = "push" THEN {bbody} \cap Humans ELSE {})
          \cup (IF spc = "push" THEN {sbody} ELSE {})
PairOf(h, r) == [human |-> h, robot |-> r]

Pushing(b, ids) ==
    /\ ~IsRegistered(b)
    /\ ids \subseteq robots
    /\ b \in Humans => \A r \in robots : PairOf(b, r) \in Held <=> r \notin ids
    /\ b \in Robots => ids = {}

\* One callback at a time, and robots before humans.
Alone ==
    /\ bpc = "idle" \/ spc = "idle"
    /\ bpc # "idle" /\ bbody \in Robots => humans = {}
    /\ bpc = "ids" => ~IsRegistered(bbody)
    /\ bpc = "push" => Pushing(bbody, bids)
    /\ spc = "ids" => sbody \notin humans
    /\ spc = "push" => Pushing(sbody, sids)

Removed ==
    /\ gone # {} => spc \in {"filter", "filtering"}
    /\ gone \cap humans = {}
    /\ spc = "filtering" => \A p \in ToSet(kept) : p.human \notin gone

Covered ==
    /\ \A h \in humans, r \in robots : PairOf(h, r) \in Held \cup promoted
    /\ Held \cap promoted = {}
    /\ \A p \in Held : p.robot \in robots /\ p.human \in humans \cup gone \cup Pushed
    /\ \A p \in promoted : p.robot \in robots /\ p.human \in humans

Exact == Alone /\ Removed /\ HeldOnce /\ Covered /\ failure = "none"

\* The program has ended in one of the two failures of the job registry.
Halted ==
    /\ failure \in {"job already registered", "timestamp not in job registry"}
    /\ failure = "job already registered" => Head(left) \notin promoted

IInv == Typed /\ (RobotsFirst /\ ~overlapped => Exact \/ Halted)

-----------------------------------------------------------------------------
(* Sets of the elements of a sequence.                                      *)
LEMMA EmptySet == ToSet(<<>>) = {} /\ IsInjective(<<>>) /\ <<>> \in Seq(Pair)
BY DEF ToSet, IsInjective

LEMMA SetOf ==
    ASSUME NEW T, NEW s \in Seq(T)
    PROVE  /\ ToSet(s) \subseteq T
           /\ s # <<>> => Head(s) \in ToSet(s)
BY HeadTailProperties, LenProperties DEF ToSet

LEMMA AppendSet ==
    ASSUME NEW T, NEW s \in Seq(T), NEW p \in T
    PROVE  /\ Append(s, p) \in Seq(T)
           /\ ToSet(Append(s, p)) = ToSet(s) \cup {p}
           /\ IsInjective(s) /\ p \notin ToSet(s) => IsInjective(Append(s, p))
<1> DEFINE a == Append(s, p)
<1>1. /\ a \in Seq(T) /\ Len(s) \in Nat /\ DOMAIN s = 1..Len(s)
      /\ DOMAIN a = 1..(Len(s) + 1)
      /\ \A i \in 1..Len(s) : a[i] = s[i]
      /\ a[Len(s) + 1] = p
  BY AppendProperties, LenProperties
<1> HIDE DEF a
<1>2. ToSet(a) = ToSet(s) \cup {p}
  <2>1. \A i \in DOMAIN a : i \in DOMAIN s \/ i = Len(s) + 1
    BY <1>1
  <2> QED
    BY <1>1, <2>1 DEF ToSet
<1>3. ASSUME IsInjective(s), p \notin ToSet(s), NEW i \in DOMAIN a, NEW j \in DOMAIN a, a[i] = a[j]
      PROVE  i = j
  BY <1>1, <1>3 DEF ToSet, IsInjective
<1> QED
  BY <1>1, <1>2, <1>3 DEF a, IsInjective

LEMMA TailSet ==
    ASSUME NEW T, NEW s \in Seq(T), s # <<>>
    PROVE  /\ Head(s) \in T /\ Tail(s) \in Seq(T)
           /\ ToSet(s) = ToSet(Tail(s)) \cup {Head(s)}
           /\ IsInjective(s) => IsInjective(Tail(s)) /\ Head(s) \notin ToSet(Tail(s))
<1> DEFINE t == Tail(s)
<1>1. /\ Head(s) \in T /\ t \in Seq(T) /\ Head(s) = s[1]
      /\ Len(s) \in Nat \ {0} /\ DOMAIN s = 1..Len(s) /\ DOMAIN t = 1..(Len(s) - 1)
      /\ \A i \in 1..(Len(s) - 1) : t[i] = s[i + 1]
  BY HeadTailProperties, LenProperties, EmptySeq
<1> HIDE DEF t
<1>2. ToSet(s) = ToSet(t) \cup {Head(s)}
  <2>1. \A i \in DOMAIN s : i = 1 \/ (i - 1 \in DOMAIN t /\ t[i - 1] = s[i])
    BY <1>1
  <2>2. \A i \in DOMAIN t : i + 1 \in DOMAIN s /\ t[i] = s[i + 1]
    BY <1>1
  <2>3. ToSet(s) \subseteq ToSet(t) \cup {Head(s)}
    BY <1>1, <2>1 DEF ToSet
  <2>4. ToSet(t) \subseteq ToSet(s)
    BY <2>2 DEF ToSet
  <2>5. Head(s) \in ToSet(s)
    BY <1>1 DEF ToSet
  <2> QED
    BY <2>3, <2>4, <2>5
<1>3. ASSUME IsInjective(s), NEW i \in DOMAIN t
      PROVE  t[i] # Head(s) /\ \A j \in DOMAIN t : t[i] = t[j] => i = j
  <2>1. i + 1 \in DOMAIN s /\ 1 \in DOMAIN s /\ i + 1 # 1 /\ s[i + 1] = t[i]
    BY <1>1
  <2>2. \A j \in DOMAIN t : j + 1 \in DOMAIN s /\ s[j + 1] = t[j] /\ (i + 1 = j + 1 => i = j)
    BY <1>1
  <2> QED
    BY <1>1, <1>3, <2>1, <2>2 DEF IsInjective
<1>4. ASSUME IsInjective(s), Head(s) \in ToSet(t) PROVE FALSE
  <2>1. PICK i \in DOMAIN t : t[i] = Head(s)
    BY <1>4 DEF ToSet
  <2> QED
    BY <1>3, <1>4, <2>1
<1>5. IsInjective(s) => IsInjective(t)
  BY <1>3 DEF IsInjective
<1> QED
  BY <1>1, <1>2, <1>4, <1>5 DEF t

-----------------------------------------------------------------------------
(* Every variable keeps its type.                                           *)
LEMMA InitTyped == Init => Typed
BY EmptySet DEF Init, Typed, TypeOK, Lists, Looked, Bodies

LEMMA PresentationTyped ==
    ASSUME Typed, (\E b \in Bodies : Present(b)) \/ PresentIds \/ PresentPush \/ PresentInsert
    PROVE  Typed'
<1> USE DEF Typed, TypeOK, Lists, Looked, registry, presentation, promotion, message, state, outcome, Bodies
<1>1. CASE \E b \in Bodies : Present(b)
  <2>1. UNCHANGED <<humans, robots, known, pending, promoted, bids, spc, sbody, sids, smsg, sbodies>>
        /\ UNCHANGED <<gone, left, kept, ever, failure>>
        /\ bpc' = "ids" /\ bbody' \in Bodies /\ overlapped' \in BOOLEAN
    BY <1>1 DEF Present
  <2>2. TypeOK'
    BY <2>1, ZenonT(60)
  <2> QED
    BY <2>1, <2>2
<1>2. CASE PresentIds
  BY <1>2 DEF PresentIds
<1>3. CASE PresentPush
  <2>1. PICK id \in bids : pending' = Append(pending, PairOf(bbody, id)) /\ bids' = bids \ {id}
    BY <1>3 DEF PresentPush, PairOf
  <2>2. PairOf(bbody, id) \in Pair
    BY <1>3, <2>1 DEF PresentPush, PairOf, Pair
  <2>3. pending' \in Seq(Pair) /\ ToSet(pending') \subseteq Pair
    BY <2>1, <2>2, AppendSet, SetOf
  <2>4. UNCHANGED <<humans, robots, known, promoted, bpc, bbody, spc, sbody, sids, smsg, sbodies>>
        /\ UNCHANGED <<gone, left, kept, ever, overlapped, failure>> /\ bids' \subseteq Bodies
    BY <1>3, <2>1 DEF PresentPush
  <2>5. TypeOK'
    BY <2>3, <2>4, ZenonT(60)
  <2> QED
    BY <2>3, <2>4, <2>5
<1>4. CASE PresentInsert
  BY <1>4, DisjointBodies DEF PresentInsert, InsertBody
<1> QED
  BY <1>1, <1>2, <1>3, <1>4

LEMMA StateTyped ==
    ASSUME Typed,
           \/ \E bodies \in SUBSET Humans \ {{}} : HumanState(bodies)
           \/ \E r \in Robots : RobotState(r)
           \/ \E h \in Humans : Register(h)
           \/ StateIds \/ StatePush \/ StateInsert \/ Acquire
    PROVE  Typed'
<1> USE DEF Typed, TypeOK, Lists, Looked, registry, presentation, promotion, message, state, outcome, Bodies
<1>1. CASE \E bodies \in SUBSET Humans \ {{}} : HumanState(bodies)
  BY <1>1 DEF HumanState, StartState
<1>2. CASE \E r \in Robots : RobotState(r)
  BY <1>2 DEF RobotState, StartState
<1>3. CASE \E h \in Humans : Register(h)
  BY <1>3, DisjointBodies DEF Register, IsRegistered
<1>4. CASE StateIds
  BY <1>4 DEF StateIds
<1>5. CASE StatePush
  <2>1. PICK r \in sids : pending' = Append(pending, PairOf(sbody, r)) /\ sids' = sids \ {r}
    BY <1>5 DEF StatePush, PairOf
  <2>2. PairOf(sbody, r) \in Pair
    BY <1>5, <2>1 DEF StatePush, PairOf, Pair
  <2>3. pending' \in Seq(Pair) /\ ToSet(pending') \subseteq Pair
    BY <2>1, <2>2, AppendSet, SetOf
  <2> QED
    BY <1>5, <2>1, <2>3 DEF StatePush
<1>6. CASE StateInsert
  BY <1>6, DisjointBodies DEF StateInsert, InsertBody
<1>7. CASE Acquire
  BY <1>7 DEF Acquire
<1> QED
  BY <1>1, <1>2, <1>3, <1>4, <1>5, <1>6, <1>7

LEMMA LoopLists ==
    ASSUME Lists, left # <<>>
    PROVE  /\ Head(left) \in Pair
           /\ Tail(left) \in Seq(Pair) /\ ToSet(Tail(left)) \subseteq Pair
           /\ Append(kept, Head(left)) \in Seq(Pair)
           /\ ToSet(Append(kept, Head(left))) \subseteq Pair
<1>1. Head(left) \in Pair /\ Tail(left) \in Seq(Pair)
  BY TailSet DEF Lists
<1>2. Append(kept, Head(left)) \in Seq(Pair)
  BY <1>1, AppendSet DEF Lists
<1> QED
  BY <1>1, <1>2, SetOf

LEMMA RemovalTyped ==
    ASSUME Typed, RemoveHumans \/ FilterStart \/ Filter \/ FilterEnd
    PROVE  Typed'
<1> USE DEF Typed, TypeOK, Lists, Looked, registry, presentation, promotion, message, state, outcome, Bodies
<1>1. CASE RemoveHumans
  BY <1>1, DisjointBodies DEF RemoveHumans
<1>2. CASE FilterStart
  BY <1>2 DEF FilterStart
<1>3. CASE Filter
  <2>1. /\ left' \in Seq(Pair) /\ ToSet(left') \subseteq Pair
        /\ kept' \in Seq(Pair) /\ ToSet(kept') \subseteq Pair
    BY <1>3, LoopLists DEF Filter
  <2> QED
    BY <1>3, <2>1 DEF Filter
<1>4. CASE FilterEnd
  BY <1>4, EmptySet DEF FilterEnd
<1> QED
  BY <1>1, <1>2, <1>3, <1>4

LEMMA PromotionTyped ==
    ASSUME Typed, PromoteStart \/ Promote \/ AssignPairs
    PROVE  Typed'
<1> USE DEF Typed, TypeOK, Lists, Looked, registry, presentation, promotion, message, state, outcome, Bodies
<1>1. CASE PromoteStart
  BY <1>1 DEF PromoteStart
<1>2. CASE Promote
  <2>1. /\ Head(left) \in Pair
        /\ left' \in Seq(Pair) /\ ToSet(left') \subseteq Pair
        /\ kept' \in Seq(Pair) /\ ToSet(kept') \subseteq Pair
    BY <1>2, LoopLists DEF Promote, PromoteFirst, KeepFirst, FailFirst
  <2>2. CASE PromoteFirst
    <3>1. failure' \in {"none", "job already registered", "timestamp not in job registry"}
          /\ ever' \subseteq Pair /\ promoted' \subseteq Pair
      BY <2>1, <2>2 DEF PromoteFirst, CreationOutcomes
    <3> QED
      BY <1>2, <2>1, <2>2, <3>1 DEF Promote, PromoteFirst
  <2>3. CASE KeepFirst
    BY <1>2, <2>1, <2>3 DEF Promote, KeepFirst
  <2>4. CASE FailFirst
    <3>1. failure' \in {"none", "robot not registered", "human not registered"}
      BY <2>4 DEF FailFirst, PromotionFailure
    <3> QED
      BY <1>2, <2>1, <2>4, <3>1 DEF Promote, FailFirst
  <2> QED
    BY <1>2, <2>2, <2>3, <2>4 DEF Promote
<1>3. CASE AssignPairs
  <2>1. pending' = kept /\ kept' \in Seq(Pair) /\ ToSet(kept') = {}
    BY <1>3, EmptySet DEF AssignPairs
  <2> QED
    BY <1>3, <2>1 DEF AssignPairs
<1> QED
  BY <1>1, <1>2, <1>3

LEMMA StutterTyped == ASSUME Typed, UNCHANGED vars PROVE Typed'
<1>1. /\ UNCHANGED <<humans, robots, known, pending, promoted, bpc, bbody, bids>>
      /\ UNCHANGED <<spc, sbody, sids, smsg, sbodies, gone, left, kept, ever, overlapped, failure>>
  BY DEF vars, registry, presentation, promotion, message, state, outcome
<1>2. TypeOK'
  BY <1>1, Zenon DEF Typed, TypeOK, Bodies, Pair
<1>3. Lists' /\ Looked'
  BY <1>1 DEF Typed, Lists, Looked, Bodies, Pair
<1> QED
  BY <1>2, <1>3 DEF Typed

(* Every reachable state is well typed, and only registered bodies have       *)
(* states, however callbacks overlap (runtime_io.cpp:38-82).                *)
THEOREM TypeCorrect == Spec => []TypeOK
<1>1. Typed /\ [Next]_vars => Typed'
  BY PresentationTyped, StateTyped, RemovalTyped, PromotionTyped, StutterTyped DEF Next
<1>2. Typed => TypeOK
  BY DEF Typed
<1> QED
  BY InitTyped, <1>1, <1>2, PTL DEF Spec

-----------------------------------------------------------------------------
(* The pairs are exact.                                                     *)
LEMMA InitExact == Init => Exact
BY EmptySet DEF Init, Exact, Alone, Removed, HeldOnce, Covered, Held, Looping, Pushed, Pushing

LEMMA PairFacts ==
    /\ \A h, r : PairOf(h, r).human = h /\ PairOf(h, r).robot = r
    /\ \A p \in Pair : p = PairOf(p.human, p.robot)
    /\ \A h, r : h \in Bodies /\ r \in Bodies => PairOf(h, r) \in Pair
BY DEF PairOf, Pair

LEMMA PresentExact ==
    ASSUME Typed, RobotsFirst, Exact, NEW b \in Bodies, Present(b), ~overlapped'
    PROVE  Exact'
<1>1. spc = "idle" /\ spc' = "idle" /\ bpc = "idle" /\ bpc' = "ids" /\ bbody' = b
      /\ ~IsRegistered(b) /\ (b \in Robots => humans = {})
  BY DEF Present, state
<1>2. UNCHANGED <<humans, robots, pending, promoted, gone, left, kept, ever, failure>>
  BY DEF Present, state, registry, promotion
<1>3. Held' = Held /\ Pushed' = Pushed /\ Pushed = {}
  BY <1>1, <1>2 DEF Held, Looping, Pushed
<1>4. Alone'
  BY <1>1, <1>2 DEF Alone, IsRegistered
<1> QED
  BY <1>1, <1>2, <1>3, <1>4 DEF Exact, Removed, HeldOnce, Covered, Looping

LEMMA PresentIdsExact == ASSUME Typed, RobotsFirst, Exact, PresentIds PROVE Exact'
<1>1. /\ bpc = "ids" /\ bpc' = "push" /\ spc = "idle" /\ spc' = "idle" /\ bbody' = bbody
      /\ bids' = IF bbody \in Humans THEN robots ELSE humans
      /\ ~IsRegistered(bbody) /\ (bbody \in Robots => humans = {})
      /\ bbody \in Humans \cup Robots
  BY DEF PresentIds, state, Exact, Alone, Typed, Looked, Bodies
<1>2. UNCHANGED <<humans, robots, pending, promoted, gone, left, kept, ever, failure>>
  BY DEF PresentIds, state, registry, promotion, outcome
<1>3. Held' = Held /\ Held = ToSet(pending) /\ Pushed = {} /\ gone = {}
  BY <1>1, <1>2 DEF Held, Looping, Pushed, Exact, Removed
<1>4. Pushing(bbody, bids)'
  <2>1. \A p \in Held : p.human \in humans
    BY <1>3 DEF Exact, Covered
  <2>2. bbody \in Humans => \A r \in robots : PairOf(bbody, r) \notin Held
    BY <1>1, <2>1, PairFacts DEF IsRegistered
  <2> QED
    BY <1>1, <1>2, <1>3, <2>2, DisjointBodies DEF Pushing, IsRegistered
<1>5. Alone'
  BY <1>1, <1>2, <1>4 DEF Alone
<1> QED
  BY <1>1, <1>2, <1>3, <1>5 DEF Exact, Removed, HeldOnce, Covered, Looping

LEMMA PresentPushExact == ASSUME Typed, RobotsFirst, Exact, PresentPush PROVE Exact'
<1>1. /\ bpc = "push" /\ bpc' = "push" /\ spc = "idle" /\ spc' = "idle" /\ bbody' = bbody
      /\ bbody \in Bodies /\ Pushing(bbody, bids)
      /\ pending \in Seq(Pair) /\ robots \subseteq Robots
  BY DEF PresentPush, state, Exact, Alone, Typed, Looked, Lists, TypeOK
<1>2. UNCHANGED <<humans, robots, promoted, gone, left, kept, ever, failure>>
  BY DEF PresentPush, state, registry, promotion, outcome
<1>3. PICK r \in bids : pending' = Append(pending, PairOf(bbody, r)) /\ bids' = bids \ {r}
  BY DEF PresentPush, PairOf
<1>4. bbody \in Humans /\ r \in robots /\ bbody \notin humans
  BY <1>1 DEF Pushing, Bodies, IsRegistered
<1>5. PairOf(bbody, r) \notin Held \cup promoted
  BY <1>1, <1>4, PairFacts DEF Pushing, Exact, Covered
<1>6. /\ Held = ToSet(pending) /\ Held' = Held \cup {PairOf(bbody, r)}
      /\ IsInjective(pending) /\ IsInjective(pending')
      /\ Pushed = {bbody} /\ Pushed' = {bbody}
  <2>1. PairOf(bbody, r) \in Pair
    BY <1>1, <1>4, PairFacts DEF Bodies
  <2>2. Held = ToSet(pending) /\ Held' = ToSet(pending') /\ IsInjective(pending)
    BY <1>1 DEF Held, Looping, Exact, HeldOnce
  <2> QED
    BY <1>1, <1>3, <1>4, <1>5, <2>1, <2>2, AppendSet DEF Pushed
<1>7. Pushing(bbody, bids)'
  BY <1>1, <1>2, <1>3, <1>4, <1>6, PairFacts, DisjointBodies DEF Pushing, IsRegistered
<1>8. Alone'
  BY <1>1, <1>2, <1>7 DEF Alone, Exact
<1>9. Covered'
  BY <1>2, <1>4, <1>5, <1>6, PairFacts DEF Covered, Exact
<1> QED
  BY <1>1, <1>2, <1>6, <1>8, <1>9 DEF Exact, Removed, HeldOnce, Looping

LEMMA PresentInsertExact == ASSUME Typed, RobotsFirst, Exact, PresentInsert PROVE Exact'
<1>1. /\ bpc = "push" /\ bpc' = "idle" /\ spc = "idle" /\ spc' = "idle" /\ bids = {}
      /\ bbody \in Humans \cup Robots /\ Pushing(bbody, {})
      /\ (bbody \in Robots => humans = {})
      /\ humans \subseteq Humans /\ robots \subseteq Robots
  BY DEF PresentInsert, state, Exact, Alone, Typed, Looked, TypeOK, Bodies
<1>2. UNCHANGED <<pending, promoted, gone, left, kept, ever, failure>>
  BY DEF PresentInsert, state, promotion, outcome
<1>3. humans' = humans \cup ({bbody} \cap Humans) /\ robots' = robots \cup ({bbody} \cap Robots)
  BY DEF PresentInsert, InsertBody
<1>4. Held' = Held /\ Pushed = {bbody} \cap Humans /\ Pushed' = {} /\ gone = {}
  BY <1>1, <1>2 DEF Held, Looping, Pushed, Exact, Removed
<1>5. Covered'
  <2>1. ASSUME NEW h \in humans', NEW r \in robots'
        PROVE  PairOf(h, r) \in Held \cup promoted
    <3>1. CASE bbody \in Robots
      BY <1>1, <1>3, <3>1, DisjointBodies
    <3>2. CASE bbody \in Humans
      BY <1>1, <1>3, <3>2, DisjointBodies DEF Pushing, Exact, Covered
    <3> QED
      BY <1>1, <3>1, <3>2
  <2> QED
    BY <1>2, <1>3, <1>4, <2>1 DEF Covered, Exact
<1>6. Alone'
  BY <1>1 DEF Alone
<1> QED
  BY <1>1, <1>2, <1>4, <1>5, <1>6 DEF Exact, Removed, HeldOnce, Looping

(* The state callbacks: starting, and registering unknown humans.            *)
LEMMA StartExact ==
    ASSUME Typed, RobotsFirst, Exact, ~overlapped',
           \/ \E bodies \in SUBSET Humans \ {{}} : HumanState(bodies)
           \/ \E r \in Robots : RobotState(r)
           \/ Acquire
    PROVE  Exact'
<1>1. /\ bpc = "idle" /\ bpc' = "idle" /\ spc \in {"idle", "register"}
      /\ spc' \in {"register", "remove"}
      /\ UNCHANGED <<humans, robots, pending, promoted, gone, left, kept, ever, failure>>
  <2>1. CASE \E bodies \in SUBSET Humans \ {{}} : HumanState(bodies)
    BY <2>1 DEF HumanState, StartState, registry, presentation, promotion
  <2>2. CASE \E r \in Robots : RobotState(r)
    BY <2>2 DEF RobotState, StartState, presentation, promotion
  <2>3. CASE Acquire
    BY <2>3 DEF Acquire, presentation, promotion, outcome, Exact, Alone
  <2> QED
    BY <2>1, <2>2, <2>3
<1>2. Held' = Held /\ Pushed' = Pushed
  BY <1>1 DEF Held, Looping, Pushed
<1>3. Alone' /\ gone = {}
  BY <1>1 DEF Alone, Exact, Removed
<1> QED
  BY <1>1, <1>2, <1>3 DEF Exact, Removed, HeldOnce, Covered, Looping

LEMMA RegisterExact ==
    ASSUME Typed, RobotsFirst, Exact, NEW h \in Humans, Register(h)
    PROVE  Exact'
<1>1. /\ bpc = "idle" /\ bpc' = "idle" /\ spc = "register" /\ spc' \in {"register", "ids"}
      /\ spc' = "ids" => sbody' = h /\ h \notin humans
      /\ UNCHANGED <<humans, robots, pending, promoted, gone, left, kept, ever, failure>>
  BY DEF Register, registry, presentation, promotion, outcome, Exact, Alone, IsRegistered
<1>2. Held' = Held /\ Pushed' = Pushed
  BY <1>1 DEF Held, Looping, Pushed
<1>3. Alone' /\ gone = {}
  BY <1>1 DEF Alone, Exact, Removed
<1> QED
  BY <1>1, <1>2, <1>3 DEF Exact, Removed, HeldOnce, Covered, Looping

LEMMA StateIdsExact == ASSUME Typed, RobotsFirst, Exact, StateIds PROVE Exact'
<1>1. /\ bpc = "idle" /\ bpc' = "idle" /\ spc = "ids" /\ spc' = "push" /\ sbody' = sbody
      /\ sids' = robots /\ sbody \in Humans /\ sbody \notin humans
      /\ robots \subseteq Robots
  BY DEF StateIds, presentation, Exact, Alone, Typed, Looked, TypeOK
<1>2. UNCHANGED <<humans, robots, pending, promoted, gone, left, kept, ever, failure>>
  BY DEF StateIds, registry, promotion, outcome
<1>3. Held' = Held /\ Pushed = {} /\ gone = {}
  BY <1>1, <1>2 DEF Held, Looping, Pushed, Exact, Removed
<1>4. Pushing(sbody, sids)'
  <2>1. \A r \in robots : PairOf(sbody, r) \notin Held
    BY <1>1, <1>3, PairFacts DEF Exact, Covered
  <2> QED
    BY <1>1, <1>2, <1>3, <2>1, DisjointBodies DEF Pushing, IsRegistered
<1>5. Alone'
  BY <1>1, <1>4 DEF Alone
<1> QED
  BY <1>1, <1>2, <1>3, <1>5 DEF Exact, Removed, HeldOnce, Covered, Looping

LEMMA StatePushExact == ASSUME Typed, RobotsFirst, Exact, StatePush PROVE Exact'
<1>1. /\ bpc = "idle" /\ bpc' = "idle" /\ spc = "push" /\ spc' = "push" /\ sbody' = sbody
      /\ sbody \in Humans /\ Pushing(sbody, sids)
      /\ pending \in Seq(Pair) /\ robots \subseteq Robots
  BY DEF StatePush, presentation, Exact, Alone, Typed, Looked, Lists, TypeOK
<1>2. UNCHANGED <<humans, robots, promoted, gone, left, kept, ever, failure>>
  BY DEF StatePush, registry, promotion, outcome
<1>3. PICK r \in sids : pending' = Append(pending, PairOf(sbody, r)) /\ sids' = sids \ {r}
  BY DEF StatePush, PairOf
<1>4. r \in robots /\ sbody \notin humans
  BY <1>1 DEF Pushing, IsRegistered
<1>5. PairOf(sbody, r) \notin Held \cup promoted
  BY <1>1, <1>4, PairFacts DEF Pushing, Exact, Covered
<1>6. /\ Held = ToSet(pending) /\ Held' = Held \cup {PairOf(sbody, r)}
      /\ IsInjective(pending) /\ IsInjective(pending')
      /\ Pushed = {sbody} /\ Pushed' = {sbody}
  <2>1. PairOf(sbody, r) \in Pair
    BY <1>1, <1>4, PairFacts DEF Bodies
  <2>2. Held = ToSet(pending) /\ Held' = ToSet(pending') /\ IsInjective(pending)
    BY <1>1 DEF Held, Looping, Exact, HeldOnce
  <2> QED
    BY <1>1, <1>3, <1>4, <1>5, <2>1, <2>2, AppendSet DEF Pushed
<1>7. Pushing(sbody, sids)'
  BY <1>1, <1>2, <1>3, <1>4, <1>6, PairFacts, DisjointBodies DEF Pushing, IsRegistered
<1>8. Alone'
  BY <1>1, <1>2, <1>7 DEF Alone, Exact
<1>9. Covered'
  BY <1>2, <1>4, <1>5, <1>6, PairFacts DEF Covered, Exact
<1> QED
  BY <1>1, <1>2, <1>6, <1>8, <1>9 DEF Exact, Removed, HeldOnce, Looping

LEMMA StateInsertExact == ASSUME Typed, RobotsFirst, Exact, StateInsert PROVE Exact'
<1>1. /\ bpc = "idle" /\ bpc' = "idle" /\ spc = "push" /\ spc' = "register" /\ sids = {}
      /\ sbody \in Humans /\ Pushing(sbody, {})
      /\ humans \subseteq Humans /\ robots \subseteq Robots
  BY DEF StateInsert, presentation, Exact, Alone, Typed, Looked, TypeOK
<1>2. UNCHANGED <<pending, promoted, gone, left, kept, ever, failure>>
  BY DEF StateInsert, promotion, outcome
<1>3. humans' = humans \cup {sbody} /\ robots' = robots
  BY <1>1, DisjointBodies DEF StateInsert, InsertBody
<1>4. Held' = Held /\ Pushed = {sbody} /\ Pushed' = {} /\ gone = {}
  BY <1>1, <1>2 DEF Held, Looping, Pushed, Exact, Removed
<1>5. Covered'
  BY <1>1, <1>2, <1>3, <1>4 DEF Covered, Exact, Pushing
<1>6. Alone'
  BY <1>1 DEF Alone
<1> QED
  BY <1>1, <1>2, <1>4, <1>5, <1>6 DEF Exact, Removed, HeldOnce, Looping

(* Removal and promotion.                                                   *)
LEMMA RemoveExact == ASSUME Typed, RobotsFirst, Exact, RemoveHumans PROVE Exact'
<1>1. PICK hids \in SUBSET ((humans \cap known) \ smsg) :
          /\ humans' = humans \ hids
          /\ promoted' = {p \in promoted : p.human \notin hids}
          /\ gone' = hids
          /\ spc' = IF hids = {} THEN "examine" ELSE "filter"
  BY DEF RemoveHumans
<1>2. /\ spc = "remove" /\ bpc = "idle" /\ bpc' = "idle"
      /\ UNCHANGED <<robots, pending, left, kept, ever, failure>>
  BY DEF RemoveHumans, presentation, promotion, outcome, Exact, Alone
<1>3. /\ Held' = Held /\ Held = ToSet(pending) /\ Pushed = {} /\ Pushed' = {}
      /\ gone = {}
  BY <1>1, <1>2 DEF Held, Looping, Pushed, Exact, Removed
<1>4. Covered'
  <2>1. ASSUME NEW h \in humans', NEW r \in robots
        PROVE  PairOf(h, r) \in Held \cup promoted'
    <3>1. PairOf(h, r) \in Held \cup promoted /\ h \notin hids /\ PairOf(h, r).human = h
      BY <1>1, PairFacts DEF Covered, Exact
    <3> QED
      BY <1>1, <3>1
  <2>2. promoted' \subseteq promoted /\ \A p \in promoted' : p.human \in humans'
    BY <1>1 DEF Covered, Exact
  <2>3. \A p \in Held : p.human \in humans' \cup gone'
    BY <1>1, <1>3 DEF Covered, Exact
  <2> QED
    BY <1>2, <1>3, <2>1, <2>2, <2>3 DEF Covered, Exact
<1>5. Alone' /\ Removed'
  BY <1>1, <1>2, <1>3 DEF Alone, Removed
<1> QED
  BY <1>1, <1>2, <1>3, <1>4, <1>5 DEF Exact, HeldOnce, Looping

LEMMA LoopStartExact ==
    ASSUME Typed, RobotsFirst, Exact, FilterStart \/ PromoteStart
    PROVE  Exact'
<1>1. /\ bpc = "idle" /\ bpc' = "idle" /\ spc \in {"filter", "examine"} /\ left' = pending
      /\ spc' = IF spc = "filter" THEN "filtering" ELSE "promote"
      /\ UNCHANGED <<humans, robots, pending, promoted, gone, kept, ever, failure>>
  BY DEF FilterStart, PromoteStart, registry, presentation, outcome, Exact, Alone
<1>2. kept = <<>> /\ ToSet(kept) = {} /\ IsInjective(kept) /\ IsInjective(pending)
  BY <1>1, EmptySet DEF Exact, HeldOnce, Looping
<1>3. Held' = Held /\ Pushed' = Pushed /\ HeldOnce'
  BY <1>1, <1>2 DEF Held, Looping, Pushed, HeldOnce
<1>4. Alone' /\ Removed'
  BY <1>1, <1>2 DEF Alone, Removed, Exact
<1> QED
  BY <1>1, <1>3, <1>4 DEF Exact, Covered

(* What one round of a loop over the pairs does to the lists.               *)
LEMMA RoundOnce ==
    ASSUME Lists, Looping, HeldOnce, left # <<>>
    PROVE  /\ Head(left) \in Pair /\ Head(left) \notin ToSet(kept)
           /\ ToSet(left) = ToSet(Tail(left)) \cup {Head(left)}
           /\ Head(left) \notin ToSet(Tail(left))
           /\ IsInjective(Tail(left)) /\ ToSet(kept) \cap ToSet(Tail(left)) = {}
           /\ ToSet(Append(kept, Head(left))) = ToSet(kept) \cup {Head(left)}
           /\ IsInjective(kept) /\ IsInjective(Append(kept, Head(left)))
<1>1. left \in Seq(Pair) /\ kept \in Seq(Pair) /\ IsInjective(left) /\ IsInjective(kept)
      /\ ToSet(kept) \cap ToSet(left) = {}
  BY DEF Lists, HeldOnce
<1>2. /\ Head(left) \in Pair
      /\ ToSet(left) = ToSet(Tail(left)) \cup {Head(left)}
      /\ IsInjective(Tail(left)) /\ Head(left) \notin ToSet(Tail(left))
  BY <1>1, TailSet
<1>3. Head(left) \notin ToSet(kept)
  BY <1>1, <1>2
<1>4. ToSet(Append(kept, Head(left))) = ToSet(kept) \cup {Head(left)}
      /\ IsInjective(Append(kept, Head(left)))
  BY <1>1, <1>2, <1>3, AppendSet
<1> QED
  BY <1>1, <1>2, <1>3, <1>4

LEMMA FilterExact == ASSUME Typed, RobotsFirst, Exact, Filter PROVE Exact'
<1> DEFINE p == Head(left)
<1>1. /\ bpc = "idle" /\ bpc' = "idle" /\ spc = "filtering" /\ spc' = "filtering"
      /\ left # <<>> /\ left' = Tail(left)
      /\ UNCHANGED <<humans, robots, pending, promoted, gone, ever, failure>>
      /\ IF p.human \in gone THEN kept' = kept ELSE kept' = Append(kept, p)
  BY DEF Filter, registry, presentation, outcome, Exact, Alone
<1>2. /\ p \in Pair /\ p \notin ToSet(kept)
      /\ ToSet(left) = ToSet(left') \cup {p} /\ p \notin ToSet(left')
      /\ IsInjective(left') /\ ToSet(kept) \cap ToSet(left') = {}
      /\ ToSet(Append(kept, p)) = ToSet(kept) \cup {p}
      /\ IsInjective(kept) /\ IsInjective(Append(kept, p))
  BY <1>1, RoundOnce DEF Typed, Exact, Looping
<1> HIDE DEF p
<1>3. HeldOnce' /\ ToSet(kept') = ToSet(kept) \cup (IF p.human \in gone THEN {} ELSE {p})
  BY <1>1, <1>2 DEF HeldOnce, Looping
<1>4. Held = ToSet(kept) \cup ToSet(left) /\ Held' = Held \ (IF p.human \in gone THEN {p} ELSE {})
  BY <1>1, <1>2, <1>3 DEF Held, Looping
<1>5. Pushed = {} /\ Pushed' = {}
  BY <1>1 DEF Pushed
<1>6. Covered'
  <2>1. ASSUME NEW h \in humans, NEW r \in robots
        PROVE  PairOf(h, r) \in Held' \cup promoted
    <3>1. h \notin gone /\ PairOf(h, r).human = h /\ PairOf(h, r) \in Held \cup promoted
      BY PairFacts DEF Exact, Removed, Covered
    <3> QED
      BY <1>4, <3>1
  <2> QED
    BY <1>1, <1>4, <1>5, <2>1 DEF Covered, Exact
<1>7. Alone' /\ Removed'
  BY <1>1, <1>3 DEF Alone, Removed, Exact
<1> QED
  BY <1>1, <1>3, <1>6, <1>7 DEF Exact

LEMMA LoopEndExact ==
    ASSUME Typed, RobotsFirst, Exact, FilterEnd \/ AssignPairs
    PROVE  Exact'
<1>1. /\ bpc = "idle" /\ bpc' = "idle" /\ spc \in {"filtering", "promote"} /\ left = <<>>
      /\ spc' \in {"examine", "idle"} /\ pending' = kept /\ kept' = <<>>
      /\ UNCHANGED <<humans, robots, promoted, failure>>
      /\ gone' = {}
  BY DEF FilterEnd, AssignPairs, registry, presentation, outcome, Exact, Alone, Removed
<1>2. /\ Held = ToSet(kept) /\ Held' = Held /\ HeldOnce' /\ Pushed = {} /\ Pushed' = {}
  BY <1>1, EmptySet DEF Held, Looping, HeldOnce, Exact, Pushed
<1>3. \A p \in Held : p.human \notin gone
  BY <1>1, <1>2 DEF Exact, Removed
<1>4. Alone' /\ Removed'
  BY <1>1 DEF Alone, Removed
<1> QED
  BY <1>1, <1>2, <1>3, <1>4 DEF Exact, Covered

LEMMA PromoteExact == ASSUME Typed, RobotsFirst, Exact, Promote PROVE Exact' \/ Halted'
<1> DEFINE p == Head(left)
<1>1. /\ bpc = "idle" /\ bpc' = "idle" /\ spc = "promote" /\ spc' = "promote"
      /\ left # <<>>
      /\ left' = IF failure' = "none" THEN Tail(left) ELSE left
      /\ UNCHANGED <<humans, robots, pending, gone>> /\ gone = {} /\ failure = "none"
  BY DEF Promote, registry, presentation, Exact, Alone, Removed
<1>2. /\ p \in Pair /\ p \notin ToSet(kept)
      /\ ToSet(left) = ToSet(Tail(left)) \cup {p} /\ p \notin ToSet(Tail(left))
      /\ IsInjective(Tail(left)) /\ ToSet(kept) \cap ToSet(Tail(left)) = {}
      /\ ToSet(Append(kept, p)) = ToSet(kept) \cup {p}
      /\ IsInjective(kept) /\ IsInjective(Append(kept, p))
  BY <1>1, RoundOnce DEF Typed, Exact, Looping
<1>3. Held = ToSet(kept) \cup ToSet(left) /\ p \in Held /\ Pushed = {} /\ Pushed' = {}
  BY <1>1, <1>2 DEF Held, Looping, Pushed
<1>4. p.robot \in robots /\ p.human \in humans /\ p \notin promoted
  BY <1>1, <1>3 DEF Exact, Covered, Removed
<1>5. PromotionFailure(p) = "none"
  BY <1>4 DEF PromotionFailure
<1>6. CASE kept' = kept /\ promoted' = promoted \cup {p} /\ failure' = "none"
  <2>1. HeldOnce' /\ Held' = Held \ {p}
    BY <1>1, <1>2, <1>3, <1>6 DEF HeldOnce, Held, Looping
  <2>2. Covered'
    BY <1>1, <1>3, <1>4, <1>6, <2>1 DEF Covered, Exact
  <2>3. Alone' /\ Removed'
    BY <1>1, <1>6 DEF Alone, Removed, Exact
  <2> QED
    BY <1>1, <1>6, <2>1, <2>2, <2>3 DEF Exact
<1>7. CASE kept' = Append(kept, p) /\ UNCHANGED <<promoted, failure>>
  <2>1. HeldOnce' /\ Held' = Held
    BY <1>1, <1>2, <1>3, <1>7 DEF HeldOnce, Held, Looping
  <2>2. Covered'
    BY <1>1, <1>3, <1>7, <2>1 DEF Covered, Exact
  <2>3. Alone' /\ Removed'
    BY <1>1, <1>7 DEF Alone, Removed, Exact
  <2> QED
    BY <1>1, <1>7, <2>1, <2>2, <2>3 DEF Exact
<1>8. CASE failure' # "none" /\ failure' \in CreationOutcomes(p) /\ UNCHANGED promoted
  <2>1. failure' \in {"job already registered", "timestamp not in job registry"} /\ left' = left
    BY <1>1, <1>8 DEF CreationOutcomes
  <2> QED
    BY <1>4, <1>8, <2>1 DEF Halted
<1>9. CASE PromoteFirst
  BY <1>6, <1>8, <1>9 DEF PromoteFirst
<1>10. CASE KeepFirst
  BY <1>7, <1>10 DEF KeepFirst
<1> QED
  BY <1>5, <1>9, <1>10 DEF Promote, FailFirst

\* No step follows a failure.
LEMMA HaltedStays == ASSUME Halted, [Next]_vars PROVE Halted'
<1>1. ~Up
  BY DEF Halted, Up
<1>2. UNCHANGED vars
  BY <1>1 DEF Next, Present, PresentIds, PresentPush, PresentInsert, HumanState, StartState,
              RobotState, Register, StateIds, StatePush, StateInsert, Acquire, RemoveHumans,
              FilterStart, Filter, FilterEnd, PromoteStart, Promote, AssignPairs
<1> QED
  BY <1>2 DEF Halted, vars, outcome, state, promotion

LEMMA StutterExact == ASSUME Exact, UNCHANGED vars PROVE Exact'
BY DEF vars, registry, presentation, promotion, message, state, outcome, Exact, Alone, Removed,
       HeldOnce, Covered, Held, Looping, Pushed, Pushing, IsRegistered

-----------------------------------------------------------------------------
LEMMA OverlapStays == ASSUME TypeOK, [Next]_vars, overlapped PROVE overlapped'
BY DEF Next, vars, outcome, state, Present, PresentIds, PresentPush, PresentInsert, HumanState,
       StartState, RobotState, Register, StateIds, StatePush, StateInsert, Acquire, RemoveHumans,
       FilterStart, Filter, FilterEnd, PromoteStart, Promote, AssignPairs

LEMMA StepExact ==
    ASSUME Typed, RobotsFirst, Exact, [Next]_vars, ~overlapped'
    PROVE  Exact' \/ Halted'
BY PresentExact, PresentIdsExact, PresentPushExact, PresentInsertExact, StartExact, RegisterExact,
   StateIdsExact, StatePushExact, StateInsertExact, RemoveExact, LoopStartExact, FilterExact,
   LoopEndExact, PromoteExact, StutterExact
DEF Next

(* Every reachable state satisfies the inductive invariant.                 *)
THEOREM Invariance == Spec => []IInv
<1>1. Init => IInv
  BY InitTyped, InitExact DEF IInv
<1>2. ASSUME IInv, [Next]_vars PROVE IInv'
  <2>1. Typed'
    BY <1>2, PresentationTyped, StateTyped, RemovalTyped, PromotionTyped, StutterTyped DEF Next, IInv
  <2>2. ASSUME RobotsFirst, ~overlapped'
        PROVE  Exact' \/ Halted'
    BY <1>2, <2>2, OverlapStays, StepExact, HaltedStays DEF IInv, Typed
  <2> QED
    BY <2>1, <2>2 DEF IInv
<1> QED
  BY <1>1, <1>2, PTL DEF Spec

(* Between two callbacks every registered human and robot are together in     *)
(* exactly one pending pair, or have been promoted, and no pair of a removed  *)
(* human remains, as long as callbacks do not overlap and robots come first   *)
(* (runtime_io.cpp:43-46, 59-61, 141-144, 163-171).                         *)
THEOREM EachPairOnceHolds == Spec => []EachPairOnce
<1>1. ASSUME IInv, Quiescent, RobotsFirst, ~overlapped
      PROVE  /\ \A h \in humans, r \in robots : Places(h, r) = 1
             /\ \A p \in ToSet(pending) \cup promoted : p.human \in humans /\ p.robot \in robots
  <2>1. Exact /\ Held = ToSet(pending) /\ IsInjective(pending) /\ gone = {} /\ Pushed = {}
    BY <1>1 DEF IInv, Halted, Up, Exact, Held, HeldOnce, Looping, Removed, Pushed, Quiescent
  <2>2. ASSUME NEW h \in humans, NEW r \in robots
        PROVE  Places(h, r) = 1
    <3> DEFINE p == PairOf(h, r)
               At == {k \in DOMAIN pending : pending[k] = p}
    <3>1. p \in ToSet(pending) \cup promoted /\ (p \in promoted => p \notin ToSet(pending))
      BY <2>1 DEF Exact, Covered
    <3>2. CASE p \in promoted
      <4>1. At = {}
        BY <3>1, <3>2 DEF ToSet
      <4>2. Cardinality(At) = 0
        BY <4>1, FS_EmptySet
      <4> QED
        BY <3>2, <4>2 DEF Places, PairOf
    <3>3. CASE p \notin promoted
      <4>1. PICK k \in DOMAIN pending : pending[k] = p
        BY <3>1, <3>3 DEF ToSet
      <4>2. At = {k}
        BY <2>1, <4>1 DEF IsInjective
      <4>3. Cardinality(At) = 1
        BY <4>2, FS_Singleton
      <4> QED
        BY <3>3, <4>3 DEF Places, PairOf
    <3> QED
      BY <3>2, <3>3
  <2>3. \A p \in ToSet(pending) \cup promoted : p.human \in humans /\ p.robot \in robots
    BY <2>1 DEF Exact, Covered
  <2> QED
    BY <2>2, <2>3
<1>2. IInv => EachPairOnce
  BY <1>1 DEF EachPairOnce
<1> QED
  BY Invariance, <1>2, PTL

(* Then the promotion looks up no body that is not in the registry            *)
(* (body_registry.cpp:144, 164), and no pair whose jobs are still there is    *)
(* given to the factory again (lookahead_job_factory.cpp:89).  What can fail   *)
(* is the creation of jobs for a pair whose human was removed and has come    *)
(* back, or at a timestamp before that of others                             *)
(* (lookahead_job_registry.cpp:126).                                        *)
THEOREM PromotionSafeHolds == Spec => []PromotionSafe
<1>1. IInv => PromotionSafe
  BY DEF IInv, Exact, Halted, PromotionSafe
<1> QED
  BY Invariance, <1>1, PTL

-----------------------------------------------------------------------------
(* What remains when callbacks overlap.  Robots are never removed, and a robot *)
(* is not registered while a human may be.                                   *)
RobotsKnown ==
    /\ \A p \in ToSet(pending) \cup ToSet(left) \cup ToSet(kept) : p.robot \in robots
    /\ bpc # "idle" /\ bbody \in Robots =>
          humans = {} /\ spc \notin {"register", "ids", "push"}
    /\ bpc = "push" => bids \subseteq robots
    /\ spc = "push" => sids \subseteq robots
    /\ failure # "robot not registered"

\* A step of a loop moves the first pair, or drops it.
LEMMA LoopSets ==
    ASSUME left \in Seq(Pair), kept \in Seq(Pair), left # <<>>, left' = Tail(left),
           kept' = kept \/ kept' = Append(kept, Head(left))
    PROVE  /\ Head(left) \in ToSet(left)
           /\ ToSet(left) = ToSet(left') \cup {Head(left)}
           /\ ToSet(kept') \subseteq ToSet(kept) \cup {Head(left)}
<1>1. ToSet(left) = ToSet(Tail(left)) \cup {Head(left)} /\ Head(left) \in Pair
  BY TailSet
<1>2. CASE kept' = kept
  BY <1>1, <1>2
<1>3. CASE kept' = Append(kept, Head(left))
  <2>1. ToSet(Append(kept, Head(left))) = ToSet(kept) \cup {Head(left)}
    BY <1>1, AppendSet
  <2> QED
    BY <1>1, <1>3, <2>1
<1> QED
  BY <1>2, <1>3

LEMMA RobotsKnownStep ==
    ASSUME Typed, RobotsFirst, RobotsKnown, [Next]_vars
    PROVE  RobotsKnown'
<1>1. /\ pending \in Seq(Pair) /\ left \in Seq(Pair) /\ kept \in Seq(Pair)
      /\ humans \subseteq Humans /\ robots \subseteq Robots
  BY DEF Typed, TypeOK, Lists
<1>2. CASE \E b \in Bodies : Present(b)
  BY <1>2 DEF Present, registry, state, promotion, message, RobotsKnown
<1>3. CASE PresentIds
  BY <1>3, DisjointBodies
  DEF PresentIds, registry, state, promotion, message, outcome, Typed, Looked, Bodies, RobotsKnown
<1>4. CASE PresentPush
  <2>1. PICK id \in bids : pending' = Append(pending, PairOf(bbody, id)) /\ bids' = bids \ {id}
    BY <1>4 DEF PresentPush, PairOf
  <2>2. id \in robots /\ bbody \in Bodies /\ id \in Bodies
    BY <1>1, <1>4, <2>1 DEF PresentPush, Typed, Looked, Bodies, RobotsKnown
  <2>3. PairOf(bbody, id) \in Pair /\ PairOf(bbody, id).robot = id
    BY <2>2, PairFacts
  <2>4. ToSet(Append(pending, PairOf(bbody, id))) = ToSet(pending) \cup {PairOf(bbody, id)}
    BY <1>1, <2>3, AppendSet
  <2>5. \A p \in ToSet(pending') : p.robot \in robots
    BY <2>1, <2>2, <2>3, <2>4 DEF RobotsKnown
  <2> QED
    BY <1>4, <2>1, <2>5
    DEF PresentPush, registry, state, promotion, message, outcome, RobotsKnown
<1>5. CASE PresentInsert
  BY <1>5 DEF PresentInsert, InsertBody, state, promotion, message, outcome, RobotsKnown
<1>6. CASE \E bodies \in SUBSET Humans \ {{}} : HumanState(bodies)
  BY <1>6 DEF HumanState, StartState, registry, presentation, promotion, RobotsKnown
<1>7. CASE (\E r \in Robots : RobotState(r)) \/ Acquire
  BY <1>7
  DEF RobotState, StartState, Acquire, presentation, promotion, message, outcome, RobotsKnown
<1>8. CASE \E h \in Humans : Register(h)
  BY <1>8 DEF Register, registry, presentation, promotion, outcome, RobotsKnown
<1>9. CASE StateIds
  BY <1>9 DEF StateIds, registry, presentation, promotion, message, outcome, RobotsKnown
<1>10. CASE StatePush
  <2>1. PICK r \in sids : pending' = Append(pending, PairOf(sbody, r)) /\ sids' = sids \ {r}
    BY <1>10 DEF StatePush, PairOf
  <2>2. r \in robots /\ sbody \in Bodies /\ r \in Bodies
    BY <1>1, <1>10, <2>1 DEF StatePush, Typed, Looked, Bodies, RobotsKnown
  <2>3. PairOf(sbody, r) \in Pair /\ PairOf(sbody, r).robot = r
    BY <2>2, PairFacts
  <2>4. ToSet(Append(pending, PairOf(sbody, r))) = ToSet(pending) \cup {PairOf(sbody, r)}
    BY <1>1, <2>3, AppendSet
  <2>5. \A p \in ToSet(pending') : p.robot \in robots
    BY <2>1, <2>2, <2>3, <2>4 DEF RobotsKnown
  <2> QED
    BY <1>10, <2>1, <2>5
    DEF StatePush, registry, presentation, promotion, message, outcome, RobotsKnown
<1>11. CASE StateInsert
  BY <1>1, <1>11
  DEF StateInsert, InsertBody, presentation, promotion, message, outcome, RobotsKnown
<1>12. CASE RemoveHumans
  BY <1>12 DEF RemoveHumans, presentation, promotion, message, outcome, RobotsKnown
<1>13. CASE FilterStart \/ PromoteStart
  BY <1>13
  DEF FilterStart, PromoteStart, registry, presentation, promotion, message, outcome, RobotsKnown
<1>14. CASE Filter
  <2>1. left # <<>> /\ left' = Tail(left) /\ (kept' = kept \/ kept' = Append(kept, Head(left)))
    BY <1>14 DEF Filter
  <2>2. /\ ToSet(left) = ToSet(left') \cup {Head(left)}
        /\ ToSet(kept') \subseteq ToSet(kept) \cup {Head(left)}
    BY <1>1, <2>1, LoopSets
  <2> QED
    BY <1>14, <2>2 DEF Filter, registry, presentation, promotion, message, outcome, RobotsKnown
<1>15. CASE FilterEnd \/ AssignPairs
  <2>1. ToSet(kept') = {} /\ pending' = kept
    BY <1>15, EmptySet DEF FilterEnd, AssignPairs
  <2> QED
    BY <1>15, <2>1
    DEF FilterEnd, AssignPairs, registry, presentation, message, outcome, RobotsKnown
<1>16. CASE Promote
  <2>1. left # <<>> /\ Head(left).robot \in robots
    BY <1>1, <1>16, SetOf DEF Promote, RobotsKnown
  <2>2. failure' # "robot not registered"
    BY <1>16, <2>1
    DEF Promote, PromoteFirst, KeepFirst, FailFirst, PromotionFailure, CreationOutcomes, RobotsKnown
  <2>3. kept' = kept \/ kept' = Append(kept, Head(left))
    BY <1>16 DEF Promote, PromoteFirst, KeepFirst, FailFirst
  <2>4. ToSet(left') \subseteq ToSet(left) /\ ToSet(kept') \subseteq ToSet(kept) \cup ToSet(left)
    <3>1. CASE failure' = "none"
      BY <1>1, <1>16, <2>1, <2>3, <3>1, LoopSets DEF Promote
    <3>2. CASE failure' # "none"
      <4>1. left' = left /\ kept' = kept
        BY <1>16, <3>2 DEF Promote, PromoteFirst, KeepFirst, FailFirst, Up
      <4> QED
        BY <4>1
    <3> QED
      BY <3>1, <3>2
  <2> QED
    BY <1>16, <2>2, <2>4 DEF Promote, registry, presentation, promotion, message, RobotsKnown
<1>17. CASE UNCHANGED vars
  BY <1>17 DEF vars, registry, presentation, promotion, message, state, outcome, RobotsKnown
<1> QED
  BY <1>2, <1>3, <1>4, <1>5, <1>6, <1>7, <1>8, <1>9, <1>10, <1>11, <1>12, <1>13, <1>14, <1>15,
     <1>16, <1>17
  DEF Next

(* However callbacks overlap, a pair's robot is in the registry whenever it   *)
(* is looked up, if robots come first (body_registry.cpp:144).              *)
THEOREM RobotOfPairRegisteredHolds == RobotsFirst => (Spec => []RobotOfPairRegistered)
<1> SUFFICES ASSUME RobotsFirst PROVE Spec => []RobotOfPairRegistered
  OBVIOUS
<1>1. Init => RobotsKnown
  BY EmptySet DEF Init, RobotsKnown
<1>2. IInv /\ RobotsKnown /\ [Next]_vars => RobotsKnown'
  BY RobotsKnownStep DEF IInv
<1>3. RobotsKnown => RobotOfPairRegistered
  BY DEF RobotsKnown, RobotOfPairRegistered
<1> QED
  BY Invariance, <1>1, <1>2, <1>3, PTL DEF Spec
=============================================================================
