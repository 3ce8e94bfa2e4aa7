--------------------------- MODULE JobLifecycleProofs --------------------------
(***************************************************************************)
(* Proofs about the life of jobs, for any humans, workers, timestamps,       *)
(* retentions and lengths of paths.                                         *)
(*                                                                         *)
(* Typed is about single variables.  Owned is about whose the pairs, jobs and *)
(* registrations are: a human that was never removed has jobs once its pair  *)
(* was promoted, and not before.  Alive and Apart are what keeps jobs from   *)
(* being lost and from being run twice: for every path registered there is a *)
(* job at or beyond it, and no path registered twice has two jobs.          *)
(***************************************************************************)
EXTENDS JobLifecycle, SequenceTheorems, FiniteSetTheorems, TLAPS

Searching == {"check", "search", "sleep"}
Spawning == {"next", "enqueue"}

Typed ==
    /\ TypeOK
    /\ pending \in Seq(Humans) /\ left \in Seq(Humans)
    /\ waiting \in Seq(Job) /\ sleeping \in Seq(Job) /\ keep \in Seq(Job) /\ move \in Seq(Job)
    /\ cur \in [Workers -> {<<>>} \cup {<<j>> : j \in Job}]
    /\ todo \in [Workers -> Seq(Job)]
    /\ \A w \in Workers : /\ pc[w] = "idle" <=> cur[w] = <<>>
                          /\ pc[w] \notin Spawning => todo[w] = <<>>
                          /\ pc[w] = "enqueue" => todo[w] # <<>>
    /\ left # <<>> => rcv \in {"filter", "promote"}
    /\ keep # <<>> => rcv \in {"purge", "awaken"}
    /\ move # <<>> => rcv = "awaken"
    /\ gone # {} => rcv \in {"filter", "purge"}
    /\ ~Reuse => reg = {}

-----------------------------------------------------------------------------
\* The jobs anywhere, those included that a worker has replaced.
AllJobs == ToSet(waiting) \cup ToSet(sleeping) \cup ToSet(keep) \cup ToSet(move)
           \cup UNION {ToSet(cur[w]) \cup ToSet(todo[w]) : w \in Workers}

\* The humans that may have jobs.
Owners == Promoted \cup everRemoved

\* The humans registered and the one whose presentation is to insert it.
Known == humans \cup (IF bpc = "insert" THEN {bbody} ELSE {})

\* No presentation is under way while a state message is handled, and the human
\* presented has no pair until its own is pushed.
Presented ==
    bpc # "idle" => /\ rcv = "idle" /\ bbody \notin humans
                    /\ bbody \in ToSet(pending) <=> bpc = "insert"

Owned ==
    /\ Presented
    /\ ToSet(pending) \subseteq Known /\ ToSet(left) \subseteq humans \cup gone
    /\ gone \subseteq everRemoved \ humans
    /\ IsInjective(pending) /\ IsInjective(left) /\ ToSet(pending) \cap ToSet(left) = {}
    /\ \A j \in AllJobs : j.human \in Owners
    /\ \A r \in reg : r[1] \in Owners

-----------------------------------------------------------------------------
\* What lookups in the robot history may fail for.
Missing == HistoryShort \/ factory = "weak"

\* The failures that need neither a removal nor an overlap.
SafeFailure(what) ==
    /\ what \in {"none", "timestamp not in job registry"} \cup PurgeFailures
    /\ what \in {"no human instance within time", "lower timestamp not found"} => purged # {}
    /\ what = "not in the robot history" => Missing
    /\ what = "no human instance left" => ~InOrder /\ \E t \in Times : t < retention

\* What a job relies on while no human has been removed.
Timely ==
    everRemoved = {} =>
        /\ \A j \in AllJobs :
              /\ j.time <= robotTime
              /\ hist[j.human] # {}
              /\ j.time \in hist[j.human] \/ ("human" \in purged /\ \A u \in hist[j.human] : j.time < u)
        /\ SafeFailure(failure)

-----------------------------------------------------------------------------
\* A next job that its worker is going to drop.
Droppable(w, j) ==
    Len(j.path) > Len(MyJob(w).path) /\ HasRegistered(j.human, j.time, j.path)

\* The jobs at a place that are not going to be dropped.
SureIn(w) ==
    IF pc[w] \in Spawning THEN {j \in ToSet(todo[w]) : ~Droppable(w, j)} ELSE ToSet(cur[w])
SureAt(place) == IF place \in Workers THEN SureIn(place) ELSE ToSet(Queued[place])
Sure == UNION {SureAt(place) : place \in Places}

\* A job at or beyond a path of a human at a time.
Beyond(j, h, t, q) ==
    j.human = h /\ (j.time > t \/ (j.time = t /\ q \in Prefixes(j.path)))

Alive ==
    /\ Reuse => \A h \in Promoted : \E t \in Times : <<h, t, <<>>>> \in reg
    /\ \A r \in reg : r[1] \notin everRemoved => \E j \in Sure : Beyond(j, r[1], r[2], r[3])
    /\ ~Reuse => \A h \in Promoted : \E j \in Sure : j.human = h /\ IsPrimary(j.path)

-----------------------------------------------------------------------------
\* Jobs to be run have a path that begins with one registered.
Rooted(j) == \E q \in Prefixes(j.path) : <<j.human, j.time, q>> \in reg
AllRooted ==
    Reuse => \A j \in ToSet(waiting) \cup ToSet(move)
                      \cup UNION {ToSet(cur[w]) \cup ToSet(todo[w]) : w \in Workers} : Rooted(j)

\* Where a path leads to another, one in between is registered.
Split(x, y) ==
    x.path \in Prefixes(y.path) =>
        \E q \in Prefixes(y.path) : Len(q) > Len(x.path) /\ <<y.human, y.time, q>> \in reg

Apart(x, y) ==
    x.human = y.human /\ x.human \notin everRemoved =>
        IF Reuse THEN x.time = y.time => Split(x, y) /\ Split(y, x)
                 ELSE ~(IsPrimary(x.path) /\ IsPrimary(y.path))

AllApart(s) == \A i, k \in DOMAIN s : i # k => Apart(s[i], s[k])

\* A job that sleeps may be registered as well as one that is run.
Counted(place) == IF Reuse /\ place \in {"sleeping", "keep"} THEN {} ELSE SureAt(place)

Separate ==
    /\ AllRooted
    /\ \A w \in Workers : pc[w] = "enqueue" => ~Droppable(w, Head(todo[w]))
    /\ AllApart(waiting) /\ AllApart(move) /\ \A w \in Workers : AllApart(todo[w])
    /\ ~Reuse => AllApart(sleeping) /\ AllApart(keep)
    /\ \A p, q \in Places : p # q => \A x \in Counted(p), y \in Counted(q) : Apart(x, y)

IInv == Typed /\ (overlapped \/ (Owned /\ Timely /\ Alive /\ Separate))

-----------------------------------------------------------------------------
(* Sequences and the sets of their elements.                                *)
LEMMA EmptyList == ToSet(<<>>) = {} /\ IsInjective(<<>>) /\ AllApart(<<>>)
BY DEF ToSet, IsInjective, AllApart

LEMMA OneList ==
    ASSUME NEW T, NEW x \in T
    PROVE  <<x>> \in Seq(T) /\ ToSet(<<x>>) = {x} /\ <<x>> # <<>> /\ <<x>>[1] = x /\ AllApart(<<x>>)
BY DEF ToSet, AllApart

LEMMA ListElements ==
    ASSUME NEW T, NEW s \in Seq(T)
    PROVE  ToSet(s) \subseteq T
BY LenProperties DEF ToSet

LEMMA ConcatList ==
    ASSUME NEW T, NEW s \in Seq(T), NEW u \in Seq(T)
    PROVE  /\ s \o u \in Seq(T)
           /\ ToSet(s \o u) = ToSet(s) \cup ToSet(u)
           /\ IsInjective(s) /\ IsInjective(u) /\ ToSet(s) \cap ToSet(u) = {} => IsInjective(s \o u)
           /\ AllApart(s) /\ AllApart(u)
              /\ (\A x \in ToSet(s), y \in ToSet(u) : Apart(x, y) /\ Apart(y, x)) => AllApart(s \o u)
<1> DEFINE c == s \o u
<1>1. /\ c \in Seq(T) /\ Len(s) \in Nat /\ Len(u) \in Nat /\ DOMAIN s = 1..Len(s)
      /\ DOMAIN u = 1..Len(u) /\ DOMAIN c = 1..(Len(s) + Len(u))
      /\ \A i \in DOMAIN c : c[i] = IF i <= Len(s) THEN s[i] ELSE u[i - Len(s)]
  BY ConcatProperties, LenProperties
<1> HIDE DEF c
<1>2. /\ \A i \in DOMAIN s : i \in DOMAIN c /\ c[i] = s[i]
      /\ \A i \in DOMAIN u : i + Len(s) \in DOMAIN c /\ c[i + Len(s)] = u[i]
  <2>1. \A i \in DOMAIN s : i \in DOMAIN c /\ i <= Len(s)
    BY <1>1
  <2>2. \A i \in DOMAIN u : /\ i + Len(s) \in DOMAIN c /\ ~(i + Len(s) <= Len(s))
                           /\ (i + Len(s)) - Len(s) = i
    BY <1>1
  <2> QED
    BY <1>1, <2>1, <2>2
<1>3. \A i \in DOMAIN c : \/ i \in DOMAIN s /\ c[i] = s[i]
                          \/ i - Len(s) \in DOMAIN u /\ i \notin DOMAIN s /\ c[i] = u[i - Len(s)]
  BY <1>1
<1>4. ToSet(c) = ToSet(s) \cup ToSet(u)
  BY <1>2, <1>3 DEF ToSet
<1>5. ASSUME IsInjective(s), IsInjective(u), ToSet(s) \cap ToSet(u) = {},
             NEW i \in DOMAIN c, NEW k \in DOMAIN c, c[i] = c[k]
      PROVE  i = k
  <2>1. \A a \in DOMAIN s, b \in DOMAIN u : s[a] # u[b]
    BY <1>5 DEF ToSet
  <2>2. i \in Int /\ k \in Int
    BY <1>1
  <2>3. CASE i \in DOMAIN s /\ k \in DOMAIN s
    BY <1>2, <1>5, <2>3 DEF IsInjective
  <2>4. CASE i \notin DOMAIN s /\ k \notin DOMAIN s
    <3>1. i - Len(s) = k - Len(s)
      BY <1>3, <1>5, <2>4 DEF IsInjective
    <3> QED
      BY <1>1, <2>2, <3>1
  <2> QED
    BY <1>3, <1>5, <2>1, <2>3, <2>4
<1>6. ASSUME AllApart(s), AllApart(u),
             \A x \in ToSet(s), y \in ToSet(u) : Apart(x, y) /\ Apart(y, x),
             NEW i \in DOMAIN c, NEW k \in DOMAIN c, i # k
      PROVE  Apart(c[i], c[k])
  <2>1. \A a \in DOMAIN s, b \in DOMAIN u : Apart(s[a], u[b]) /\ Apart(u[b], s[a])
    BY <1>6 DEF ToSet
  <2>2. i \in Int /\ k \in Int
    BY <1>1
  <2>3. CASE i \notin DOMAIN s /\ k \notin DOMAIN s
    <3>1. i - Len(s) # k - Len(s)
      BY <1>1, <1>6, <2>2
    <3> QED
      BY <1>3, <1>6, <2>3, <3>1 DEF AllApart
  <2> QED
    BY <1>3, <1>6, <2>1, <2>3 DEF AllApart
<1> QED
  BY <1>1, <1>4, <1>5, <1>6 DEF c, IsInjective, AllApart

LEMMA AppendList ==
    ASSUME NEW T, NEW s \in Seq(T), NEW x \in T
    PROVE  /\ Append(s, x) \in Seq(T)
           /\ ToSet(Append(s, x)) = ToSet(s) \cup {x}
           /\ IsInjective(s) /\ x \notin ToSet(s) => IsInjective(Append(s, x))
           /\ AllApart(s) /\ (\A y \in ToSet(s) : Apart(x, y) /\ Apart(y, x))
                 => AllApart(Append(s, x))
           /\ Append(s, x) # <<>>
<1> DEFINE a == Append(s, x)
<1>1. /\ a \in Seq(T) /\ Len(s) \in Nat /\ DOMAIN s = 1..Len(s)
      /\ DOMAIN a = 1..(Len(s) + 1) /\ a # <<>>
      /\ \A i \in 1..Len(s) : a[i] = s[i]
      /\ a[Len(s) + 1] = x
  BY AppendProperties, LenProperties
<1> HIDE DEF a
<1>2. \A i \in DOMAIN a : i \in DOMAIN s \/ i = Len(s) + 1
  BY <1>1
<1>3. /\ \A i \in DOMAIN s : i \in DOMAIN a /\ a[i] = s[i]
      /\ Len(s) + 1 \in DOMAIN a /\ a[Len(s) + 1] = x
  BY <1>1
<1>4. ToSet(a) = ToSet(s) \cup {x}
  BY <1>2, <1>3 DEF ToSet
<1>5. IsInjective(s) /\ x \notin ToSet(s) => IsInjective(a)
  BY <1>2, <1>3 DEF ToSet, IsInjective
<1>6. AllApart(s) /\ (\A y \in ToSet(s) : Apart(x, y) /\ Apart(y, x)) => AllApart(a)
  BY <1>2, <1>3 DEF ToSet, AllApart
<1> QED
  BY <1>1, <1>4, <1>5, <1>6 DEF a

LEMMA TailList ==
    ASSUME NEW T, NEW s \in Seq(T), s # <<>>
    PROVE  /\ Head(s) \in T /\ Tail(s) \in Seq(T)
           /\ ToSet(s) = ToSet(Tail(s)) \cup {Head(s)}
           /\ IsInjective(s) => IsInjective(Tail(s)) /\ Head(s) \notin ToSet(Tail(s))
           /\ AllApart(s) => /\ AllApart(Tail(s))
                             /\ \A y \in ToSet(Tail(s)) : Apart(Head(s), y) /\ Apart(y, Head(s))
<1> DEFINE t == Tail(s)
<1>1. /\ Head(s) \in T /\ t \in Seq(T) /\ Head(s) = s[1]
      /\ Len(s) \in Nat \ {0} /\ DOMAIN s = 1..Len(s) /\ DOMAIN t = 1..(Len(s) - 1)
      /\ \A i \in 1..(Len(s) - 1) : t[i] = s[i + 1]
  BY HeadTailProperties, LenProperties, EmptySeq
<1> HIDE DEF t
<1>2. \A i \in DOMAIN t : i + 1 \in DOMAIN s /\ i + 1 # 1 /\ t[i] = s[i + 1] /\ i \in Int
  BY <1>1
<1>3. \A i \in DOMAIN s : i = 1 \/ (i - 1 \in DOMAIN t /\ t[i - 1] = s[i])
  BY <1>1
<1>4. 1 \in DOMAIN s
  BY <1>1
<1>5. ToSet(s) = ToSet(t) \cup {Head(s)}
  <2>1. ToSet(s) \subseteq ToSet(t) \cup {Head(s)}
    BY <1>1, <1>3 DEF ToSet
  <2>2. ToSet(t) \subseteq ToSet(s)
    BY <1>2 DEF ToSet
  <2>3. Head(s) \in ToSet(s)
    BY <1>1, <1>4 DEF ToSet
  <2> QED
    BY <2>1, <2>2, <2>3
<1>6. ASSUME IsInjective(s), NEW i \in DOMAIN t
      PROVE  t[i] # Head(s) /\ \A k \in DOMAIN t : t[i] = t[k] => i = k
  <2>1. \A k \in DOMAIN t : i + 1 = k + 1 => i = k
    BY <1>2
  <2>2. \A a, b \in DOMAIN s : s[a] = s[b] => a = b
    BY <1>6, Zenon DEF IsInjective
  <2>3. Head(s) = s[1]
    BY <1>1
  <2>4. t[i] # Head(s)
    BY <1>2, <1>4, <2>2, <2>3, Zenon
  <2>5. ASSUME NEW k \in DOMAIN t, t[i] = t[k]
        PROVE  i = k
    BY <1>2, <2>1, <2>2, <2>5, Zenon
  <2> QED
    BY <2>4, <2>5, Zenon
<1>7. ASSUME AllApart(s), NEW i \in DOMAIN t
      PROVE  /\ Apart(Head(s), t[i]) /\ Apart(t[i], Head(s))
             /\ \A k \in DOMAIN t : i # k => Apart(t[i], t[k])
  <2>1. \A k \in DOMAIN t : i # k => i + 1 # k + 1
    BY <1>2
  <2>2. \A a, b \in DOMAIN s : a # b => Apart(s[a], s[b])
    BY <1>7, Zenon DEF AllApart
  <2>3. Head(s) = s[1]
    BY <1>1
  <2>4. Apart(Head(s), t[i]) /\ Apart(t[i], Head(s))
    BY <1>2, <1>4, <2>2, <2>3, Zenon
  <2>5. ASSUME NEW k \in DOMAIN t, i # k
        PROVE  Apart(t[i], t[k])
    BY <1>2, <2>1, <2>2, <2>5, Zenon
  <2> QED
    BY <2>4, <2>5, Zenon
<1>8. IsInjective(s) => IsInjective(t) /\ Head(s) \notin ToSet(t)
  BY <1>6 DEF ToSet, IsInjective
<1>9. AllApart(s) => AllApart(t) /\ \A y \in ToSet(t) : Apart(Head(s), y) /\ Apart(y, Head(s))
  BY <1>7 DEF ToSet, AllApart
<1> QED
  BY <1>1, <1>5, <1>8, <1>9 DEF t

(* A finite set in some order.                                              *)
LEMMA SetList ==
    ASSUME NEW S, IsFiniteSet(S)
    PROVE  SetToSeq(S) \in Seq(S) /\ ToSet(SetToSeq(S)) = S /\ IsInjective(SetToSeq(S))
<1> DEFINE n == Cardinality(S)
           f == SetToSeq(S)
<1>1. n \in Nat /\ ExistsBijection(1..n, S)
  BY FS_CardinalityType
<1>2. PICK g \in Bijection(1..n, S) : TRUE
  BY <1>1 DEF ExistsBijection
<1>3. g \in [1..n -> S] /\ IsInjective(g)
  BY <1>2 DEF Bijection, Injection
<1>4. f \in [1..n -> S] /\ IsInjective(f)
  BY <1>3 DEF SetToSeq
<1>5. f \in Injection(1..n, S)
  BY <1>4 DEF Injection
<1>6. IsFiniteSet(1..n) /\ Cardinality(1..n) = n
  BY <1>1, FS_Interval
<1>7. f \in Surjection(1..n, S)
  BY <1>5, <1>6, FS_Injection
<1> HIDE DEF f, n
<1>8. f \in Seq(S)
  BY <1>1, <1>4, SeqDef
<1>9. ToSet(f) = S
  <2>1. DOMAIN f = 1..n
    BY <1>4
  <2>2. \A y \in S : \E x \in 1..n : f[x] = y
    BY <1>7 DEF Surjection
  <2> QED
    BY <1>4, <2>1, <2>2 DEF ToSet
<1> QED
  BY <1>4, <1>8, <1>9 DEF f

-----------------------------------------------------------------------------
(* Paths, their prefixes and the next ones.                                 *)
LEMMA PathType ==
    /\ \A p : p \in Paths <=> p \in Seq(Priorities) /\ Len(p) <= MaxDepth
    /\ \A p \in Paths : /\ p \in Seq(Priorities) /\ Len(p) \in Nat
                        /\ DOMAIN p = 1..Len(p) /\ \A i \in 1..Len(p) : p[i] \in Priorities
<1>1. ASSUME NEW p, p \in Paths
      PROVE  p \in Seq(Priorities) /\ Len(p) <= MaxDepth
  <2>1. PICK m \in 0..MaxDepth : p \in [1..m -> Priorities]
    BY <1>1 DEF Paths, BoundedSeq, SeqOf
  <2>2. m \in Nat /\ m <= MaxDepth
    BY LifecycleAssumption
  <2>3. p \in Seq(Priorities)
    BY <2>1, <2>2, SeqDef
  <2>4. DOMAIN p = 1..m /\ DOMAIN p = 1..Len(p) /\ Len(p) \in Nat
    BY <2>1, <2>3, LenProperties
  <2> QED
    BY <2>2, <2>3, <2>4
<1>2. ASSUME NEW p \in Seq(Priorities), Len(p) <= MaxDepth
      PROVE  p \in Paths
  <2>1. Len(p) \in 0..MaxDepth /\ p \in [1..Len(p) -> Priorities]
    BY <1>2, LenProperties, LifecycleAssumption
  <2> QED
    BY <2>1 DEF Paths, BoundedSeq, SeqOf
<1>3. ASSUME NEW p \in Seq(Priorities)
      PROVE  Len(p) \in Nat /\ DOMAIN p = 1..Len(p) /\ \A i \in 1..Len(p) : p[i] \in Priorities
  BY LenProperties
<1> QED
  BY <1>1, <1>2, <1>3

LEMMA SubPath ==
    ASSUME NEW p \in Paths, NEW m \in 1..(Len(p) + 1), NEW n \in 0..Len(p)
    PROVE  /\ SubSeq(p, m, n) \in Paths
           /\ Len(SubSeq(p, m, n)) = IF m <= n THEN n - m + 1 ELSE 0
           /\ \A i \in 1..Len(SubSeq(p, m, n)) : SubSeq(p, m, n)[i] = p[m + i - 1]
<1>1. p \in Seq(Priorities) /\ Len(p) \in Nat /\ Len(p) <= MaxDepth /\ m \in Int /\ n \in Int
      /\ \A i \in 1..Len(p) : p[i] \in Priorities
  BY PathType
<1>2. \A i \in m..n : p[i] \in Priorities
  BY <1>1
<1> DEFINE s == SubSeq(p, m, n)
<1>3. /\ s \in Seq(Priorities) /\ Len(s) = IF m <= n THEN n - m + 1 ELSE 0
      /\ \A i \in 1..(n - m + 1) : s[i] = p[m + i - 1]
  BY <1>1, <1>2, SubSeqProperties
<1> HIDE DEF s
<1>4. Len(s) <= MaxDepth /\ \A i \in 1..Len(s) : i \in 1..(n - m + 1)
  BY <1>1, <1>3, LifecycleAssumption
<1>5. s \in Paths
  BY <1>3, <1>4, PathType
<1> QED
  BY <1>3, <1>4, <1>5 DEF s

LEMMA PrefixOf ==
    ASSUME NEW p \in Paths, NEW q
    PROVE  q \in Prefixes(p) <=>
              q \in Paths /\ Len(q) <= Len(p) /\ \A i \in 1..Len(q) : q[i] = p[i]
<1>0. p \in Seq(Priorities) /\ Len(p) \in Nat
  BY PathType
<1>1. ASSUME NEW l \in 0..Len(p)
      PROVE  LET s == SubSeq(p, 1, l)
             IN  s \in Paths /\ Len(s) = l /\ \A i \in 1..l : s[i] = p[i]
  <2> DEFINE s == SubSeq(p, 1, l)
  <2>1. /\ s \in Paths /\ Len(s) = IF 1 <= l THEN l - 1 + 1 ELSE 0
        /\ \A i \in 1..Len(s) : s[i] = p[1 + i - 1]
    <3>1. 1 \in 1..(Len(p) + 1)
      BY <1>0
    <3> QED
      BY <3>1, SubPath
  <2> HIDE DEF s
  <2>2. Len(s) = l /\ \A i \in 1..l : 1 + i - 1 = i
    BY <1>0, <2>1
  <2> QED
    BY <2>1, <2>2 DEF s
<1>2. ASSUME q \in Prefixes(p)
      PROVE  q \in Paths /\ Len(q) <= Len(p) /\ \A i \in 1..Len(q) : q[i] = p[i]
  <2>1. PICK l \in 0..Len(p) : q = SubSeq(p, 1, l)
    BY <1>2 DEF Prefixes
  <2>2. q \in Paths /\ Len(q) = l /\ \A i \in 1..l : q[i] = p[i]
    BY <1>1, <2>1
  <2> QED
    BY <1>0, <2>2
<1>3. ASSUME q \in Paths, Len(q) <= Len(p), \A i \in 1..Len(q) : q[i] = p[i]
      PROVE  q \in Prefixes(p)
  <2> DEFINE s == SubSeq(p, 1, Len(q))
  <2>1. Len(q) \in 0..Len(p) /\ q \in Seq(Priorities)
    BY <1>0, <1>3, PathType
  <2>2. s \in Paths /\ Len(s) = Len(q) /\ \A i \in 1..Len(q) : s[i] = p[i]
    BY <1>1, <2>1
  <2>3. s \in Seq(Priorities)
    BY <2>2, PathType
  <2>4. s \in Prefixes(p)
    BY <2>1 DEF Prefixes
  <2> HIDE DEF s
  <2>5. s = q
    BY <1>3, <2>1, <2>2, <2>3, SeqEqual
  <2> QED
    BY <2>4, <2>5
<1> QED
  BY <1>2, <1>3

LEMMA EmptyPath == <<>> \in Paths
<1>1. PICK e : e = <<>> /\ e \in Seq(Priorities) /\ Len(e) = 0
  BY EmptySeq
<1>2. Len(e) <= MaxDepth
  BY <1>1, LifecycleAssumption
<1> QED
  BY <1>1, <1>2, PathType

LEMMA PrefixOrder ==
    ASSUME NEW p \in Paths
    PROVE  /\ p \in Prefixes(p) /\ Prefixes(p) \subseteq Paths /\ <<>> \in Prefixes(p)
           /\ \A q \in Prefixes(p) : /\ Len(q) <= Len(p)
                                     /\ Prefixes(q) \subseteq Prefixes(p)
                                     /\ Len(q) = Len(p) => q = p
           /\ \A q, r \in Prefixes(p) : Len(r) <= Len(q) => r \in Prefixes(q)
<1>1. Len(p) \in Nat /\ \A q \in Paths : Len(q) \in Nat /\ q \in Seq(Priorities)
  BY PathType
<1>2. p \in Prefixes(p) /\ Prefixes(p) \subseteq Paths
  BY <1>1, PrefixOf
<1>3. <<>> \in Prefixes(p)
  <2>1. PICK e : e = <<>> /\ e \in Paths /\ Len(e) = 0
    BY EmptyPath, EmptySeq
  <2>2. e \in Prefixes(p)
    BY <1>1, <2>1, PrefixOf
  <2> QED
    BY <2>1, <2>2
<1>4. ASSUME NEW q \in Prefixes(p)
      PROVE  /\ Len(q) <= Len(p) /\ Prefixes(q) \subseteq Prefixes(p)
             /\ Len(q) = Len(p) => q = p
  <2>1. q \in Paths /\ Len(q) <= Len(p) /\ \A i \in 1..Len(q) : q[i] = p[i]
    BY PrefixOf
  <2>2. ASSUME NEW r \in Prefixes(q)
        PROVE  r \in Prefixes(p)
    <3>1. r \in Paths /\ Len(r) <= Len(q) /\ \A i \in 1..Len(r) : r[i] = q[i]
      BY <2>1, PrefixOf
    <3>2. Len(r) <= Len(p) /\ \A i \in 1..Len(r) : i \in 1..Len(q)
      BY <1>1, <2>1, <3>1
    <3> QED
      BY <2>1, <3>1, <3>2, PrefixOf
  <2>3. Len(q) = Len(p) => q = p
    BY <1>1, <2>1, SeqEqual
  <2> QED
    BY <2>1, <2>2, <2>3
<1>5. ASSUME NEW q \in Prefixes(p), NEW r \in Prefixes(p), Len(r) <= Len(q)
      PROVE  r \in Prefixes(q)
  <2>1. /\ q \in Paths /\ \A i \in 1..Len(q) : q[i] = p[i]
        /\ r \in Paths /\ \A i \in 1..Len(r) : r[i] = p[i]
    BY PrefixOf
  <2>2. \A i \in 1..Len(r) : i \in 1..Len(q)
    BY <1>1, <1>5, <2>1
  <2> QED
    BY <1>5, <2>1, <2>2, PrefixOf
<1> QED
  BY <1>2, <1>3, <1>4, <1>5

LEMMA ExtendPath ==
    ASSUME NEW p \in Paths, NEW i \in Priorities, Len(p) < MaxDepth
    PROVE  LET a == Append(p, i)
           IN  /\ a \in Paths /\ Len(a) = Len(p) + 1 /\ a[Len(a)] = i
               /\ p \in Prefixes(a)
               /\ \A q \in Prefixes(a) : q = a \/ q \in Prefixes(p)
               /\ IsPrimary(a) <=> IsPrimary(p) /\ i = 0
<1> DEFINE a == Append(p, i)
<1>1. p \in Seq(Priorities) /\ Len(p) \in Nat /\ DOMAIN p = 1..Len(p)
  BY PathType
<1>2. /\ a \in Seq(Priorities) /\ Len(a) = Len(p) + 1 /\ a[Len(p) + 1] = i
      /\ \A k \in 1..Len(p) : a[k] = p[k]
  BY <1>1, AppendProperties
<1> HIDE DEF a
<1>3. a \in Paths /\ a[Len(a)] = i
  <2>1. Len(a) <= MaxDepth
    BY <1>1, <1>2, LifecycleAssumption
  <2> QED
    BY <1>2, <2>1, PathType
<1>4. p \in Prefixes(a)
  <2>1. Len(p) <= Len(a) /\ \A k \in 1..Len(p) : p[k] = a[k]
    BY <1>1, <1>2
  <2> QED
    BY <1>3, <2>1, PrefixOf
<1>5. ASSUME NEW q \in Prefixes(a), q # a
      PROVE  q \in Prefixes(p)
  <2>1. Len(q) <= Len(a) /\ Len(q) # Len(a) /\ q \in Paths
    BY <1>3, <1>5, PrefixOrder
  <2>2. Len(q) <= Len(p)
    BY <1>1, <1>2, <2>1, PathType
  <2> QED
    BY <1>3, <1>4, <2>2, PrefixOrder
<1>6. IsPrimary(a) <=> IsPrimary(p) /\ i = 0
  <2>1. DOMAIN a = 1..(Len(p) + 1)
    BY <1>2, LenProperties
  <2>2. \A k \in DOMAIN a : k \in DOMAIN p \/ k = Len(p) + 1
    BY <1>1, <2>1
  <2>3. /\ \A k \in DOMAIN p : k \in DOMAIN a /\ a[k] = p[k]
        /\ Len(p) + 1 \in DOMAIN a
    BY <1>1, <1>2, <2>1
  <2> QED
    BY <1>2, <2>2, <2>3 DEF IsPrimary
<1> QED
  BY <1>2, <1>3, <1>4, <1>5, <1>6 DEF a

(* The next paths of a job continue its own, none of them the other, and one *)
(* at most, if there are any exactly one, continues a primary path as such.  *)
LEMMA NextPathsFacts ==
    ASSUME NEW p \in Paths, NEW paths \in NextPaths(p)
    PROVE  /\ IsFiniteSet(paths) /\ paths \subseteq Paths
           /\ \A q \in paths : /\ p \in Prefixes(q)
                               /\ q = p \/ Len(q) > Len(p)
                               /\ \A r \in Prefixes(q) : r = q \/ r \in Prefixes(p)
                               /\ IsPrimary(q) => IsPrimary(p)
           /\ \A q, r \in paths : /\ Len(q) = Len(r)
                                  /\ IsPrimary(q) /\ IsPrimary(r) => q = r
           /\ IsPrimary(p) /\ paths # {} => \E q \in paths : IsPrimary(q)
<1>1. Len(p) \in Nat /\ p \in Prefixes(p)
  BY PathType, PrefixOrder
<1>2. CASE paths = {}
  BY <1>2, FS_EmptySet
<1>3. CASE paths = {p}
  BY <1>1, <1>3, FS_Singleton
<1>4. CASE Len(p) < MaxDepth /\ paths = {Append(p, i) : i \in Priorities}
  <2> DEFINE a == Append(p, 0)
             b == Append(p, 1)
  <2>1. paths = {a, b}
    BY <1>4 DEF Priorities
  <2>2. /\ a \in Paths /\ Len(a) = Len(p) + 1 /\ p \in Prefixes(a)
        /\ \A q \in Prefixes(a) : q = a \/ q \in Prefixes(p)
        /\ IsPrimary(a) <=> IsPrimary(p)
    BY <1>4, ExtendPath DEF Priorities
  <2>3. /\ b \in Paths /\ Len(b) = Len(p) + 1 /\ p \in Prefixes(b)
        /\ \A q \in Prefixes(b) : q = b \/ q \in Prefixes(p)
        /\ ~IsPrimary(b)
    BY <1>4, ExtendPath DEF Priorities
  <2> HIDE DEF a, b
  <2>4. IsFiniteSet({a, b})
    <3>1. {a, b} = {a} \cup {b}
      OBVIOUS
    <3>2. IsFiniteSet({a})
      BY FS_Singleton
    <3>3. IsFiniteSet({a} \cup {b})
      BY <3>2, FS_AddElement
    <3> QED
      BY <3>1, <3>3
  <2> QED
    BY <1>1, <2>1, <2>2, <2>3, <2>4
<1> QED
  BY <1>2, <1>3, <1>4 DEF NextPaths

LEMMA PartsOfPath ==
    ASSUME NEW p \in Paths
    PROVE  Suffixes(p) \subseteq Paths /\ SubSeqs(p) \subseteq Paths
<1>1. Len(p) \in Nat
  BY PathType
<1>2. \A l \in 1..Len(p) : SubSeq(p, l, Len(p)) \in Paths
  <2>1. \A l \in 1..Len(p) : l \in 1..(Len(p) + 1) /\ Len(p) \in 0..Len(p)
    BY <1>1
  <2> QED
    BY <2>1, SubPath
<1>3. \A i, k \in 0..Len(p) : SubSeq(p, i + 1, k) \in Paths
  <2>1. \A i \in 0..Len(p) : i + 1 \in 1..(Len(p) + 1)
    BY <1>1
  <2> QED
    BY <2>1, SubPath
<1>4. PICK e : e = <<>> /\ e \in Paths
  BY PrefixOrder
<1>5. Suffixes(p) = {SubSeq(p, l, Len(p)) : l \in 1..Len(p)} \cup {e}
  BY <1>4 DEF Suffixes
<1>6. Suffixes(p) \subseteq Paths
  BY <1>2, <1>4, <1>5
<1>7. SubSeqs(p) \subseteq Paths
  <2>1. \A s \in SubSeqs(p) : \E i, k \in 0..Len(p) : s = SubSeq(p, i + 1, k)
    BY DEF SubSeqs
  <2> QED
    BY <1>3, <2>1
<1> QED
  BY <1>6, <1>7

(* The paths that an awakening tries: some, of one length.                  *)
LEMMA AwakenedPathsFacts ==
    ASSUME NEW p \in Paths, NEW paths \in AwakenedPaths(p)
    PROVE  /\ IsFiniteSet(paths) /\ paths \subseteq Paths /\ paths # {}
           /\ \A q, r \in paths : Len(q) = Len(r)
<1>1. CASE \E q \in SubSeqs(p) : paths = {q}
  BY <1>1, PartsOfPath, FS_Singleton
<1>2. CASE \E q \in Suffixes(p) : paths \in NextPaths(q) \ {{}}
  BY <1>2, PartsOfPath, NextPathsFacts
<1> QED
  BY <1>1, <1>2 DEF AwakenedPaths

LEMMA JobFields ==
    /\ \A h, t, p : /\ JobAt(h, t, p).human = h /\ JobAt(h, t, p).time = t
                    /\ JobAt(h, t, p).path = p
    /\ \A h \in Humans, t \in Times, p \in Paths : JobAt(h, t, p) \in Job
    /\ \A j \in Job : /\ j.human \in Humans /\ j.time \in Times /\ j.path \in Paths
                      /\ j = JobAt(j.human, j.time, j.path)
BY DEF JobAt, Job

LEMMA JobsAtFacts ==
    ASSUME NEW h \in Humans, NEW t \in Times, NEW paths \in SUBSET Paths, IsFiniteSet(paths)
    PROVE  LET s == JobsAt(h, t, paths)
           IN  /\ s \in Seq(Job) /\ ToSet(s) = {JobAt(h, t, p) : p \in paths}
               /\ s = <<>> <=> paths = {}
               /\ (\A p, q \in paths : p # q => Apart(JobAt(h, t, p), JobAt(h, t, q)))
                     => AllApart(s)
<1> DEFINE list == SetToSeq(paths)
           s == [i \in DOMAIN list |-> JobAt(h, t, list[i])]
<1>1. list \in Seq(paths) /\ ToSet(list) = paths /\ IsInjective(list)
  BY SetList
<1> HIDE DEF list
<1>2. DOMAIN list = 1..Len(list) /\ Len(list) \in Nat /\ \A i \in DOMAIN list : list[i] \in paths
  BY <1>1, LenProperties
<1>3. \A i \in DOMAIN list : JobAt(h, t, list[i]) \in Job
  BY <1>2, JobFields
<1>4. s \in [1..Len(list) -> Job] /\ DOMAIN s = DOMAIN list
  BY <1>2, <1>3
<1>5. s \in Seq(Job)
  BY <1>2, <1>4, SeqDef
<1>6. \A i \in DOMAIN list : s[i] = JobAt(h, t, list[i])
  OBVIOUS
<1> HIDE DEF s
<1>7. ToSet(s) = {JobAt(h, t, p) : p \in paths}
  BY <1>1, <1>4, <1>6 DEF ToSet
<1>8. s = <<>> <=> paths = {}
  <2>1. s = <<>> => paths = {}
    BY <1>7, EmptyList
  <2>2. paths = {} => DOMAIN s = {}
    BY <1>2, <1>4
  <2>3. DOMAIN s = {} => s = <<>>
    <3>1. s # <<>> => 1 \in DOMAIN s
      BY <1>5, EmptySeq, LenProperties
    <3> QED
      BY <3>1
  <2> QED
    BY <2>1, <2>2, <2>3
<1>9. ASSUME \A p, q \in paths : p # q => Apart(JobAt(h, t, p), JobAt(h, t, q))
      PROVE  AllApart(s)
  BY <1>1, <1>2, <1>4, <1>6, <1>9 DEF AllApart, IsInjective
<1> QED
  BY <1>5, <1>7, <1>8, <1>9 DEF s, list, JobsAt

-----------------------------------------------------------------------------
(* Sets of timestamps have a least and, if bounded, a greatest one.         *)
LEMMA LeastOf ==
    ASSUME NEW T, T \subseteq Nat, T # {}
    PROVE  Min(T) \in T /\ \A i \in T : Min(T) <= i
<1> DEFINE R == StrictSubsetOrdering(Nat)
           Below == {1..i : i \in T}
<1>1. Below # {} /\ Below \subseteq FiniteSubsetsOf(Nat)
  <2>1. \A i \in T : 1..i \in SUBSET Nat /\ IsFiniteSet(1..i)
    BY FS_Interval
  <2> QED
    BY <2>1 DEF FiniteSubsetsOf
<1>2. IsWellFoundedOn(R, FiniteSubsetsOf(Nat))
  BY FS_StrictSubsetOrderingWellFounded
<1>3. \E X \in Below : \A Y \in Below : ~(<<Y, X>> \in R)
  <2> HIDE DEF R, Below
  <2> QED
    BY <1>1, <1>2, WFMin
<1>4. PICK n \in T : \A Y \in Below : ~(<<Y, 1..n>> \in R)
  BY <1>3
<1>5. ASSUME NEW i \in T, i < n
      PROVE  FALSE
  <2>1. i \in Nat /\ n \in Nat /\ n \in 1..n /\ n \notin 1..i
    BY <1>5
  <2>2. 1..i \subseteq 1..n /\ 1..i # 1..n /\ 1..n \subseteq Nat
    BY <1>5, <2>1
  <2>3. <<1..i, 1..n>> \in R
    BY <2>2 DEF StrictSubsetOrdering
  <2>4. 1..i \in Below
    BY <1>5
  <2> QED
    BY <1>4, <2>3, <2>4
<1>6. \A i \in T : n <= i
  BY <1>5
<1> QED
  BY <1>6 DEF Min

LEMMA GreatestOf ==
    ASSUME NEW T, NEW n \in Nat, T \subseteq 0..n, T # {}
    PROVE  Max(T) \in T /\ \A i \in T : i <= Max(T)
<1> DEFINE U == {n - i : i \in T}
<1>1. U \subseteq Nat /\ U # {}
  <2>1. \A i \in T : i \in Nat /\ i <= n
    OBVIOUS
  <2>2. \A i \in T : n - i \in Nat
    BY <2>1
  <2> QED
    BY <2>2
<1>2. PICK u \in U : \A i \in U : u <= i
  BY <1>1, LeastOf
<1>3. PICK m \in T : u = n - m
  OBVIOUS
<1>4. \A i \in T : n - i \in U /\ i \in Int /\ m \in Int
  BY <1>3
<1>5. \A i \in T : m >= i
  BY <1>2, <1>3, <1>4
<1>6. Max(T) \in T /\ \A i \in T : Max(T) >= i
  BY <1>3, <1>5 DEF Max
<1> QED
  BY <1>6

LEMMA LatestFacts ==
    ASSUME TypeOK, NEW h \in Humans, HasInstancesWithin(h)
    PROVE  /\ LatestWithin(h) \in hist[h] /\ LatestWithin(h) \in Times
           /\ LatestWithin(h) <= robotTime
           /\ \A u \in hist[h] : u <= robotTime => u <= LatestWithin(h)
<1> DEFINE T == {u \in hist[h] : u <= robotTime}
<1>1. hist[h] \subseteq Times /\ Times \subseteq Nat /\ robotTime \in Nat
  BY LifecycleAssumption DEF TypeOK
<1>2. T # {} /\ T \subseteq 0..robotTime
  <2>1. \A u \in hist[h] : u \in Nat
    BY <1>1
  <2>2. \A u \in T : u \in 0..robotTime
    BY <1>1, <2>1
  <2> QED
    BY <2>2 DEF HasInstancesWithin
<1>3. LatestWithin(h) = Max(T)
  BY DEF LatestWithin
<1> HIDE DEF T
<1>4. Max(T) \in T /\ \A i \in T : i <= Max(T)
  BY <1>1, <1>2, GreatestOf
<1> QED
  BY <1>1, <1>3, <1>4 DEF T

-----------------------------------------------------------------------------
(* The steps, as the proofs need them.                                      *)
StateChange(t, bodies, empty) ==
    LET fresh == {h \in bodies : \A u \in hist[h] : u < t}
        added(h) == hist[h] \cup (IF h \in fresh THEN {t} ELSE {})
    IN  /\ rcv = "idle" /\ humans' = humans \cup bodies
        /\ pending' = pending \o SetToSeq(bodies \ humans)
        /\ hist' \in [Humans -> SUBSET Times]
        /\ \A h \in Humans :
              /\ hist'[h] = IF h \in bodies THEN Purge(t, added(h)) ELSE hist[h]
              /\ blank'[h] \subseteq hist'[h]
              /\ h \in bodies => hist'[h] # {}
              /\ hist'[h] = added(h) \/ "human" \in purged'
        /\ purged' \in {purged, purged \cup {"human"}}
        /\ msgTime' = t /\ rcv' = "remove" /\ NoticeOverlap
        /\ UNCHANGED <<factory, retention, robotTime, ahead, tied, everRemoved, bpc, bbody, queueVars,
                       registryVars, workerVars, gone, keep, move, left, failure>>

StateFailure(t, bodies) ==
    \E h \in bodies :
        LET added == hist[h] \cup (IF \A u \in hist[h] : u < t THEN {t} ELSE {})
        IN  Purge(t, added) = {} /\ (InOrder => \A u \in hist[h] : u <= t)

LEMMA PurgeLeaves == \A t, S : Purge(t, S) \subseteq S
BY DEF Purge, Recent

LEMMA HumanStateSteps ==
    ASSUME TypeOK, NEW t \in Times, NEW bodies \in SUBSET Humans, NEW empty \in SUBSET bodies,
           HumanState(t, bodies, empty)
    PROVE  \/ Fail("no human instance left") /\ StateFailure(t, bodies)
           \/ StateChange(t, bodies, empty)
<1> DEFINE fresh == {h \in bodies : \A u \in hist[h] : u < t}
           With(f, S) == [h \in Humans |-> f[h] \cup (IF h \in S THEN {t} ELSE {})]
           added == With(hist, fresh)
           kept == [h \in Humans |-> IF h \in bodies THEN Purge(t, added[h]) ELSE hist[h]]
<1>1. \A h \in Humans : /\ added[h] = hist[h] \cup (IF h \in fresh THEN {t} ELSE {})
                        /\ kept[h] = IF h \in bodies THEN Purge(t, added[h]) ELSE hist[h]
                        /\ added[h] \subseteq Times
  BY DEF TypeOK
<1>2. CASE \E h \in bodies : kept[h] = {}
  <2>1. Fail("no human instance left") /\ (InOrder => \A h \in Humans : \A u \in hist[h] : u <= t)
    BY <1>2 DEF HumanState
  <2>2. PICK h \in bodies : kept[h] = {}
    BY <1>2
  <2>3. Purge(t, hist[h] \cup (IF \A u \in hist[h] : u < t THEN {t} ELSE {})) = {}
    <3>1. Purge(t, added[h]) = {}
      BY <1>1, <2>2
    <3>2. added[h] = hist[h] \cup (IF \A u \in hist[h] : u < t THEN {t} ELSE {})
      BY <1>1
    <3> QED
      BY <3>1, <3>2
  <2> QED
    BY <2>1, <2>3 DEF StateFailure
<1>3. CASE ~(\E h \in bodies : kept[h] = {})
  <2>1. /\ rcv = "idle" /\ humans' = humans \cup bodies
        /\ hist' = kept
        /\ blank' = [h \in Humans |-> With(blank, fresh \cap empty)[h] \cap kept[h]]
        /\ purged' = purged \cup (IF kept # added THEN {"human"} ELSE {})
        /\ pending' = pending \o SetToSeq(bodies \ humans)
        /\ msgTime' = t /\ rcv' = "remove" /\ NoticeOverlap
        /\ UNCHANGED <<factory, retention, robotTime, ahead, tied, everRemoved, bpc, bbody, queueVars,
                       registryVars, workerVars, gone, keep, move, left, failure>>
    BY <1>3 DEF HumanState, StateComes
  <2>2. \A h \in Humans : kept[h] \subseteq Times
    BY <1>1, PurgeLeaves DEF TypeOK
  <2>3. kept \in [Humans -> SUBSET Times]
    BY <2>2
  <2>4. kept = added \/ "human" \in purged'
    BY <2>1
  <2>5. \A h \in Humans : /\ blank'[h] \subseteq hist'[h]
                          /\ h \in bodies => hist'[h] # {}
                          /\ hist'[h] = added[h] \/ "human" \in purged'
    BY <1>3, <2>1, <2>4
  <2>6. purged' \in {purged, purged \cup {"human"}}
    BY <2>1
  <2> HIDE DEF kept
  <2>7. \A h \in Humans : hist'[h] = IF h \in bodies THEN Purge(t, added[h]) ELSE hist[h]
    BY <1>1, <2>1
  <2> HIDE DEF fresh
  <2> QED
    BY <1>1, <2>1, <2>3, <2>5, <2>6, <2>7 DEF StateChange, fresh
<1> QED
  BY <1>2, <1>3

\* What becomes of the first job drained, at a time t above its own.
Kept(j) == keep' = Append(keep, j) /\ UNCHANGED <<move, registryVars>>
Uncomputable(j, t) ==
    /\ t \in blank[j.human]
    /\ keep' = Append(keep, JobAt(j.human, t, j.path)) /\ move' = move
    /\ TryRegister(j.human, t, {j.path})
Restarted(j, t) ==
    /\ ~Reuse
    /\ keep' = keep /\ move' = move \o Restart(j.human, t, j.path)
    /\ UNCHANGED registryVars
Completed(j, t) ==
    /\ Reuse
    /\ \E p \in Suffixes(j.path) : keep' = Append(keep, JobAt(j.human, t, p))
    /\ UNCHANGED <<move, registryVars>>
Different(j, t) ==
    /\ Reuse
    /\ \E paths \in AwakenedPaths(j.path) :
          /\ keep' = keep
          /\ move' = move \o JobsAt(j.human, t, {p \in paths : Acceptable(j.human, t, p)})
          /\ TryRegister(j.human, t, paths)

Drained(j, t) ==
    /\ sleeping # <<>> /\ j = Head(sleeping) /\ j \in Job
    /\ AwakenFailure(j) = "none" /\ rcv = "awaken"
    /\ sleeping' = Tail(sleeping) /\ sleeping' \in Seq(Job)
    /\ UNCHANGED <<bodyVars, pending, waiting, workerVars, rcv, msgTime, gone, left, failure>>
    /\ \/ Kept(j)
       \/ /\ t \in Times /\ t = LatestWithin(j.human) /\ j.time < t
          /\ Uncomputable(j, t) \/ Restarted(j, t) \/ Completed(j, t) \/ Different(j, t)

AwakenFails ==
    \/ \E j \in ToSet(sleeping) : AwakenFailure(j) # "none" /\ Fail(AwakenFailure(j))
    \/ Missing /\ Fail("not in the robot history")
    \/ Fail("timestamp not in job registry")

LEMMA AwakeningSteps ==
    ASSUME Typed, NEW j \in Job, NEW t \in Times, NEW a \in Awakening(j, t),
           keep' = keep \o a.kept, move' = move \o a.moved,
           IF a.tried = {} THEN UNCHANGED registryVars ELSE TryRegister(j.human, t, a.tried)
    PROVE  Uncomputable(j, t) \/ Restarted(j, t) \/ Completed(j, t) \/ Different(j, t)
<1> DEFINE h == j.human
<1>1. /\ keep \in Seq(Job) /\ move \in Seq(Job)
      /\ h \in Humans /\ j.path \in Paths
      /\ \A p \in Paths : JobAt(h, t, p) \in Job
  BY JobFields DEF Typed
<1>2. keep \o <<>> = keep /\ move \o <<>> = move
  BY <1>1, ConcatEmptySeq
<1>3. \A x \in Job : keep \o <<x>> = Append(keep, x)
  BY <1>1, AppendIsConcat
<1>4. CASE t \in blank[h]
  <2>1. a = [kept |-> <<JobAt(h, t, j.path)>>, moved |-> <<>>, tried |-> {j.path}]
    BY <1>4 DEF Awakening
  <2>2. a.kept = <<JobAt(h, t, j.path)>> /\ a.moved = <<>> /\ a.tried = {j.path} /\ a.tried # {}
    BY <2>1
  <2>3. keep' = Append(keep, JobAt(h, t, j.path)) /\ move' = move
    BY <1>1, <1>2, <1>3, <2>2
  <2> QED
    BY <1>4, <2>2, <2>3 DEF Uncomputable
<1>5. CASE t \notin blank[h] /\ ~Reuse
  <2>1. a = [kept |-> <<>>, moved |-> Restart(h, t, j.path), tried |-> {}]
    BY <1>5 DEF Awakening
  <2>2. a.kept = <<>> /\ a.moved = Restart(h, t, j.path) /\ a.tried = {}
    BY <2>1
  <2> QED
    BY <1>2, <1>5, <2>2 DEF Restarted
<1>6. CASE t \notin blank[h] /\ Reuse
  <2>1. Awakening(j, t) =
           {[kept |-> <<JobAt(h, t, p)>>, moved |-> <<>>, tried |-> {}] : p \in Suffixes(j.path)}
           \cup
           {[kept |-> <<>>, tried |-> paths,
             moved |-> JobsAt(h, t, {p \in paths : Acceptable(h, t, p)})]
               : paths \in AwakenedPaths(j.path)}
    BY <1>6 DEF Awakening
  <2>2. CASE \E p \in Suffixes(j.path) :
                a = [kept |-> <<JobAt(h, t, p)>>, moved |-> <<>>, tried |-> {}]
    <3>1. PICK p \in Suffixes(j.path) :
                 a = [kept |-> <<JobAt(h, t, p)>>, moved |-> <<>>, tried |-> {}]
      BY <2>2
    <3>2. a.kept = <<JobAt(h, t, p)>> /\ a.moved = <<>> /\ a.tried = {}
      BY <3>1
    <3>3. p \in Paths
      BY <1>1, PartsOfPath
    <3>4. keep' = Append(keep, JobAt(h, t, p)) /\ UNCHANGED <<move, registryVars>>
      BY <1>1, <1>2, <1>3, <3>2, <3>3
    <3> QED
      BY <1>6, <3>4 DEF Completed
  <2>3. CASE \E paths \in AwakenedPaths(j.path) :
                a = [kept |-> <<>>, tried |-> paths,
                     moved |-> JobsAt(h, t, {p \in paths : Acceptable(h, t, p)})]
    <3>1. PICK paths \in AwakenedPaths(j.path) :
                a = [kept |-> <<>>, tried |-> paths,
                     moved |-> JobsAt(h, t, {p \in paths : Acceptable(h, t, p)})]
      BY <2>3
    <3>2. /\ a.kept = <<>> /\ a.tried = paths
          /\ a.moved = JobsAt(h, t, {p \in paths : Acceptable(h, t, p)})
      BY <3>1
    <3>3. paths # {}
      BY <1>1, AwakenedPathsFacts
    <3> QED
      BY <1>2, <1>6, <3>2, <3>3 DEF Different
  <2> QED
    BY <2>1, <2>2, <2>3
<1> QED
  BY <1>4, <1>5, <1>6

LEMMA AwakenSteps ==
    ASSUME Typed, Awaken
    PROVE  AwakenFails \/ Drained(Head(sleeping), LatestWithin(Head(sleeping).human))
<1> DEFINE j == Head(sleeping)
           t == LatestWithin(j.human)
<1>1. sleeping \in Seq(Job) /\ sleeping # <<>>
  BY DEF Awaken, Typed
<1>2. j \in Job /\ Tail(sleeping) \in Seq(Job) /\ j \in ToSet(sleeping)
  BY <1>1, TailList
<1>3. \/ AwakenFailure(j) # "none" /\ Fail(AwakenFailure(j))
      \/ AwakenFailure(j) = "none" /\ Drain(j, t)
      \/ Missing /\ Fail("not in the robot history")
      \/ Fail("timestamp not in job registry")
  BY Zenon DEF Awaken, AwakenMisses, Missing
<1>4. ASSUME AwakenFailure(j) = "none", Drain(j, t)
      PROVE  Drained(j, t)
  <2>1. HasInstancesWithin(j.human)
    BY <1>4 DEF AwakenFailure
  <2>2. t \in Times
    BY <1>2, <2>1, LatestFacts, JobFields DEF Typed
  <2>3. /\ sleeping' = Tail(sleeping)
        /\ UNCHANGED <<bodyVars, pending, waiting, workerVars, rcv, msgTime, gone, left, failure>>
        /\ \/ Kept(j)
           \/ /\ j.time < t
              /\ \E a \in Awakening(j, t) :
                    /\ keep' = keep \o a.kept
                    /\ move' = move \o a.moved
                    /\ IF a.tried = {} THEN UNCHANGED registryVars
                                       ELSE TryRegister(j.human, t, a.tried)
    BY <1>4 DEF Drain, Kept
  <2>4. ASSUME NEW a \in Awakening(j, t),
               keep' = keep \o a.kept, move' = move \o a.moved,
               IF a.tried = {} THEN UNCHANGED registryVars ELSE TryRegister(j.human, t, a.tried)
        PROVE  Uncomputable(j, t) \/ Restarted(j, t) \/ Completed(j, t) \/ Different(j, t)
    BY <1>2, <2>2, <2>4, AwakeningSteps
  <2>5. \/ Kept(j)
        \/ /\ j.time < t
           /\ Uncomputable(j, t) \/ Restarted(j, t) \/ Completed(j, t) \/ Different(j, t)
    BY <2>3, <2>4
  <2>6. rcv = "awaken"
    BY DEF Awaken
  <2> QED
    BY <1>1, <1>2, <1>4, <2>2, <2>3, <2>5, <2>6 DEF Drained
<1> QED
  BY <1>2, <1>3, <1>4 DEF AwakenFails

LEMMA TryRegisterFacts ==
    ASSUME Typed, NEW h \in Humans, NEW t \in Times, NEW paths \in SUBSET Paths,
           TryRegister(h, t, paths)
    PROVE  /\ entries' \subseteq Times /\ reg' \subseteq Humans \X Times \X Paths
           /\ reg \subseteq reg' /\ (~Reuse => reg' = {})
           /\ \A r \in reg' : r \in reg \/ (r[1] = h /\ r[2] = t /\ r[3] \in paths)
           /\ Reuse => reg' = reg \cup {<<h, t, p>> : p \in {q \in paths : Acceptable(h, t, q)}}
<1>1. entries \subseteq Times /\ reg \subseteq Humans \X Times \X Paths /\ (~Reuse => reg = {})
  BY DEF Typed, TypeOK
<1>2. CASE Reuse
  <2>1. /\ entries' = entries \cup {t}
        /\ reg' = reg \cup {<<h, t, p>> : p \in {q \in paths : Acceptable(h, t, q)}}
    BY <1>2 DEF TryRegister
  <2>2. \A r \in reg' : r \in reg \/ \E p \in paths : r = <<h, t, p>>
    BY <2>1
  <2>3. \A p \in paths : <<h, t, p>> \in Humans \X Times \X Paths
    OBVIOUS
  <2>4. \A p : <<h, t, p>>[1] = h /\ <<h, t, p>>[2] = t /\ <<h, t, p>>[3] = p
    OBVIOUS
  <2>5. reg' \subseteq Humans \X Times \X Paths
    BY <1>1, <2>2, <2>3
  <2>6. \A r \in reg' : r \in reg \/ (r[1] = h /\ r[2] = t /\ r[3] \in paths)
    BY <2>2, <2>4
  <2> QED
    BY <1>1, <1>2, <2>1, <2>5, <2>6
<1>3. CASE ~Reuse
  BY <1>1, <1>3 DEF TryRegister, registryVars
<1> QED
  BY <1>2, <1>3

Examined(h, t) ==
    /\ left # <<>> /\ h = Head(left) /\ h \in Humans /\ rcv = "promote"
    /\ left' = Tail(left)
    /\ UNCHANGED <<bodyVars, workerVars, rcv, msgTime, gone, keep, move, failure>>
    /\ \/ KeepPair(h)
       \/ /\ t \in Times /\ t = LatestWithin(h) /\ HasInstancesWithin(h)
          /\ Reuse => Acceptable(h, t, <<>>)
          /\ PromotePair(h, t)

PromoteFails(h, t) ==
    \/ left # <<>> /\ h = Head(left) /\ rcv = "promote" /\ h \notin humans /\ Fail("human not registered")
    \/ Missing /\ Fail("not in the robot history")
    \/ Fail("timestamp not in job registry")
    \/ left # <<>> /\ h = Head(left) /\ Reuse /\ ~Acceptable(h, t, <<>>) /\ Fail("job already registered")

LEMMA PromoteSteps ==
    ASSUME Typed, Promote
    PROVE  LET h == Head(left)
               t == LatestWithin(h)
           IN  PromoteFails(h, t) \/ Examined(h, t)
<1> DEFINE h == Head(left)
           t == LatestWithin(h)
<1>1. left \in Seq(Humans) /\ left # <<>> /\ rcv = "promote"
  BY DEF Promote, Typed
<1>2. h \in Humans
  BY <1>1, TailList
<1>3. HasInstancesWithin(h) => t \in Times
  BY <1>2, LatestFacts DEF Typed
<1>4. CASE h \notin humans
  <2>1. Fail("human not registered")
    BY <1>4, Zenon DEF Promote
  <2> QED
    BY <1>1, <1>4, <2>1 DEF PromoteFails
<1>5. CASE h \in humans
  <2> DEFINE Examine == /\ left' = Tail(left)
                        /\ UNCHANGED <<bodyVars, workerVars, rcv, msgTime, gone, keep, move, failure>>
  <2>1. \/ KeepPair(h) /\ Examine
        \/ HistoryShort /\ Fail("not in the robot history")
        \/ HasInstancesWithin(h) /\ Fail("timestamp not in job registry")
        \/ Reuse /\ ~Acceptable(h, t, <<>>) /\ Fail("job already registered")
        \/ HasInstancesWithin(h) /\ ~(Reuse /\ ~Acceptable(h, t, <<>>)) /\ PromotePair(h, t) /\ Examine
    BY <1>5, Zenon DEF Promote
  <2>2. CASE KeepPair(h) /\ Examine
    BY <1>1, <1>2, <2>2 DEF Examined
  <2>3. CASE HistoryShort /\ Fail("not in the robot history")
    BY <2>3 DEF PromoteFails, Missing
  <2>4. CASE HasInstancesWithin(h) /\ Fail("timestamp not in job registry")
    BY <2>4 DEF PromoteFails
  <2>5. CASE Reuse /\ ~Acceptable(h, t, <<>>) /\ Fail("job already registered")
    BY <1>1, <2>5 DEF PromoteFails
  <2>6. CASE HasInstancesWithin(h) /\ ~(Reuse /\ ~Acceptable(h, t, <<>>)) /\ PromotePair(h, t) /\ Examine
    BY <1>1, <1>2, <1>3, <2>6 DEF Examined
  <2> QED
    BY <2>1, <2>2, <2>3, <2>4, <2>5, <2>6
<1> QED
  BY <1>4, <1>5

-----------------------------------------------------------------------------
(* Every variable stays in its domain.                                      *)
LEMMA InitTyped == Init => Typed
<1> SUFFICES ASSUME Init PROVE Typed
  OBVIOUS
<1>1. <<>> \in Seq(Humans) /\ <<>> \in Seq(Job) /\ ToSet(<<>>) = {}
  BY EmptyList, EmptySeq
<1>2. \A w \in Workers : cur[w] = <<>> /\ todo[w] = <<>> /\ pc[w] = "idle"
  BY DEF Init
<1>3. TypeOK
  BY <1>1, <1>2 DEF Init, TypeOK, Failures
<1> QED
  BY <1>1, <1>2, <1>3 DEF Init, Typed, Spawning

LEMMA FailTyped == ASSUME Typed, NEW what \in Failures, Fail(what) PROVE Typed'
BY DEF Fail, bodyVars, queueVars, registryVars, workerVars, localVars, Typed, TypeOK, Reuse

\* The steps of the presentation callback.
Presents == (\E h \in Humans : PresentCheck(h)) \/ PresentPush \/ PresentInsert

LEMMA PresentTyped == ASSUME Typed, Presents PROVE Typed'
<1>1. CASE \E h \in Humans : PresentCheck(h)
  <2>1. PICK h \in Humans : PresentCheck(h)
    BY <1>1
  <2> QED
    BY <2>1
    DEF PresentCheck, queueVars, registryVars, workerVars, localVars, Typed, TypeOK, Reuse
<1>2. CASE PresentPush
  <2>1. pending \in Seq(Humans) /\ bbody \in Humans
    BY <1>2 DEF PresentPush, Typed, TypeOK
  <2>2. pending' = pending \/ pending' = Append(pending, bbody)
    BY <1>2 DEF PresentPush
  <2>3. pending' \in Seq(Humans)
    BY <2>1, <2>2, AppendList
  <2>4. ToSet(pending') \subseteq Humans
    BY <2>3, ListElements
  <2> QED
    BY <1>2, <2>3, <2>4
    DEF PresentPush, queueVars, registryVars, workerVars, localVars, Typed, TypeOK, Reuse
<1>3. CASE PresentInsert
  BY <1>3
  DEF PresentInsert, queueVars, registryVars, workerVars, localVars, Typed, TypeOK, Reuse
<1> QED
  BY <1>1, <1>2, <1>3 DEF Presents

LEMMA FreshPairs ==
    ASSUME NEW bodies \in SUBSET Humans
    PROVE  LET new == SetToSeq(bodies \ humans)
           IN  new \in Seq(Humans) /\ ToSet(new) = bodies \ humans /\ IsInjective(new)
<1> DEFINE S == bodies \ humans
<1>1. IsFiniteSet(S)
  BY FS_Subset, LifecycleAssumption
<1> HIDE DEF S
<1>2. SetToSeq(S) \in Seq(S) /\ ToSet(SetToSeq(S)) = S /\ IsInjective(SetToSeq(S))
  BY <1>1, SetList
<1>3. S \subseteq Humans
  BY DEF S
<1>4. SetToSeq(S) \in Seq(Humans)
  BY <1>2, <1>3, SeqMonotonic
<1> QED
  BY <1>2, <1>4 DEF S

LEMMA StateTyped ==
    ASSUME Typed, NEW t \in Times, NEW bodies \in SUBSET Humans, NEW empty \in SUBSET bodies,
           HumanState(t, bodies, empty)
    PROVE  Typed'
<1>1. CASE Fail("no human instance left")
  BY <1>1, FailTyped DEF Failures, PurgeFailures
<1>2. CASE StateChange(t, bodies, empty)
  <2>1. /\ pending \in Seq(Humans) /\ humans \subseteq Humans
        /\ \A h \in Humans : h \notin humans => hist[h] = {}
    BY DEF Typed, TypeOK
  <2> DEFINE new == SetToSeq(bodies \ humans)
  <2>2. new \in Seq(Humans)
    BY FreshPairs
  <2> HIDE DEF new
  <2>3. pending' = pending \o new
    BY <1>2 DEF StateChange, new
  <2>4. pending' \in Seq(Humans)
    BY <2>1, <2>2, <2>3, ConcatList
  <2>5. ToSet(pending') \subseteq Humans
    BY <2>4, ListElements
  <2>6. /\ hist' \in [Humans -> SUBSET Times]
        /\ \A h \in Humans : blank'[h] \subseteq hist'[h] /\ (h \notin humans' => hist'[h] = {})
    BY <1>2, <2>1 DEF StateChange
  <2>7. /\ factory' \in Factories /\ retention' \in Retentions /\ purged' \subseteq {"human", "robot"}
        /\ humans' \subseteq Humans /\ everRemoved' \subseteq Humans
        /\ robotTime' \in {0} \cup Times /\ ahead' \subseteq Times /\ msgTime' \in {0} \cup Times
        /\ rcv' = "remove" /\ failure' \in Failures /\ rcv = "idle"
        /\ tied' \in BOOLEAN /\ overlapped' \in BOOLEAN /\ bpc' = bpc /\ bbody' = bbody
    BY <1>2, <2>1 DEF StateChange, NoticeOverlap, Typed, TypeOK
  <2>8. UNCHANGED <<factory, queueVars, registryVars, workerVars, gone, keep, move, left>>
    BY <1>2 DEF StateChange
  <2>9. TypeOK'
    BY <2>4, <2>5, <2>6, <2>7, <2>8 DEF queueVars, registryVars, workerVars, Typed, TypeOK
  <2> QED
    BY <2>4, <2>7, <2>8, <2>9 DEF queueVars, registryVars, workerVars, Typed, Reuse
<1> QED
  BY <1>1, <1>2, HumanStateSteps DEF Typed

LEMMA RobotTyped ==
    ASSUME Typed, NEW t \in Times, RobotState(t) \/ RobotPurge(t)
    PROVE  Typed'
<1>1. CASE Fail("no mode trace left")
  BY <1>1, FailTyped DEF Failures, PurgeFailures
<1>2. CASE RobotState(t)
  <2>1. ahead' \subseteq Times
    BY <1>2 DEF RobotState, Typed, TypeOK
  <2> QED
    BY <1>2, <2>1
    DEF RobotState, StateComes, NoticeOverlap, queueVars, registryVars, workerVars, Typed, TypeOK, Reuse
<1>3. CASE RobotPurge(t) /\ ~Fail("no mode trace left")
  <2>1. ahead' \subseteq Times
    BY <1>3 DEF RobotPurge
  <2> QED
    BY <1>3, <2>1
    DEF RobotPurge, StateComes, NoticeOverlap, queueVars, registryVars, workerVars, Typed, TypeOK, Reuse
<1> QED
  BY <1>1, <1>2, <1>3

LEMMA RemoveFacts ==
    ASSUME TypeOK, RemoveHumans
    PROVE  /\ hist' \in [Humans -> SUBSET Times]
           /\ \A h \in Humans : /\ hist'[h] = IF h \in Unresponding THEN {} ELSE hist[h]
                                /\ blank'[h] \subseteq hist'[h]
                                /\ h \notin humans' => hist'[h] = {}
           /\ Unresponding \subseteq humans
<1>1. Unresponding \subseteq humans
  BY DEF Unresponding
<1> HIDE DEF Unresponding
<1>2. \A h \in Humans : /\ hist'[h] = IF h \in Unresponding THEN {} ELSE hist[h]
                        /\ blank'[h] = IF h \in Unresponding THEN {} ELSE blank[h]
  BY DEF RemoveHumans
<1>3. hist' = [h \in Humans |-> IF h \in Unresponding THEN {} ELSE hist[h]]
  BY DEF RemoveHumans
<1>4. hist' \in [Humans -> SUBSET Times]
  BY <1>3 DEF TypeOK
<1> QED
  BY <1>1, <1>2, <1>4 DEF TypeOK, RemoveHumans

LEMMA RemoveTyped == ASSUME Typed, RemoveHumans PROVE Typed'
<1>1. /\ hist' \in [Humans -> SUBSET Times]
      /\ \A h \in Humans : blank'[h] \subseteq hist'[h] /\ (h \notin humans' => hist'[h] = {})
      /\ Unresponding \subseteq humans
  BY RemoveFacts DEF Typed
<1> HIDE DEF Unresponding
<1>2. /\ humans' = humans \ Unresponding /\ everRemoved' = everRemoved \cup Unresponding
      /\ gone' = Unresponding /\ rcv = "remove"
      /\ UNCHANGED <<factory, retention, robotTime, ahead, tied, purged, bpc, bbody, overlapped,
                     queueVars, registryVars, workerVars, msgTime, keep, move, failure>>
  BY DEF RemoveHumans
<1>3. /\ pending' \in Seq(Humans) /\ left' \in Seq(Humans)
      /\ ToSet(pending') \subseteq Humans /\ ToSet(left') \subseteq Humans
      /\ rcv' \in {"awaken", "filter"} /\ (left' # <<>> => rcv' = "filter")
      /\ (gone' # {} => rcv' = "filter")
  <2>1. pending \in Seq(Humans) /\ left \in Seq(Humans) /\ left = <<>> /\ <<>> \in Seq(Humans)
    BY <1>2, EmptySeq DEF Typed
  <2>2. ToSet(pending) \subseteq Humans /\ ToSet(<<>>) = {}
    BY <2>1, ListElements, EmptyList
  <2>3. StartFilter
    BY DEF RemoveHumans
  <2> QED
    BY <1>2, <2>1, <2>2, <2>3 DEF StartFilter
<1>4. TypeOK'
  BY <1>1, <1>2, <1>3 DEF queueVars, registryVars, workerVars, Typed, TypeOK
<1> QED
  BY <1>2, <1>3, <1>4 DEF queueVars, registryVars, workerVars, Typed, Reuse

LEMMA FilterTyped == ASSUME Typed, Filter \/ FilterEnd PROVE Typed'
<1>1. CASE Filter
  <2>1. /\ left \in Seq(Humans) /\ pending \in Seq(Humans) /\ left # <<>>
        /\ left' = Tail(left) /\ rcv = "filter"
        /\ pending' = pending \/ pending' = Append(pending, Head(left))
    BY <1>1 DEF Filter, DropPair, KeepPair, Typed
  <2>2. Head(left) \in Humans /\ left' \in Seq(Humans)
    BY <2>1, TailList
  <2>3. pending' \in Seq(Humans)
    <3>1. \A x \in Humans : Append(pending, x) \in Seq(Humans)
      BY <2>1, AppendList
    <3> QED
      BY <2>1, <2>2, <3>1
  <2>4. ToSet(left') \subseteq Humans /\ ToSet(pending') \subseteq Humans
    BY <2>2, <2>3, ListElements
  <2>5. UNCHANGED <<bodyVars, queueVars, registryVars, workerVars, rcv, msgTime, gone, keep, move,
                    failure>>
    BY <1>1 DEF Filter, DropPair, KeepPair
  <2>6. TypeOK'
    BY <2>4, <2>5 DEF bodyVars, queueVars, registryVars, workerVars, Typed, TypeOK
  <2> QED
    BY <2>1, <2>2, <2>3, <2>5, <2>6
    DEF bodyVars, queueVars, registryVars, workerVars, Typed, Reuse
<1>2. CASE FilterEnd
  BY <1>2
  DEF FilterEnd, bodyVars, queueVars, registryVars, workerVars, localVars, Typed, TypeOK, Reuse
<1> QED
  BY <1>1, <1>2

LEMMA PurgeTyped == ASSUME Typed, PurgeSleeping \/ PurgeEnd PROVE Typed'
<1>1. CASE PurgeSleeping
  <2>1. /\ sleeping \in Seq(Job) /\ keep \in Seq(Job) /\ sleeping # <<>>
        /\ sleeping' = Tail(sleeping) /\ rcv = "purge"
        /\ keep' = keep \/ keep' = Append(keep, Head(sleeping))
    BY <1>1 DEF PurgeSleeping, Typed
  <2>2. Head(sleeping) \in Job /\ sleeping' \in Seq(Job)
    BY <2>1, TailList
  <2>3. keep' \in Seq(Job)
    <3>1. \A x \in Job : Append(keep, x) \in Seq(Job)
      BY <2>1, AppendList
    <3> QED
      BY <2>1, <2>2, <3>1
  <2>4. ToSet(sleeping') \subseteq Job /\ ToSet(keep') \subseteq Job
    BY <2>2, <2>3, ListElements
  <2>5. UNCHANGED <<bodyVars, pending, waiting, registryVars, workerVars, rcv, msgTime, gone, move,
                    left, failure>>
    BY <1>1 DEF PurgeSleeping
  <2>6. TypeOK'
    BY <2>4, <2>5 DEF bodyVars, registryVars, workerVars, Typed, TypeOK
  <2> QED
    BY <2>1, <2>2, <2>3, <2>5, <2>6 DEF bodyVars, registryVars, workerVars, Typed, Reuse
<1>2. CASE PurgeEnd
  <2>1. keep' \in Seq(Job) /\ ToSet(keep') = {}
    BY <1>2, EmptyList, EmptySeq DEF PurgeEnd
  <2>2. TypeOK'
    BY <1>2, <2>1 DEF PurgeEnd, bodyVars, registryVars, workerVars, Typed, TypeOK
  <2> QED
    BY <1>2, <2>1, <2>2 DEF PurgeEnd, bodyVars, registryVars, workerVars, Typed, Reuse
<1> QED
  BY <1>1, <1>2

-----------------------------------------------------------------------------
(* The steps of a worker, as the proofs need them.                          *)
Labels == {"idle", "check", "search", "sleep", "next", "enqueue"}
Singles == {<<>>} \cup {<<j>> : j \in Job}

\* Worker w goes on at the label given, with this job and these next jobs.
GoesOn(w, label, mine, next) ==
    /\ pc' \in [Workers -> Labels] /\ cur' \in [Workers -> Singles] /\ todo' \in [Workers -> Seq(Job)]
    /\ pc'[w] = label /\ cur'[w] = mine /\ todo'[w] = next
    /\ label = "idle" <=> mine = <<>>
    /\ label \notin Spawning => next = <<>>
    /\ label = "enqueue" => next # <<>>
    /\ \A v \in Workers : v # w => pc'[v] = pc[v] /\ cur'[v] = cur[v] /\ todo'[v] = todo[v]
    /\ UNCHANGED <<receiverVars, registryVars>>

Takes(w) ==
    /\ pc[w] = "idle" /\ waiting # <<>> /\ Head(waiting) \in Job
    /\ GoesOn(w, "check", <<Head(waiting)>>, <<>>)
    /\ waiting' = Tail(waiting) /\ waiting' \in Seq(Job) /\ UNCHANGED sleeping
Leaves(w) ==
    /\ \/ pc[w] \in Searching /\ MyJob(w).human \notin humans
       \/ pc[w] = "next" /\ todo[w] = <<>>
    /\ GoesOn(w, "idle", <<>>, <<>>) /\ UNCHANGED queueVars
Passes(w, from, to) ==
    /\ pc[w] = from /\ from \in Searching /\ to \in Searching
    /\ GoesOn(w, to, cur[w], <<>>) /\ UNCHANGED queueVars
Spawns(w) ==
    /\ pc[w] = "search"
    /\ \E paths \in NextPaths(MyJob(w).path) :
          /\ paths # {}
          /\ GoesOn(w, "next", cur[w], JobsAt(MyJob(w).human, MyJob(w).time, paths))
    /\ UNCHANGED queueVars
Sleeps(w) ==
    /\ pc[w] = "sleep" /\ GoesOn(w, "idle", <<>>, <<>>)
    /\ sleeping' = Append(sleeping, MyJob(w)) /\ sleeping' \in Seq(Job) /\ UNCHANGED waiting
Drops(w) ==
    /\ pc[w] = "next" /\ todo[w] # <<>> /\ Droppable(w, Head(todo[w]))
    /\ GoesOn(w, "next", cur[w], Tail(todo[w])) /\ UNCHANGED queueVars
Readies(w) ==
    /\ pc[w] = "next" /\ todo[w] # <<>> /\ ~Droppable(w, Head(todo[w]))
    /\ GoesOn(w, "enqueue", cur[w], todo[w]) /\ UNCHANGED queueVars
Enqueues(w) ==
    /\ pc[w] = "enqueue" /\ todo[w] # <<>> /\ GoesOn(w, "next", cur[w], Tail(todo[w]))
    /\ waiting' = Append(waiting, Head(todo[w])) /\ waiting' \in Seq(Job) /\ UNCHANGED sleeping

Moves(w) ==
    \/ Takes(w) \/ Leaves(w) \/ Passes(w, "check", "search") \/ Passes(w, "search", "sleep")
    \/ Spawns(w) \/ Sleeps(w) \/ Drops(w) \/ Readies(w) \/ Enqueues(w)

LEMMA WorkerState ==
    ASSUME Typed, NEW w \in Workers
    PROVE  /\ pc[w] \in Labels /\ todo[w] \in Seq(Job)
           /\ pc[w] = "idle" => cur[w] = <<>>
           /\ pc[w] # "idle" => MyJob(w) \in Job /\ cur[w] = <<MyJob(w)>>
           /\ pc[w] \notin Spawning => todo[w] = <<>>
<1>1. cur[w] \in Singles /\ pc[w] \in Labels /\ todo[w] \in Seq(Job)
  BY DEF Typed, TypeOK, Singles, Labels
<1>2. /\ pc[w] = "idle" <=> cur[w] = <<>>
      /\ pc[w] \notin Spawning => todo[w] = <<>>
  BY DEF Typed
<1>3. ASSUME pc[w] # "idle"
      PROVE  MyJob(w) \in Job /\ cur[w] = <<MyJob(w)>>
  <2>1. PICK j \in Job : cur[w] = <<j>>
    BY <1>1, <1>2, <1>3 DEF Singles
  <2>2. MyJob(w) = j
    BY <2>1, OneList DEF MyJob
  <2> QED
    BY <2>1, <2>2
<1> QED
  BY <1>1, <1>2, <1>3

LEMMA GoingOn ==
    ASSUME Typed, NEW w \in Workers, NEW label \in Labels, NEW mine \in Singles, NEW next \in Seq(Job),
           pc' = [pc EXCEPT ![w] = label],
           cur' = [cur EXCEPT ![w] = mine],
           todo' = [todo EXCEPT ![w] = next],
           label = "idle" <=> mine = <<>>,
           label \notin Spawning => next = <<>>,
           label = "enqueue" => next # <<>>,
           UNCHANGED <<receiverVars, registryVars>>
    PROVE  GoesOn(w, label, mine, next)
<1>1. pc \in [Workers -> Labels] /\ cur \in [Workers -> Singles] /\ todo \in [Workers -> Seq(Job)]
  BY DEF Typed, TypeOK, Labels, Singles
<1>2. pc' \in [Workers -> Labels] /\ pc'[w] = label /\ \A v \in Workers : v # w => pc'[v] = pc[v]
  BY <1>1
<1>3. cur' \in [Workers -> Singles] /\ cur'[w] = mine /\ \A v \in Workers : v # w => cur'[v] = cur[v]
  BY <1>1
<1>4. todo' \in [Workers -> Seq(Job)] /\ todo'[w] = next
      /\ \A v \in Workers : v # w => todo'[v] = todo[v]
  BY <1>1
<1> QED
  BY <1>2, <1>3, <1>4 DEF GoesOn

\* A variable that a worker leaves alone is updated with what it was.
LEMMA SameUpdate ==
    ASSUME Typed, NEW w \in Workers
    PROVE  /\ cur' = cur => cur' = [cur EXCEPT ![w] = cur[w]]
           /\ todo' = todo => todo' = [todo EXCEPT ![w] = todo[w]]
           /\ pc' = pc => pc' = [pc EXCEPT ![w] = pc[w]]
           /\ cur[w] \in Singles
BY DEF Typed, TypeOK, Singles

LEMMA WorkerSteps ==
    ASSUME Typed, NEW w \in Workers, Worker(w)
    PROVE  \/ Missing /\ Fail("not in the robot history")
           \/ Moves(w)
<1>0. /\ pc[w] \in Labels /\ todo[w] \in Seq(Job)
      /\ pc[w] = "idle" => cur[w] = <<>>
      /\ pc[w] # "idle" => MyJob(w) \in Job /\ cur[w] = <<MyJob(w)>>
      /\ pc[w] \notin Spawning => todo[w] = <<>>
  BY WorkerState
<1>a. PICK e : e = <<>> /\ e \in Singles /\ e \in Seq(Job)
  BY EmptySeq DEF Singles
<1>b. \A j \in Job : <<j>> \in Singles /\ <<j>> # <<>>
  BY OneList DEF Singles
<1>c. waiting \in Seq(Job) /\ sleeping \in Seq(Job)
  BY DEF Typed
<1>d. \A j \in Job : Append(waiting, j) \in Seq(Job) /\ Append(sleeping, j) \in Seq(Job)
  BY <1>c, AppendList
<1>e. \A s \in Seq(Job) : s # <<>> => Head(s) \in Job /\ Tail(s) \in Seq(Job)
  BY TailList
<1>1. CASE Take(w)
  <2>1. /\ pc[w] = "idle" /\ waiting # <<>> /\ waiting' = Tail(waiting) /\ UNCHANGED sleeping
        /\ pc' = [pc EXCEPT ![w] = "check"] /\ cur' = [cur EXCEPT ![w] = <<Head(waiting)>>]
        /\ todo' = todo /\ UNCHANGED <<receiverVars, registryVars>>
    BY <1>1 DEF Take, Go
  <2>2. Head(waiting) \in Job /\ waiting' \in Seq(Job)
    BY <1>c, <1>e, <2>1
  <2>3. todo[w] = <<>> /\ todo' = [todo EXCEPT ![w] = todo[w]]
    BY <1>0, <2>1, SameUpdate DEF Spawning
  <2>4. todo' = [todo EXCEPT ![w] = <<>>] /\ <<Head(waiting)>> \in Singles /\ <<>> \in Seq(Job)
        /\ <<Head(waiting)>> # <<>>
    BY <1>a, <1>b, <2>2, <2>3
  <2>5. GoesOn(w, "check", <<Head(waiting)>>, <<>>)
    BY <2>1, <2>4, GoingOn DEF Labels, Spawning
  <2> QED
    BY <2>1, <2>2, <2>5 DEF Takes, Moves
<1>2. ASSUME Leave(w), todo' = todo, pc[w] # "idle", todo[w] = <<>>,
             UNCHANGED <<receiverVars, registryVars>>
      PROVE  GoesOn(w, "idle", <<>>, <<>>)
  <2>1. pc' = [pc EXCEPT ![w] = "idle"] /\ cur' = [cur EXCEPT ![w] = <<>>]
    BY <1>2 DEF Leave, Go
  <2>2. todo' = [todo EXCEPT ![w] = <<>>] /\ <<>> \in Singles /\ <<>> \in Seq(Job)
    BY <1>2, <1>a, SameUpdate
  <2> QED
    BY <1>2, <2>1, <2>2, GoingOn DEF Labels, Spawning
<1>3. ASSUME NEW label \in Searching, Go(w, label), pc[w] \in Searching, UNCHANGED <<cur, todo>>,
             UNCHANGED <<receiverVars, registryVars>>
      PROVE  GoesOn(w, label, cur[w], <<>>)
  <2>1. pc' = [pc EXCEPT ![w] = label] /\ cur' = [cur EXCEPT ![w] = cur[w]] /\ cur[w] \in Singles
    BY <1>3, SameUpdate DEF Go
  <2>2. todo[w] = <<>> /\ cur[w] # <<>> /\ label # "idle" /\ label \in Labels /\ label \notin Spawning
    BY <1>0, <1>3, <1>b DEF Searching, Spawning, Labels
  <2>3. todo' = [todo EXCEPT ![w] = <<>>] /\ <<>> \in Seq(Job)
    BY <1>3, <1>a, <2>2, SameUpdate
  <2> QED
    BY <1>3, <2>1, <2>2, <2>3, GoingOn DEF Spawning
<1>4. CASE Check(w)
  <2>1. /\ pc[w] = "check" /\ todo' = todo /\ UNCHANGED <<receiverVars, registryVars>>
        /\ UNCHANGED queueVars
        /\ \/ Go(w, "search") /\ UNCHANGED cur
           \/ MyJob(w).human \notin humans /\ Leave(w)
    BY <1>4 DEF Check
  <2>2. todo[w] = <<>> /\ pc[w] \in Searching /\ "search" \in Searching
    BY <1>0, <2>1 DEF Spawning, Searching
  <2>3. CASE Go(w, "search") /\ UNCHANGED cur
    BY <1>3, <2>1, <2>2, <2>3 DEF Passes, Moves
  <2>4. CASE MyJob(w).human \notin humans /\ Leave(w)
    BY <1>2, <2>1, <2>2, <2>4 DEF Leaves, Moves
  <2> QED
    BY <2>1, <2>3, <2>4
<1>5. CASE Search(w)
  <2>1. /\ pc[w] = "search" /\ UNCHANGED <<receiverVars, registryVars>> /\ UNCHANGED queueVars
        /\ MyJob(w) \in Job
    BY <1>0, <1>5 DEF Search
  <2>2. todo[w] = <<>> /\ pc[w] \in Searching /\ "sleep" \in Searching /\ cur[w] # <<>>
    BY <1>0, <1>b, <2>1 DEF Spawning, Searching
  <2>3. CASE MyJob(w).human \notin humans
    <3>1. Leave(w) /\ todo' = todo
      BY <1>5, <2>3 DEF Search
    <3> QED
      BY <1>2, <2>1, <2>2, <2>3, <3>1 DEF Leaves, Moves
  <2>4. CASE MyJob(w).human \in humans
    <3> DEFINE h == MyJob(w).human
               t == MyJob(w).time
    <3>1. PICK paths \in NextPaths(MyJob(w).path) :
             /\ todo' = [todo EXCEPT ![w] = JobsAt(h, t, paths)]
             /\ Go(w, IF paths = {} THEN "sleep" ELSE "next")
             /\ UNCHANGED cur
      BY <1>5, <2>4 DEF Search
    <3>2. h \in Humans /\ t \in Times /\ MyJob(w).path \in Paths
      BY <2>1, JobFields
    <3>3. IsFiniteSet(paths) /\ paths \in SUBSET Paths
      BY <3>2, NextPathsFacts
    <3>4. /\ JobsAt(h, t, paths) \in Seq(Job)
          /\ JobsAt(h, t, paths) = <<>> <=> paths = {}
      BY <3>2, <3>3, JobsAtFacts
    <3>5. cur' = [cur EXCEPT ![w] = cur[w]] /\ cur[w] \in Singles
      BY <3>1, SameUpdate
    <3>6. CASE paths = {}
      <4>1. JobsAt(h, t, paths) = <<>>
        BY <3>4, <3>6
      <4>2. todo' = [todo EXCEPT ![w] = <<>>] /\ pc' = [pc EXCEPT ![w] = "sleep"]
        BY <3>1, <3>6, <4>1 DEF Go
      <4>3. <<>> \in Seq(Job)
        BY <1>a
      <4>4. GoesOn(w, "sleep", cur[w], <<>>)
        BY <2>1, <2>2, <3>5, <4>2, <4>3, GoingOn DEF Labels, Spawning
      <4> QED
        BY <2>1, <2>2, <4>4 DEF Passes, Moves
    <3>7. CASE paths # {}
      <4>1. pc' = [pc EXCEPT ![w] = "next"]
        BY <3>1, <3>7 DEF Go
      <4>2. GoesOn(w, "next", cur[w], JobsAt(h, t, paths))
        <5> DEFINE new == JobsAt(h, t, paths)
        <5>1. new \in Seq(Job) /\ todo' = [todo EXCEPT ![w] = new]
          BY <3>1, <3>4
        <5> HIDE DEF new
        <5>2. GoesOn(w, "next", cur[w], new)
          BY <2>1, <2>2, <3>5, <4>1, <5>1, GoingOn DEF Labels, Spawning
        <5> QED
          BY <5>2 DEF new
      <4> QED
        BY <2>1, <3>7, <4>2 DEF Spawns, Moves
    <3> QED
      BY <3>6, <3>7
  <2> QED
    BY <2>3, <2>4
<1>6. CASE SearchFails(w)
  BY <1>6 DEF SearchFails, Missing
<1>7. CASE Sleep(w)
  <2>1. /\ pc[w] = "sleep" /\ sleeping' = Append(sleeping, MyJob(w)) /\ Leave(w)
        /\ todo' = todo /\ waiting' = waiting /\ UNCHANGED <<receiverVars, registryVars>>
    BY <1>7 DEF Sleep
  <2>2. todo[w] = <<>> /\ MyJob(w) \in Job
    BY <1>0, <2>1 DEF Spawning
  <2>3. sleeping' \in Seq(Job)
    BY <1>d, <2>1, <2>2
  <2>4. GoesOn(w, "idle", <<>>, <<>>)
    BY <1>2, <2>1, <2>2
  <2> QED
    BY <2>1, <2>3, <2>4 DEF Sleeps, Moves
<1>8. CASE NextJob(w)
  <2>1. /\ pc[w] = "next" /\ todo[w] # <<>> /\ cur' = cur /\ UNCHANGED queueVars
        /\ UNCHANGED <<receiverVars, registryVars>>
        /\ \/ /\ Droppable(w, Head(todo[w]))
              /\ todo' = [todo EXCEPT ![w] = Tail(todo[w])] /\ pc' = pc
           \/ ~Droppable(w, Head(todo[w])) /\ Go(w, "enqueue") /\ todo' = todo
    BY <1>8 DEF NextJob, Droppable
  <2>2. cur' = [cur EXCEPT ![w] = cur[w]] /\ cur[w] \in Singles /\ cur[w] # <<>>
    BY <1>0, <1>b, <2>1, SameUpdate
  <2>3. Tail(todo[w]) \in Seq(Job)
    BY <1>0, <1>e, <2>1
  <2>4. CASE /\ Droppable(w, Head(todo[w]))
             /\ todo' = [todo EXCEPT ![w] = Tail(todo[w])] /\ pc' = pc
    <3>1. pc' = [pc EXCEPT ![w] = "next"]
      BY <2>1, <2>4, SameUpdate
    <3>2. GoesOn(w, "next", cur[w], Tail(todo[w]))
      <4> DEFINE rest == Tail(todo[w])
      <4> HIDE DEF rest
      <4>1. rest \in Seq(Job) /\ todo' = [todo EXCEPT ![w] = rest]
        BY <2>3, <2>4 DEF rest
      <4>2. GoesOn(w, "next", cur[w], rest)
        BY <2>1, <2>2, <3>1, <4>1, GoingOn DEF Labels, Spawning
      <4> QED
        BY <4>2 DEF rest
    <3> QED
      BY <2>1, <2>4, <3>2 DEF Drops, Moves
  <2>5. CASE ~Droppable(w, Head(todo[w])) /\ Go(w, "enqueue") /\ todo' = todo
    <3>1. pc' = [pc EXCEPT ![w] = "enqueue"] /\ todo' = [todo EXCEPT ![w] = todo[w]]
      BY <2>5, SameUpdate DEF Go
    <3>2. GoesOn(w, "enqueue", cur[w], todo[w])
      BY <1>0, <2>1, <2>2, <3>1, GoingOn DEF Labels, Spawning
    <3> QED
      BY <2>1, <2>5, <3>2 DEF Readies, Moves
  <2> QED
    BY <2>1, <2>4, <2>5
<1>9. CASE Enqueue(w)
  <2>1. /\ pc[w] = "enqueue" /\ cur' = cur /\ UNCHANGED <<receiverVars, registryVars>>
        /\ waiting' = Append(waiting, Head(todo[w])) /\ sleeping' = sleeping
        /\ todo' = [todo EXCEPT ![w] = Tail(todo[w])] /\ pc' = [pc EXCEPT ![w] = "next"]
    BY <1>9 DEF Enqueue, Go
  <2>2. cur' = [cur EXCEPT ![w] = cur[w]] /\ cur[w] \in Singles /\ cur[w] # <<>>
    BY <1>0, <1>b, <2>1, SameUpdate
  <2>3. todo[w] # <<>>
    BY <2>1 DEF Typed
  <2>4. Tail(todo[w]) \in Seq(Job) /\ waiting' \in Seq(Job)
    BY <1>0, <1>d, <1>e, <2>1, <2>3
  <2>5. GoesOn(w, "next", cur[w], Tail(todo[w]))
    <3> DEFINE rest == Tail(todo[w])
    <3> HIDE DEF rest
    <3>1. rest \in Seq(Job) /\ todo' = [todo EXCEPT ![w] = rest]
      BY <2>1, <2>4 DEF rest
    <3>2. GoesOn(w, "next", cur[w], rest)
      BY <2>1, <2>2, <3>1, GoingOn DEF Labels, Spawning
    <3> QED
      BY <3>2 DEF rest
  <2> QED
    BY <2>1, <2>3, <2>4, <2>5 DEF Enqueues, Moves
<1>10. CASE NextEnd(w)
  <2>1. /\ pc[w] = "next" /\ todo[w] = <<>> /\ Leave(w) /\ UNCHANGED queueVars
        /\ todo' = todo /\ UNCHANGED <<receiverVars, registryVars>>
    BY <1>10 DEF NextEnd
  <2>2. GoesOn(w, "idle", <<>>, <<>>)
    BY <1>2, <2>1
  <2> QED
    BY <2>1, <2>2 DEF Leaves, Moves
<1> QED
  BY <1>1, <1>4, <1>5, <1>6, <1>7, <1>8, <1>9, <1>10 DEF Worker

LEMMA WorkerTyped ==
    ASSUME Typed, NEW w \in Workers, Worker(w)
    PROVE  Typed'
<1>1. CASE Fail("not in the robot history")
  BY <1>1, FailTyped DEF Failures, PurgeFailures
<1>2. ASSUME NEW label, NEW mine, NEW next, GoesOn(w, label, mine, next),
             waiting' \in Seq(Job), sleeping' \in Seq(Job)
      PROVE  Typed'
  <2>1. \A v \in Workers : /\ pc'[v] = "idle" <=> cur'[v] = <<>>
                           /\ pc'[v] \notin Spawning => todo'[v] = <<>>
                           /\ pc'[v] = "enqueue" => todo'[v] # <<>>
    BY <1>2 DEF GoesOn, Typed
  <2>2. /\ ToSet(waiting') \subseteq Job /\ ToSet(sleeping') \subseteq Job
        /\ \A v \in Workers : ToSet(cur'[v]) \cup ToSet(todo'[v]) \subseteq Job
    <3>1. \A s \in Singles : ToSet(s) \subseteq Job
      BY EmptyList, OneList DEF Singles
    <3>2. \A s \in Seq(Job) : ToSet(s) \subseteq Job
      BY ListElements
    <3>3. \A v \in Workers : cur'[v] \in Singles /\ todo'[v] \in Seq(Job)
      BY <1>2 DEF GoesOn
    <3> QED
      BY <1>2, <3>1, <3>2, <3>3
  <2>3. UNCHANGED <<receiverVars, registryVars>> /\ pc' \in [Workers -> Labels]
        /\ cur' \in [Workers -> Singles] /\ todo' \in [Workers -> Seq(Job)]
    BY <1>2 DEF GoesOn
  <2>4. TypeOK'
    BY <2>2, <2>3 DEF receiverVars, bodyVars, registryVars, localVars, Typed, TypeOK, Labels
  <2> QED
    BY <1>2, <2>1, <2>3, <2>4
    DEF receiverVars, bodyVars, registryVars, localVars, Typed, Singles, Reuse
<1>3. CASE Moves(w)
  <2>1. waiting \in Seq(Job) /\ sleeping \in Seq(Job)
    BY DEF Typed
  <2>2. waiting' \in Seq(Job) /\ sleeping' \in Seq(Job)
    BY <1>3, <2>1
    DEF Moves, Takes, Leaves, Passes, Spawns, Sleeps, Drops, Readies, Enqueues, queueVars
  <2>3. \E label, mine, next : GoesOn(w, label, mine, next)
    BY <1>3
    DEF Moves, Takes, Leaves, Passes, Spawns, Sleeps, Drops, Readies, Enqueues
  <2> QED
    BY <1>2, <2>2, <2>3
<1> QED
  BY <1>1, <1>3, WorkerSteps

LEMMA RegistryTyped ==
    ASSUME Typed, NEW h \in Humans, NEW t \in Times, NEW paths \in SUBSET Paths,
           TryRegister(h, t, paths), UNCHANGED factory
    PROVE  /\ entries' \subseteq Times /\ reg' \subseteq Humans \X Times \X Paths
           /\ (~Reuse => reg = {}) /\ (~Reuse => reg' = {})
BY TryRegisterFacts DEF Typed

\* What draining does to the lists of the receiver and to the registry.
LEMMA DrainedLists ==
    ASSUME Typed, NEW j, NEW t, Drained(j, t)
    PROVE  /\ j.human \in Humans /\ j \in Job /\ j \in ToSet(sleeping)
           /\ keep' \in Seq(Job) /\ move' \in Seq(Job)
           /\ ToSet(sleeping) = ToSet(sleeping') \cup {j}
           /\ ToSet(keep) \subseteq ToSet(keep') /\ ToSet(move) \subseteq ToSet(move')
           /\ \A x \in ToSet(keep') \cup ToSet(move') :
                 \/ x \in ToSet(keep) \cup ToSet(move)
                 \/ x = j
                 \/ /\ x.human = j.human /\ x.time = t /\ t \in Times
                    /\ t = LatestWithin(j.human) /\ j.time < t
           /\ reg \subseteq reg'
           /\ entries' \subseteq Times /\ reg' \subseteq Humans \X Times \X Paths
           /\ \A r \in reg' : r \in reg \/ r[1] = j.human
           /\ (~Reuse => reg' = {})
<1> DEFINE h == j.human
<1>1. /\ keep \in Seq(Job) /\ move \in Seq(Job) /\ sleeping \in Seq(Job)
      /\ entries \subseteq Times /\ reg \subseteq Humans \X Times \X Paths
      /\ ~Reuse => reg = {}
  BY DEF Typed, TypeOK
<1>2. j \in Job /\ h \in Humans /\ j.path \in Paths /\ sleeping # <<>> /\ j = Head(sleeping)
      /\ sleeping' = Tail(sleeping)
  BY JobFields DEF Drained
<1>3. ToSet(sleeping) = ToSet(sleeping') \cup {j}
  BY <1>1, <1>2, TailList
<1>4. \A x \in Job : Append(keep, x) \in Seq(Job) /\ ToSet(Append(keep, x)) = ToSet(keep) \cup {x}
  BY <1>1, AppendList
<1>5. \A u \in Seq(Job) : move \o u \in Seq(Job) /\ ToSet(move \o u) = ToSet(move) \cup ToSet(u)
  BY <1>1, ConcatList
<1>6. CASE Kept(j)
  <2>1. keep' = Append(keep, j) /\ move' = move /\ entries' = entries /\ reg' = reg
    BY <1>6 DEF Kept, registryVars
  <2>2. keep' \in Seq(Job) /\ ToSet(keep') = ToSet(keep) \cup {j}
    BY <1>2, <1>4, <2>1
  <2> QED
    BY <1>1, <1>2, <1>3, <2>1, <2>2
<1>7. CASE ~Kept(j)
  <2>1. /\ t \in Times /\ t = LatestWithin(j.human) /\ j.time < t
        /\ Uncomputable(j, t) \/ Restarted(j, t) \/ Completed(j, t) \/ Different(j, t)
    BY <1>7 DEF Drained
  <2>2. \A p \in Paths : LET x == JobAt(h, t, p)
                         IN  x \in Job /\ x.human = h /\ x.time = t /\ x.path = p
    BY <1>2, <2>1, JobFields
  <2>3. CASE Uncomputable(j, t)
    <3> DEFINE x == JobAt(h, t, j.path)
    <3>1. x \in Job /\ x.human = h /\ x.time = t
      BY <1>2, <2>2
    <3>2. keep' = Append(keep, x) /\ move' = move /\ TryRegister(h, t, {j.path})
      BY <2>3 DEF Uncomputable
    <3>3. keep' \in Seq(Job) /\ ToSet(keep') = ToSet(keep) \cup {x}
      BY <1>4, <3>1, <3>2
    <3>4. /\ entries' \subseteq Times /\ reg' \subseteq Humans \X Times \X Paths
          /\ reg \subseteq reg' /\ (~Reuse => reg' = {})
          /\ \A r \in reg' : r \in reg \/ r[1] = h
      BY <1>2, <2>1, <3>2, TryRegisterFacts
    <3> QED
      BY <1>1, <1>2, <1>3, <2>1, <3>1, <3>2, <3>3, <3>4
  <2>4. CASE Restarted(j, t)
    <3>1. keep' = keep /\ move' = move \o Restart(h, t, j.path) /\ entries' = entries /\ reg' = reg
      BY <2>4 DEF Restarted, registryVars
    <3>2. <<>> \in Paths
      BY <1>2, PrefixOrder
    <3>3. PICK x : x = JobAt(h, t, <<>>) /\ x \in Job /\ x.human = h /\ x.time = t
      BY <2>2, <3>2
    <3>4. Restart(h, t, j.path) \in {<<x>>, <<>>}
      BY <3>3 DEF Restart
    <3>5. Restart(h, t, j.path) \in Seq(Job) /\ ToSet(Restart(h, t, j.path)) \subseteq {x}
      <4>1. <<x>> \in Seq(Job) /\ ToSet(<<x>>) = {x}
        BY <3>3, OneList
      <4>2. PICK e : e = <<>> /\ e \in Seq(Job) /\ ToSet(e) = {}
        BY EmptyList, EmptySeq
      <4>3. Restart(h, t, j.path) = <<x>> \/ Restart(h, t, j.path) = e
        BY <3>4, <4>2
      <4> QED
        BY <4>1, <4>2, <4>3
    <3>6. move' \in Seq(Job) /\ ToSet(move) \subseteq ToSet(move')
          /\ ToSet(move') \subseteq ToSet(move) \cup {x}
      BY <1>5, <3>1, <3>5
    <3> QED
      BY <1>1, <1>2, <1>3, <2>1, <3>1, <3>3, <3>6
  <2>5. CASE Completed(j, t)
    <3>1. PICK p \in Suffixes(j.path) : keep' = Append(keep, JobAt(h, t, p))
      BY <2>5 DEF Completed
    <3>2. p \in Paths
      BY <1>2, PartsOfPath
    <3>3. move' = move /\ entries' = entries /\ reg' = reg
      BY <2>5 DEF Completed, registryVars
    <3> DEFINE x == JobAt(h, t, p)
    <3>4. x \in Job /\ x.human = h /\ x.time = t
      BY <2>2, <3>2
    <3>5. keep' \in Seq(Job) /\ ToSet(keep') = ToSet(keep) \cup {x}
      BY <1>4, <3>1, <3>4
    <3> QED
      BY <1>1, <1>2, <1>3, <2>1, <3>3, <3>4, <3>5
  <2>6. CASE Different(j, t)
    <3>1. PICK paths \in AwakenedPaths(j.path) :
             /\ keep' = keep
             /\ move' = move \o JobsAt(h, t, {p \in paths : Acceptable(h, t, p)})
             /\ TryRegister(h, t, paths)
      BY <2>6 DEF Different
    <3>2. IsFiniteSet(paths) /\ paths \in SUBSET Paths
      BY <1>2, AwakenedPathsFacts
    <3> DEFINE some == {p \in paths : Acceptable(h, t, p)}
               new == JobsAt(h, t, some)
    <3>3. IsFiniteSet(some) /\ some \in SUBSET Paths
      BY <3>2, FS_Subset
    <3>4. new \in Seq(Job) /\ ToSet(new) = {JobAt(h, t, p) : p \in some}
      <4> HIDE DEF some
      <4> QED
        BY <1>2, <2>1, <3>3, JobsAtFacts
    <3>5. \A x \in ToSet(new) : x.human = h /\ x.time = t
      BY <2>2, <3>3, <3>4
    <3>6. move' = move \o new
      BY <3>1
    <3> HIDE DEF new
    <3>7. move' \in Seq(Job) /\ ToSet(move') = ToSet(move) \cup ToSet(new)
      BY <1>5, <3>4, <3>6
    <3>8. /\ entries' \subseteq Times /\ reg' \subseteq Humans \X Times \X Paths
          /\ reg \subseteq reg' /\ (~Reuse => reg' = {})
          /\ \A r \in reg' : r \in reg \/ r[1] = h
      BY <1>2, <2>1, <3>1, <3>2, TryRegisterFacts
    <3> QED
      BY <1>1, <1>2, <1>3, <2>1, <3>1, <3>5, <3>7, <3>8
  <2> QED
    BY <2>1, <2>3, <2>4, <2>5, <2>6
<1> QED
  BY <1>6, <1>7

LEMMA DrainedTyped ==
    ASSUME Typed, NEW j, NEW t, Drained(j, t)
    PROVE  Typed'
<1>1. /\ UNCHANGED <<bodyVars, pending, waiting, workerVars, rcv, msgTime, gone, left, failure>>
      /\ sleeping' \in Seq(Job) /\ rcv = "awaken"
  BY DEF Drained
<1>2. /\ keep' \in Seq(Job) /\ move' \in Seq(Job)
      /\ entries' \subseteq Times /\ reg' \subseteq Humans \X Times \X Paths
      /\ ~Reuse => reg' = {}
  BY DrainedLists
<1>3. ToSet(keep') \subseteq Job /\ ToSet(move') \subseteq Job /\ ToSet(sleeping') \subseteq Job
  BY <1>1, <1>2, ListElements
<1>4. TypeOK'
  BY <1>1, <1>2, <1>3 DEF bodyVars, workerVars, Typed, TypeOK
<1> QED
  BY <1>1, <1>2, <1>4 DEF bodyVars, workerVars, Typed, Reuse

LEMMA AwakenTyped == ASSUME Typed, Awaken PROVE Typed'
<1>1. CASE AwakenFails
  <2>1. \A j : AwakenFailure(j) \in Failures
    BY DEF AwakenFailure, Failures
  <2>2. \E what \in Failures : Fail(what)
    BY <1>1, <2>1 DEF AwakenFails, Failures, PurgeFailures
  <2> QED
    BY <2>2, FailTyped
<1>2. CASE Drained(Head(sleeping), LatestWithin(Head(sleeping).human))
  BY <1>2, DrainedTyped
<1> QED
  BY <1>1, <1>2, AwakenSteps

LEMMA RefillTyped == ASSUME Typed, Refill PROVE Typed'
<1>1. /\ waiting \in Seq(Job) /\ keep \in Seq(Job) /\ move \in Seq(Job) /\ pending \in Seq(Humans)
      /\ waiting' = waiting \o move /\ sleeping' = keep /\ left' = pending
      /\ keep' = <<>> /\ move' = <<>> /\ pending' = <<>> /\ rcv' = "promote" /\ rcv = "awaken"
      /\ UNCHANGED <<bodyVars, registryVars, workerVars, msgTime, gone, failure>>
  BY DEF Refill, Typed
<1>2. waiting' \in Seq(Job) /\ sleeping' \in Seq(Job) /\ left' \in Seq(Humans)
  BY <1>1, ConcatList
<1>3. keep' \in Seq(Job) /\ move' \in Seq(Job) /\ pending' \in Seq(Humans)
  BY <1>1, EmptySeq
<1>4. /\ ToSet(waiting') \subseteq Job /\ ToSet(sleeping') \subseteq Job
      /\ ToSet(keep') \subseteq Job /\ ToSet(move') \subseteq Job
      /\ ToSet(left') \subseteq Humans /\ ToSet(pending') \subseteq Humans
  BY <1>2, <1>3, ListElements
<1>5. TypeOK'
  BY <1>1, <1>4 DEF bodyVars, registryVars, workerVars, Typed, TypeOK
<1> QED
  BY <1>1, <1>2, <1>3, <1>5 DEF bodyVars, registryVars, workerVars, Typed, Reuse

\* What examining a pair does to the queues and to the registry.
LEMMA ExaminedLists ==
    ASSUME Typed, NEW h, NEW t, Examined(h, t)
    PROVE  /\ h \in Humans /\ left' \in Seq(Humans) /\ pending' \in Seq(Humans)
           /\ waiting' \in Seq(Job) /\ sleeping' \in Seq(Job)
           /\ entries' \subseteq Times /\ reg' \subseteq Humans \X Times \X Paths
           /\ reg \subseteq reg' /\ (~Reuse => reg' = {})
           /\ ToSet(left) = ToSet(left') \cup {h}
           /\ \/ KeepPair(h) /\ ToSet(pending') = ToSet(pending) \cup {h}
              \/ LET x == JobAt(h, t, <<>>)
                 IN  /\ x \in Job /\ x.human = h /\ x.time = t /\ x.path = <<>>
                     /\ t \in Times /\ t = LatestWithin(h) /\ HasInstancesWithin(h)
                     /\ Reuse => Acceptable(h, t, <<>>)
                     /\ pending' = pending
                     /\ ToSet(waiting') \cup ToSet(sleeping')
                           = ToSet(waiting) \cup ToSet(sleeping) \cup {x}
                     /\ \/ waiting' = Append(waiting, x) /\ sleeping' = sleeping
                        \/ sleeping' = Append(sleeping, x) /\ waiting' = waiting
                     /\ reg' = IF Reuse THEN reg \cup {<<h, t, <<>>>>} ELSE reg
<1>1. /\ pending \in Seq(Humans) /\ left \in Seq(Humans) /\ waiting \in Seq(Job)
      /\ sleeping \in Seq(Job)
      /\ entries \subseteq Times /\ reg \subseteq Humans \X Times \X Paths
      /\ ~Reuse => reg = {}
  BY DEF Typed, TypeOK
<1>2. h \in Humans /\ left # <<>> /\ h = Head(left) /\ left' = Tail(left)
  BY DEF Examined
<1>3. left' \in Seq(Humans) /\ ToSet(left) = ToSet(left') \cup {h}
  BY <1>1, <1>2, TailList
<1>4. CASE KeepPair(h)
  <2>1. /\ pending' = Append(pending, h) /\ waiting' = waiting /\ sleeping' = sleeping
        /\ entries' = entries /\ reg' = reg
    BY <1>4 DEF KeepPair, queueVars, registryVars
  <2>2. pending' \in Seq(Humans) /\ ToSet(pending') = ToSet(pending) \cup {h}
    BY <1>1, <1>2, <2>1, AppendList
  <2> QED
    BY <1>1, <1>2, <1>3, <1>4, <2>1, <2>2
<1>5. CASE ~KeepPair(h)
  <2>1. /\ t \in Times /\ t = LatestWithin(h) /\ HasInstancesWithin(h)
        /\ Reuse => Acceptable(h, t, <<>>)
        /\ PromotePair(h, t)
    BY <1>5 DEF Examined
  <2>2. PICK e : e = <<>> /\ e \in Paths
    BY EmptyPath
  <2>3. PICK x : x = JobAt(h, t, e)
    OBVIOUS
  <2>4. x \in Job /\ x.human = h /\ x.time = t /\ x.path = e
    BY <1>2, <2>1, <2>2, <2>3, JobFields
  <2>5. /\ TryRegister(h, t, {e}) /\ pending' = pending
        /\ \/ waiting' = Append(waiting, x) /\ sleeping' = sleeping
           \/ sleeping' = Append(sleeping, x) /\ waiting' = waiting
    BY <2>1, <2>2, <2>3 DEF PromotePair
  <2>6. /\ entries' \subseteq Times /\ reg' \subseteq Humans \X Times \X Paths
        /\ reg \subseteq reg' /\ (~Reuse => reg' = {})
        /\ Reuse => reg' = reg \cup {<<h, t, p>> : p \in {q \in {e} : Acceptable(h, t, q)}}
    BY <1>2, <2>1, <2>2, <2>5, TryRegisterFacts
  <2>7. reg' = IF Reuse THEN reg \cup {<<h, t, e>>} ELSE reg
    <3>1. CASE Reuse
      <4>1. {q \in {e} : Acceptable(h, t, q)} = {e}
        BY <2>1, <2>2, <3>1
      <4> QED
        BY <2>6, <3>1, <4>1
    <3> QED
      BY <1>1, <2>6, <3>1
  <2>8. /\ waiting' \in Seq(Job) /\ sleeping' \in Seq(Job)
        /\ ToSet(waiting') \cup ToSet(sleeping') = ToSet(waiting) \cup ToSet(sleeping) \cup {x}
    <3>1. \A s \in Seq(Job) : Append(s, x) \in Seq(Job) /\ ToSet(Append(s, x)) = ToSet(s) \cup {x}
      BY <2>4, AppendList
    <3>2. CASE waiting' = Append(waiting, x) /\ sleeping' = sleeping
      BY <1>1, <3>1, <3>2
    <3>3. CASE sleeping' = Append(sleeping, x) /\ waiting' = waiting
      BY <1>1, <3>1, <3>3
    <3> QED
      BY <2>5, <3>2, <3>3
  <2>9. LET y == JobAt(h, t, <<>>)
        IN  /\ y \in Job /\ y.human = h /\ y.time = t /\ y.path = <<>>
            /\ ToSet(waiting') \cup ToSet(sleeping') = ToSet(waiting) \cup ToSet(sleeping) \cup {y}
            /\ \/ waiting' = Append(waiting, y) /\ sleeping' = sleeping
               \/ sleeping' = Append(sleeping, y) /\ waiting' = waiting
            /\ reg' = IF Reuse THEN reg \cup {<<h, t, <<>>>>} ELSE reg
    BY <2>2, <2>3, <2>4, <2>5, <2>7, <2>8
  <2> QED
    BY <1>1, <1>2, <1>3, <2>1, <2>5, <2>6, <2>8, <2>9
<1> QED
  BY <1>4, <1>5

LEMMA PromoteTyped == ASSUME Typed, Promote PROVE Typed'
<1> DEFINE h == Head(left)
           t == LatestWithin(h)
<1>1. CASE PromoteFails(h, t)
  BY <1>1, FailTyped DEF PromoteFails, Failures, PurgeFailures
<1>2. CASE Examined(h, t)
  <2>1. /\ rcv = "promote"
        /\ UNCHANGED <<bodyVars, workerVars, rcv, msgTime, gone, keep, move, failure>>
    BY <1>2 DEF Examined
  <2>2. /\ left' \in Seq(Humans) /\ pending' \in Seq(Humans)
        /\ waiting' \in Seq(Job) /\ sleeping' \in Seq(Job)
        /\ entries' \subseteq Times /\ reg' \subseteq Humans \X Times \X Paths
        /\ ~Reuse => reg' = {}
    BY <1>2, ExaminedLists
  <2>3. /\ ToSet(waiting') \subseteq Job /\ ToSet(sleeping') \subseteq Job
        /\ ToSet(left') \subseteq Humans /\ ToSet(pending') \subseteq Humans
    BY <2>2, ListElements
  <2>4. TypeOK'
    BY <2>1, <2>2, <2>3 DEF bodyVars, workerVars, Typed, TypeOK
  <2> QED
    BY <2>1, <2>2, <2>4 DEF bodyVars, workerVars, Typed, Reuse
<1> QED
  BY <1>1, <1>2, PromoteSteps

LEMMA HandlerEndTyped == ASSUME Typed, HandlerEnd PROVE Typed'
BY DEF HandlerEnd, bodyVars, queueVars, registryVars, workerVars, Typed, TypeOK, Reuse

LEMMA StutterTyped == ASSUME Typed, UNCHANGED vars PROVE Typed'
BY DEF vars, bodyVars, queueVars, registryVars, workerVars, localVars, Typed, TypeOK, Reuse

LEMMA NextTyped == ASSUME Typed, [Next]_vars PROVE Typed'
BY PresentTyped, StateTyped, RobotTyped, RemoveTyped, FilterTyped, PurgeTyped, AwakenTyped,
   RefillTyped, PromoteTyped, HandlerEndTyped, WorkerTyped, StutterTyped
DEF Next, Receiver, Presents

-----------------------------------------------------------------------------
(* The jobs that a step adds belong to humans that had jobs.                *)
LEMMA AllJobsOf ==
    /\ \A x : x \in AllJobs <=>
          \/ x \in ToSet(waiting) \/ x \in ToSet(sleeping) \/ x \in ToSet(keep) \/ x \in ToSet(move)
          \/ \E w \in Workers : x \in ToSet(cur[w]) \/ x \in ToSet(todo[w])
    /\ \A x : x \in AllJobs' <=>
          \/ x \in ToSet(waiting') \/ x \in ToSet(sleeping') \/ x \in ToSet(keep') \/ x \in ToSet(move')
          \/ \E w \in Workers : x \in ToSet(cur'[w]) \/ x \in ToSet(todo'[w])
BY DEF AllJobs

LEMMA MovedLists ==
    ASSUME Typed, NEW w \in Workers, Moves(w)
    PROVE  /\ ToSet(waiting') \subseteq ToSet(waiting) \cup ToSet(todo[w])
           /\ ToSet(sleeping') \subseteq ToSet(sleeping) \cup ToSet(cur[w])
           /\ ToSet(cur'[w]) \subseteq ToSet(cur[w]) \cup ToSet(waiting)
           /\ \A x \in ToSet(todo'[w]) :
                 \/ x \in ToSet(todo[w])
                 \/ \E j \in ToSet(cur[w]) : x.human = j.human /\ x.time = j.time
<1>0. /\ todo[w] \in Seq(Job) /\ waiting \in Seq(Job) /\ sleeping \in Seq(Job)
      /\ pc[w] # "idle" => MyJob(w) \in Job /\ cur[w] = <<MyJob(w)>>
  BY WorkerState DEF Typed
<1>1. \A s \in Seq(Job) : s # <<>> => /\ Head(s) \in Job /\ Tail(s) \in Seq(Job)
                                      /\ ToSet(s) = ToSet(Tail(s)) \cup {Head(s)}
  BY TailList
<1>2. \A s \in Seq(Job), x \in Job : ToSet(Append(s, x)) = ToSet(s) \cup {x}
  BY AppendList
<1>3. \A x \in Job : ToSet(<<x>>) = {x}
  BY OneList
<1>4. ToSet(<<>>) = {}
  BY EmptyList
<1>5. CASE Takes(w)
  <2>1. /\ waiting # <<>> /\ waiting' = Tail(waiting) /\ sleeping' = sleeping
        /\ cur'[w] = <<Head(waiting)>> /\ todo'[w] = <<>>
    BY <1>5 DEF Takes, GoesOn
  <2>2. Head(waiting) \in Job /\ ToSet(waiting) = ToSet(waiting') \cup {Head(waiting)}
    BY <1>0, <1>1, <2>1
  <2>3. ToSet(cur'[w]) = {Head(waiting)} /\ ToSet(todo'[w]) = {}
    BY <1>3, <1>4, <2>1, <2>2
  <2> QED
    BY <2>1, <2>2, <2>3
<1>6. CASE Leaves(w)
  <2>1. waiting' = waiting /\ sleeping' = sleeping /\ cur'[w] = <<>> /\ todo'[w] = <<>>
    BY <1>6 DEF Leaves, GoesOn, queueVars
  <2> QED
    BY <1>4, <2>1
<1>7. ASSUME NEW from, NEW to, Passes(w, from, to)
      PROVE  waiting' = waiting /\ sleeping' = sleeping /\ cur'[w] = cur[w] /\ ToSet(todo'[w]) = {}
  BY <1>4, <1>7 DEF Passes, GoesOn, queueVars
<1>8. CASE Spawns(w)
  <2>1. PICK paths \in NextPaths(MyJob(w).path) :
           GoesOn(w, "next", cur[w], JobsAt(MyJob(w).human, MyJob(w).time, paths))
    BY <1>8 DEF Spawns
  <2>2. waiting' = waiting /\ sleeping' = sleeping /\ pc[w] = "search"
    BY <1>8 DEF Spawns, queueVars
  <2>3. /\ cur'[w] = cur[w] /\ todo'[w] = JobsAt(MyJob(w).human, MyJob(w).time, paths)
        /\ MyJob(w) \in Job /\ ToSet(cur[w]) = {MyJob(w)}
    BY <1>0, <1>3, <2>1, <2>2 DEF GoesOn
  <2>4. MyJob(w).human \in Humans /\ MyJob(w).time \in Times /\ MyJob(w).path \in Paths
    BY <2>3, JobFields
  <2>5. IsFiniteSet(paths) /\ paths \in SUBSET Paths
    BY <2>4, NextPathsFacts
  <2>6. ToSet(todo'[w]) = {JobAt(MyJob(w).human, MyJob(w).time, p) : p \in paths}
    BY <2>3, <2>4, <2>5, JobsAtFacts
  <2>7. \A x \in ToSet(todo'[w]) : x.human = MyJob(w).human /\ x.time = MyJob(w).time
    BY <2>6, JobFields
  <2> QED
    BY <2>2, <2>3, <2>7
<1>9. CASE Sleeps(w)
  <2>1. /\ pc[w] = "sleep" /\ waiting' = waiting /\ sleeping' = Append(sleeping, MyJob(w))
        /\ cur'[w] = <<>> /\ todo'[w] = <<>>
    BY <1>9 DEF Sleeps, GoesOn
  <2> QED
    BY <1>0, <1>2, <1>3, <1>4, <2>1
<1>10. CASE Drops(w)
  <2>1. /\ todo[w] # <<>> /\ waiting' = waiting /\ sleeping' = sleeping
        /\ cur'[w] = cur[w] /\ todo'[w] = Tail(todo[w])
    BY <1>10 DEF Drops, GoesOn, queueVars
  <2> QED
    BY <1>0, <1>1, <2>1
<1>11. CASE Readies(w)
  BY <1>11 DEF Readies, GoesOn, queueVars
<1>12. CASE Enqueues(w)
  <2>1. /\ todo[w] # <<>> /\ sleeping' = sleeping /\ waiting' = Append(waiting, Head(todo[w]))
        /\ cur'[w] = cur[w] /\ todo'[w] = Tail(todo[w])
    BY <1>12 DEF Enqueues, GoesOn
  <2>2. Head(todo[w]) \in Job /\ ToSet(todo[w]) = ToSet(todo'[w]) \cup {Head(todo[w])}
    BY <1>0, <1>1, <2>1
  <2>3. ToSet(waiting') = ToSet(waiting) \cup {Head(todo[w])}
    BY <1>0, <1>2, <2>1, <2>2
  <2> QED
    BY <2>1, <2>2, <2>3
<1> QED
  BY <1>5, <1>6, <1>7, <1>8, <1>9, <1>10, <1>11, <1>12 DEF Moves

LEMMA MovedOthers ==
    ASSUME NEW w \in Workers, Moves(w)
    PROVE  /\ \A v \in Workers : v # w => pc'[v] = pc[v] /\ cur'[v] = cur[v] /\ todo'[v] = todo[v]
           /\ UNCHANGED <<receiverVars, registryVars>>
<1>1. PICK label, mine, next : GoesOn(w, label, mine, next)
  BY DEF Moves, Takes, Leaves, Passes, Spawns, Sleeps, Drops, Readies, Enqueues
<1> QED
  BY <1>1 DEF GoesOn

\* No worker adds a job of another human or time.
LEMMA MovedJobs ==
    ASSUME Typed, NEW w \in Workers, Moves(w)
    PROVE  \A x \in AllJobs' : \E j \in AllJobs : x.human = j.human /\ x.time = j.time
<1>1. /\ ToSet(waiting') \subseteq ToSet(waiting) \cup ToSet(todo[w])
      /\ ToSet(sleeping') \subseteq ToSet(sleeping) \cup ToSet(cur[w])
      /\ ToSet(cur'[w]) \subseteq ToSet(cur[w]) \cup ToSet(waiting)
      /\ \A x \in ToSet(todo'[w]) :
            \/ x \in ToSet(todo[w])
            \/ \E j \in ToSet(cur[w]) : x.human = j.human /\ x.time = j.time
  BY MovedLists
<1>2. /\ \A v \in Workers : v # w => cur'[v] = cur[v] /\ todo'[v] = todo[v]
      /\ keep' = keep /\ move' = move
  BY MovedOthers DEF receiverVars, localVars
<1>3. \A x \in AllJobs' : \/ x \in AllJobs
                          \/ \E j \in AllJobs : x.human = j.human /\ x.time = j.time
  BY <1>1, <1>2, AllJobsOf
<1> QED
  BY <1>3

\* Draining a job moves it and adds others of its human.
LEMMA DrainedJobs ==
    ASSUME Typed, NEW j, NEW t, Drained(j, t)
    PROVE  /\ j \in AllJobs
           /\ \A x \in AllJobs' :
                 \/ x \in AllJobs
                 \/ /\ x.human = j.human /\ x.time = t /\ t \in Times
                    /\ t = LatestWithin(j.human) /\ j.time < t
<1>1. /\ j \in ToSet(sleeping) /\ ToSet(sleeping') \subseteq ToSet(sleeping)
      /\ \A x \in ToSet(keep') \cup ToSet(move') :
            \/ x \in ToSet(keep) \cup ToSet(move)
            \/ x = j
            \/ /\ x.human = j.human /\ x.time = t /\ t \in Times
               /\ t = LatestWithin(j.human) /\ j.time < t
  BY DrainedLists
<1>2. waiting' = waiting /\ cur' = cur /\ todo' = todo
  BY DEF Drained, workerVars
<1> QED
  BY <1>1, <1>2, AllJobsOf

\* Examining a pair adds no job unless it promotes it.
LEMMA ExaminedJobs ==
    ASSUME Typed, NEW h, NEW t, Examined(h, t)
    PROVE  \A x \in AllJobs' :
              \/ x \in AllJobs
              \/ /\ x.human = h /\ x.time = t /\ t \in Times /\ t = LatestWithin(h)
                 /\ HasInstancesWithin(h) /\ pending' = pending
<1>1. keep' = keep /\ move' = move /\ cur' = cur /\ todo' = todo
  BY DEF Examined, workerVars
<1>2. \A x \in ToSet(waiting') \cup ToSet(sleeping') :
              \/ x \in ToSet(waiting) \cup ToSet(sleeping)
              \/ /\ x.human = h /\ x.time = t /\ t \in Times /\ t = LatestWithin(h)
                 /\ HasInstancesWithin(h) /\ pending' = pending
  <2>1. KeepPair(h) => waiting' = waiting /\ sleeping' = sleeping
    BY DEF KeepPair, queueVars
  <2> QED
    BY <2>1, ExaminedLists
<1> QED
  BY <1>1, <1>2, AllJobsOf

-----------------------------------------------------------------------------
(* Whose the pairs, jobs and registrations are.                             *)
Pairs == ToSet(pending) \cup ToSet(left)

PairsOwned ==
    /\ Presented
    /\ ToSet(pending) \subseteq Known /\ ToSet(left) \subseteq humans \cup gone
    /\ gone \subseteq everRemoved \ humans
    /\ IsInjective(pending) /\ IsInjective(left) /\ ToSet(pending) \cap ToSet(left) = {}

LEMMA OwnersOf ==
    /\ \A h : h \in Owners <=> h \in everRemoved \/ (h \in humans /\ h \notin Pairs)
    /\ \A h : h \in Owners' <=> h \in everRemoved' \/ (h \in humans' /\ h \notin Pairs')
BY DEF Owners, Promoted, Pairs

LEMMA InitOwned == Init => Owned
<1> SUFFICES ASSUME Init PROVE Owned
  OBVIOUS
<1>1. ToSet(<<>>) = {} /\ IsInjective(<<>>)
  BY EmptyList
<1>2. ToSet(pending) = {} /\ ToSet(left) = {} /\ IsInjective(pending) /\ IsInjective(left)
      /\ gone = {} /\ humans = {} /\ reg = {} /\ bpc = "idle"
  BY <1>1 DEF Init
<1>3. AllJobs = {}
  <2>1. \A w \in Workers : cur[w] = <<>> /\ todo[w] = <<>>
    BY DEF Init
  <2>2. waiting = <<>> /\ sleeping = <<>> /\ keep = <<>> /\ move = <<>>
    BY DEF Init
  <2>3. \A x : x \notin AllJobs
    BY <1>1, <2>1, <2>2, AllJobsOf
  <2> QED
    BY <2>3
<1> QED
  BY <1>2, <1>3 DEF Owned, Presented, Known

\* A step that takes no owner away, and adds jobs and registrations of owners only.
LEMMA OwnersStay ==
    ASSUME Owned, PairsOwned', Owners \subseteq Owners',
           \A x \in AllJobs' : (\E j \in AllJobs : x.human = j.human) \/ x.human \in Owners',
           \A r \in reg' : r \in reg \/ r[1] \in Owners'
    PROVE  Owned'
BY DEF Owned, PairsOwned

LEMMA FailOwned ==
    ASSUME Owned, NEW what, Fail(what)
    PROVE  Owned'
<1>1. UNCHANGED <<humans, everRemoved, pending, left, gone, waiting, sleeping, keep, move, cur, todo,
                  reg, bpc, bbody, rcv>>
  BY DEF Fail, bodyVars, queueVars, registryVars, workerVars, localVars
<1>2. AllJobs' = AllJobs /\ Owners' = Owners /\ Known' = Known /\ (Presented' <=> Presented)
  BY <1>1 DEF AllJobs, Owners, Promoted, Known, Presented
<1> QED
  BY <1>1, <1>2 DEF Owned

\* A step of the receiver that leaves the jobs and the registry alone.
LEMMA BodyOwned ==
    ASSUME Owned, PairsOwned', Owners \subseteq Owners',
           UNCHANGED <<queueVars, registryVars, workerVars, keep, move>>
    PROVE  Owned'
<1>1. AllJobs' = AllJobs /\ reg' = reg
  BY DEF AllJobs, queueVars, registryVars, workerVars
<1> QED
  BY <1>1, OwnersStay

\* While a state message is handled the pairs are those of the humans registered.
LEMMA NonePresented ==
    ASSUME Owned, rcv # "idle"
    PROVE  bpc = "idle" /\ ToSet(pending) \subseteq humans
BY DEF Owned, Presented, Known

LEMMA PairsWithoutPresented ==
    ASSUME bpc' = "idle", ToSet(pending') \subseteq humans', ToSet(left') \subseteq humans' \cup gone',
           gone' \subseteq everRemoved' \ humans', IsInjective(pending'), IsInjective(left'),
           ToSet(pending') \cap ToSet(left') = {}
    PROVE  PairsOwned'
BY DEF PairsOwned, Presented, Known

LEMMA PresentOwned == ASSUME Typed, Owned, Presents, ~overlapped' PROVE Owned'
<1>1. /\ pending \in Seq(Humans) /\ humans \subseteq Humans
      /\ bpc # "idle" => bbody \in Humans
  BY DEF Typed, TypeOK
<1>2. CASE \E h \in Humans : PresentCheck(h)
  <2>1. PICK h \in Humans : PresentCheck(h)
    BY <1>2
  <2>2. /\ h \notin humans /\ bpc = "idle" /\ bpc' = "push" /\ bbody' = h /\ rcv = "idle"
        /\ UNCHANGED <<humans, everRemoved, pending, left, gone, rcv, queueVars, registryVars, workerVars,
                       keep, move>>
    BY <2>1 DEF PresentCheck, localVars
  <2>3. Owners' = Owners
    BY <2>2 DEF Owners, Promoted
  <2>4. PairsOwned'
    BY <2>2 DEF Owned, PairsOwned, Presented, Known
  <2> QED
    BY <2>2, <2>3, <2>4, BodyOwned
<1>3. CASE PresentPush
  <2>1. /\ bpc = "push" /\ bpc' = "insert" /\ bbody' = bbody
        /\ pending' = IF rcv \in {"filter", "promote"} THEN pending ELSE Append(pending, bbody)
        /\ UNCHANGED <<humans, everRemoved, left, gone, rcv, queueVars, registryVars, workerVars,
                       keep, move>>
    BY <1>3 DEF PresentPush, localVars
  <2>2. rcv = "idle" /\ bbody \notin humans /\ bbody \notin ToSet(pending) /\ bbody \in Humans
    BY <1>1, <2>1 DEF Owned, Presented
  <2>3. pending' = Append(pending, bbody) /\ left = <<>>
    BY <2>1, <2>2 DEF Typed
  <2>4. IsInjective(pending') /\ ToSet(pending') = ToSet(pending) \cup {bbody} /\ ToSet(left) = {}
    BY <1>1, <2>2, <2>3, AppendList, EmptyList DEF Owned
  <2>5. ToSet(pending) \subseteq humans
    BY <2>1 DEF Owned, Known
  <2>6. Presented' /\ ToSet(pending') \subseteq Known'
    BY <2>1, <2>2, <2>4, <2>5 DEF Presented, Known
  <2>7. PairsOwned'
    BY <2>1, <2>4, <2>6 DEF Owned, PairsOwned
  <2>8. \A o \in Owners : o \in Owners'
    BY <2>1, <2>2, <2>4, OwnersOf DEF Pairs
  <2> QED
    BY <2>1, <2>7, <2>8, BodyOwned
<1>4. CASE PresentInsert
  <2>1. /\ bpc = "insert" /\ bpc' = "idle" /\ humans' = humans \cup {bbody}
        /\ UNCHANGED <<everRemoved, pending, left, gone, rcv, queueVars, registryVars, workerVars,
                       keep, move>>
    BY <1>4 DEF PresentInsert, localVars
  <2>2. rcv = "idle" /\ bbody \notin humans /\ bbody \in ToSet(pending)
    BY <2>1 DEF Owned, Presented
  <2>3. gone = {} /\ left = <<>>
    BY <2>2 DEF Typed
  <2>4. ToSet(left) = {}
    BY <2>3, EmptyList
  <2>5. ToSet(pending') \subseteq humans'
    BY <2>1 DEF Owned, Known
  <2>6. PairsOwned'
    BY <2>1, <2>3, <2>4, <2>5, PairsWithoutPresented DEF Owned
  <2>7. \A o \in Owners : o \in Owners'
    BY <2>1, <2>2, OwnersOf DEF Pairs
  <2> QED
    BY <2>1, <2>6, <2>7, BodyOwned
<1> QED
  BY <1>2, <1>3, <1>4 DEF Presents

LEMMA StateOwned ==
    ASSUME Typed, Owned, NEW t \in Times, NEW bodies \in SUBSET Humans, NEW empty \in SUBSET bodies,
           HumanState(t, bodies, empty), ~overlapped'
    PROVE  Owned'
<1>1. CASE Fail("no human instance left")
  BY <1>1, FailOwned
<1>2. CASE StateChange(t, bodies, empty)
  <2> DEFINE new == SetToSeq(bodies \ humans)
  <2>1. new \in Seq(Humans) /\ ToSet(new) = bodies \ humans /\ IsInjective(new)
    BY FreshPairs
  <2> HIDE DEF new
  <2>2. /\ rcv = "idle" /\ humans' = humans \cup bodies /\ pending' = pending \o new
        /\ left' = left /\ gone' = gone /\ everRemoved' = everRemoved
        /\ bpc = "idle" /\ bpc' = "idle"
        /\ UNCHANGED <<queueVars, registryVars, workerVars, keep, move>>
    BY <1>2 DEF StateChange, NoticeOverlap, new
  <2>3. pending \in Seq(Humans) /\ left = <<>> /\ gone = {} /\ ToSet(pending) \cap ToSet(new) = {}
        /\ IsInjective(pending) /\ ToSet(pending) \subseteq humans
    BY <2>1, <2>2 DEF Typed, Owned, Known
  <2>4. ToSet(left) = {}
    BY <2>3, EmptyList
  <2>5. IsInjective(pending') /\ ToSet(pending') = ToSet(pending) \cup ToSet(new)
    BY <2>1, <2>2, <2>3, ConcatList
  <2>6. PairsOwned'
    BY <2>1, <2>2, <2>3, <2>4, <2>5, PairsWithoutPresented DEF Owned
  <2>7. \A o \in Owners : o \in Owners'
    BY <2>1, <2>2, <2>5, OwnersOf DEF Pairs
  <2> QED
    BY <2>2, <2>6, <2>7, BodyOwned
<1> QED
  BY <1>1, <1>2, HumanStateSteps DEF Typed

LEMMA RobotOwned ==
    ASSUME Owned, NEW t \in Times, RobotState(t) \/ RobotPurge(t), ~overlapped'
    PROVE  Owned'
<1>1. CASE Fail("no mode trace left")
  BY <1>1, FailOwned
<1>2. CASE ~Fail("no mode trace left")
  <2>1. UNCHANGED <<humans, everRemoved, pending, left, gone, queueVars, registryVars, workerVars,
                    keep, move>>
        /\ bpc = "idle" /\ bpc' = "idle"
    BY <1>2 DEF RobotState, RobotPurge, NoticeOverlap
  <2>2. Owners' = Owners
    BY <2>1 DEF Owners, Promoted
  <2>3. PairsOwned'
    BY <2>1, PairsWithoutPresented DEF Owned, Known
  <2> QED
    BY <2>1, <2>2, <2>3, BodyOwned
<1> QED
  BY <1>1, <1>2

LEMMA RemoveOwned == ASSUME Typed, Owned, RemoveHumans PROVE Owned'
<1>1. /\ humans' = humans \ Unresponding /\ everRemoved' = everRemoved \cup Unresponding
      /\ gone' = Unresponding /\ rcv = "remove" /\ StartFilter
      /\ UNCHANGED <<bpc, queueVars, registryVars, workerVars, keep, move>>
  BY DEF RemoveHumans
<1>0. bpc = "idle" /\ bpc' = "idle" /\ ToSet(pending) \subseteq humans
  BY <1>1, NonePresented
<1>2. Unresponding \subseteq humans
  BY DEF Unresponding
<1>3. ToSet(left) = {} /\ ToSet(<<>>) = {} /\ IsInjective(<<>>)
  <2>1. left = <<>>
    BY <1>1 DEF Typed
  <2> QED
    BY <2>1, EmptyList
<1>4. CASE Unresponding = {}
  <2>1. pending' = pending /\ left' = left
    BY <1>1, <1>4 DEF StartFilter
  <2>2. PairsOwned'
    BY <1>0, <1>1, <1>3, <1>4, <2>1, PairsWithoutPresented DEF Owned
  <2>3. \A o \in Owners : o \in Owners'
    BY <1>1, <1>4, <2>1, OwnersOf DEF Pairs
  <2> QED
    BY <1>1, <2>2, <2>3, BodyOwned
<1>5. CASE Unresponding # {}
  <2>1. pending' = <<>> /\ left' = pending
    BY <1>1, <1>5 DEF StartFilter
  <2>2. ToSet(pending') = {} /\ IsInjective(pending') /\ ToSet(left') = ToSet(pending)
        /\ IsInjective(left')
    BY <1>3, <2>1 DEF Owned
  <2>3. PairsOwned'
    BY <1>0, <1>1, <1>2, <2>2, PairsWithoutPresented DEF Owned
  <2>4. \A o \in Owners : o \in Owners'
    BY <1>1, <1>3, <2>2, OwnersOf DEF Pairs
  <2> QED
    BY <1>1, <2>3, <2>4, BodyOwned
<1> QED
  BY <1>4, <1>5

LEMMA FilterOwned == ASSUME Typed, Owned, Filter \/ FilterEnd PROVE Owned'
<1>1. CASE Filter
  <2>1. /\ left \in Seq(Humans) /\ pending \in Seq(Humans) /\ left # <<>>
        /\ left' = Tail(left) /\ IsInjective(left) /\ IsInjective(pending)
        /\ IF Head(left) \in gone THEN pending' = pending ELSE pending' = Append(pending, Head(left))
        /\ rcv = "filter"
        /\ UNCHANGED <<bodyVars, gone, queueVars, registryVars, workerVars, keep, move>>
    BY <1>1 DEF Filter, DropPair, KeepPair, Typed, Owned
  <2>2. /\ Head(left) \in Humans /\ ToSet(left) = ToSet(left') \cup {Head(left)}
        /\ IsInjective(left') /\ Head(left) \notin ToSet(left')
    BY <2>1, TailList
  <2>3. Head(left) \notin ToSet(pending)
    BY <2>2 DEF Owned
  <2>4. /\ IsInjective(pending')
        /\ ToSet(pending') = ToSet(pending) \cup (IF Head(left) \in gone THEN {} ELSE {Head(left)})
    <3>1. \A x \in Humans : /\ ToSet(Append(pending, x)) = ToSet(pending) \cup {x}
                            /\ x \notin ToSet(pending) => IsInjective(Append(pending, x))
      BY <2>1, AppendList
    <3> QED
      BY <2>1, <2>2, <2>3, <3>1
  <2>5. UNCHANGED <<humans, everRemoved, bpc>>
    BY <2>1 DEF bodyVars
  <2>6. PairsOwned'
    BY <2>1, <2>2, <2>3, <2>4, <2>5, NonePresented, PairsWithoutPresented DEF Owned
  <2>7. \A o \in Owners : o \in Owners'
    BY <2>2, <2>4, <2>5, OwnersOf DEF Pairs, Owned
  <2> QED
    BY <2>1, <2>6, <2>7, BodyOwned
<1>2. CASE FilterEnd
  <2>1. UNCHANGED <<humans, everRemoved, pending, left, gone, queueVars, registryVars, workerVars,
                    keep, move, bpc>>
        /\ rcv = "filter"
    BY <1>2 DEF FilterEnd, bodyVars, localVars
  <2>2. Owners' = Owners
    BY <2>1 DEF Owners, Promoted
  <2>3. PairsOwned'
    BY <2>1, NonePresented, PairsWithoutPresented DEF Owned
  <2> QED
    BY <2>1, <2>2, <2>3, BodyOwned
<1> QED
  BY <1>1, <1>2

\* A step that leaves the humans and the pairs alone, and adds jobs and
\* registrations of the humans that have jobs.
LEMMA QueuesOwned ==
    ASSUME Owned, UNCHANGED <<humans, everRemoved, pending, left, bpc, bbody>>, gone' \subseteq gone,
           rcv # "idle" \/ rcv' = rcv,
           ToSet(left) \subseteq humans \cup gone',
           \A x \in AllJobs' : (\E j \in AllJobs : x.human = j.human) \/ x.human \in Owners,
           \A r \in reg' : r \in reg \/ r[1] \in Owners
    PROVE  Owned'
<1>1. Owners' = Owners
  BY DEF Owners, Promoted
<1>2. Known' = Known /\ Presented'
  BY DEF Known, Presented, Owned
<1>3. PairsOwned'
  BY <1>2 DEF Owned, PairsOwned
<1> QED
  BY <1>1, <1>3, OwnersStay

LEMMA PurgeOwned == ASSUME Typed, Owned, PurgeSleeping \/ PurgeEnd PROVE Owned'
<1>1. CASE PurgeSleeping
  <2>1. /\ sleeping \in Seq(Job) /\ keep \in Seq(Job) /\ sleeping # <<>>
        /\ sleeping' = Tail(sleeping)
        /\ keep' = keep \/ keep' = Append(keep, Head(sleeping))
        /\ UNCHANGED <<humans, everRemoved, pending, left, bpc, bbody, rcv, gone, waiting, move, cur,
                       todo, reg>>
    BY <1>1 DEF PurgeSleeping, bodyVars, registryVars, workerVars, Typed
  <2>2. Head(sleeping) \in Job /\ ToSet(sleeping) = ToSet(sleeping') \cup {Head(sleeping)}
    BY <2>1, TailList
  <2>3. ToSet(keep') \subseteq ToSet(keep) \cup {Head(sleeping)}
    <3>1. \A x \in Job : ToSet(Append(keep, x)) = ToSet(keep) \cup {x}
      BY <2>1, AppendList
    <3> QED
      BY <2>1, <2>2, <3>1
  <2>4. \A x \in AllJobs' : x \in AllJobs
    BY <2>1, <2>2, <2>3, AllJobsOf
  <2> QED
    BY <2>1, <2>4, QueuesOwned DEF Owned
<1>2. CASE PurgeEnd
  <2>1. /\ sleeping' = keep /\ keep' = <<>> /\ gone' = {} /\ rcv = "purge"
        /\ UNCHANGED <<humans, everRemoved, pending, left, bpc, bbody, waiting, move, cur, todo, reg>>
    BY <1>2 DEF PurgeEnd, bodyVars, registryVars, workerVars
  <2>2. ToSet(keep') = {} /\ ToSet(left) = {}
    <3>1. left = <<>>
      BY <2>1 DEF Typed
    <3> QED
      BY <2>1, <3>1, EmptyList
  <2>3. \A x \in AllJobs' : x \in AllJobs
    BY <2>1, <2>2, AllJobsOf
  <2> QED
    BY <2>1, <2>2, <2>3, QueuesOwned
<1> QED
  BY <1>1, <1>2

LEMMA AwakenOwned == ASSUME Typed, Owned, Awaken PROVE Owned'
<1> DEFINE j == Head(sleeping)
           t == LatestWithin(j.human)
<1>1. CASE AwakenFails
  BY <1>1, FailOwned DEF AwakenFails
<1>2. CASE Drained(j, t)
  <2> HIDE DEF j, t
  <2>1. UNCHANGED <<humans, everRemoved, pending, left, gone, bpc, bbody, rcv>>
    BY <1>2 DEF Drained, bodyVars
  <2>2. j \in AllJobs /\ \A x \in AllJobs' : x \in AllJobs \/ x.human = j.human
    BY <1>2, DrainedJobs
  <2>3. \A r \in reg' : r \in reg \/ r[1] = j.human
    BY <1>2, DrainedLists
  <2> QED
    BY <2>1, <2>2, <2>3, QueuesOwned DEF Owned
<1> QED
  BY <1>1, <1>2, AwakenSteps

LEMMA RefillOwned == ASSUME Typed, Owned, Refill PROVE Owned'
<1>1. /\ waiting \in Seq(Job) /\ keep \in Seq(Job) /\ move \in Seq(Job)
      /\ waiting' = waiting \o move /\ sleeping' = keep /\ left' = pending
      /\ keep' = <<>> /\ move' = <<>> /\ pending' = <<>> /\ rcv = "awaken"
      /\ UNCHANGED <<humans, everRemoved, cur, todo, reg, gone, bpc>>
  BY DEF Refill, bodyVars, registryVars, workerVars, Typed
<1>2. left = <<>> /\ gone = {}
  BY <1>1 DEF Typed
<1>3. /\ ToSet(left) = {} /\ ToSet(left') = ToSet(pending) /\ ToSet(pending') = {}
      /\ ToSet(keep') = {} /\ ToSet(move') = {} /\ ToSet(sleeping') = ToSet(keep)
      /\ ToSet(waiting') = ToSet(waiting) \cup ToSet(move)
      /\ IsInjective(pending') /\ IsInjective(pending) /\ IsInjective(left')
  BY <1>1, <1>2, EmptyList, ConcatList DEF Owned
<1>4. PairsOwned'
  BY <1>1, <1>2, <1>3, NonePresented, PairsWithoutPresented DEF Owned
<1>5. \A o \in Owners : o \in Owners'
  BY <1>1, <1>3, OwnersOf DEF Pairs
<1>6. \A x \in AllJobs' : x \in AllJobs
  BY <1>1, <1>3, AllJobsOf
<1> QED
  BY <1>1, <1>4, <1>5, <1>6, OwnersStay

LEMMA ExaminedOwned ==
    ASSUME Typed, Owned, NEW h, NEW t, Examined(h, t)
    PROVE  Owned'
<1>1. /\ left \in Seq(Humans) /\ pending \in Seq(Humans) /\ left # <<>> /\ h = Head(left)
      /\ left' = Tail(left) /\ rcv = "promote"
      /\ UNCHANGED <<humans, everRemoved, gone, bpc>>
  BY DEF Examined, bodyVars, Typed
<1>2. gone = {} /\ ToSet(left) \subseteq humans
  BY <1>1 DEF Typed, Owned
<1>3. /\ h \in Humans /\ ToSet(left) = ToSet(left') \cup {h}
      /\ IsInjective(left') /\ h \notin ToSet(left')
  BY <1>1, TailList DEF Owned
<1>4. h \notin ToSet(pending) /\ h \in humans
  BY <1>2, <1>3 DEF Owned
<1>5. CASE KeepPair(h)
  <2>1. pending' = Append(pending, h) /\ UNCHANGED <<queueVars, registryVars>>
    BY <1>5 DEF KeepPair
  <2>2. ToSet(pending') = ToSet(pending) \cup {h} /\ IsInjective(pending')
    BY <1>1, <1>3, <1>4, <2>1, AppendList DEF Owned
  <2>3. PairsOwned'
    BY <1>1, <1>2, <1>3, <1>4, <2>2, NonePresented, PairsWithoutPresented DEF Owned
  <2>4. \A o \in Owners : o \in Owners'
    BY <1>1, <1>3, <2>2, OwnersOf DEF Pairs
  <2>5. UNCHANGED <<workerVars, keep, move>>
    BY DEF Examined
  <2> QED
    BY <2>1, <2>3, <2>4, <2>5, BodyOwned
<1>6. CASE ~KeepPair(h)
  <2>1. pending' = pending /\ reg' = IF Reuse THEN reg \cup {<<h, t, <<>>>>} ELSE reg
    BY <1>6, ExaminedLists
  <2>2. PairsOwned'
    BY <1>1, <1>2, <1>3, <2>1, NonePresented, PairsWithoutPresented DEF Owned
  <2>3. \A o \in Owners : o \in Owners'
    BY <1>1, <1>3, <2>1, OwnersOf DEF Pairs
  <2>4. h \in Owners'
    BY <1>1, <1>3, <1>4, <2>1, OwnersOf DEF Pairs
  <2>5. \A x \in AllJobs' : x \in AllJobs \/ x.human = h
    BY ExaminedJobs
  <2>6. \A r \in reg' : r \in reg \/ r[1] = h
    BY <2>1
  <2> QED
    BY <2>2, <2>3, <2>4, <2>5, <2>6, OwnersStay
<1> QED
  BY <1>5, <1>6

LEMMA PromoteOwned == ASSUME Typed, Owned, Promote PROVE Owned'
<1> DEFINE h == Head(left)
           t == LatestWithin(h)
<1>1. CASE PromoteFails(h, t)
  BY <1>1, FailOwned DEF PromoteFails
<1>2. CASE Examined(h, t)
  BY <1>2, ExaminedOwned
<1> QED
  BY <1>1, <1>2, PromoteSteps

LEMMA WorkerOwned == ASSUME Typed, Owned, NEW w \in Workers, Worker(w) PROVE Owned'
<1>1. CASE Fail("not in the robot history")
  BY <1>1, FailOwned
<1>2. CASE Moves(w)
  <2>1. UNCHANGED <<humans, everRemoved, pending, left, gone, reg, bpc, bbody, rcv>>
    BY <1>2, MovedOthers DEF receiverVars, bodyVars, registryVars, localVars
  <2>2. \A x \in AllJobs' : \E j \in AllJobs : x.human = j.human
    BY <1>2, MovedJobs
  <2> QED
    BY <2>1, <2>2, QueuesOwned DEF Owned
<1> QED
  BY <1>1, <1>2, WorkerSteps

LEMMA StutterOwned == ASSUME Owned, HandlerEnd \/ UNCHANGED vars PROVE Owned'
<1>1. /\ UNCHANGED <<humans, everRemoved, pending, left, gone, queueVars, registryVars, workerVars, keep,
                     move, bpc, bbody>>
      /\ rcv # "idle" \/ rcv' = rcv
  BY DEF HandlerEnd, vars, bodyVars, localVars
<1>2. Owners' = Owners
  BY <1>1 DEF Owners, Promoted
<1>3. Known' = Known /\ Presented'
  BY <1>1 DEF Known, Presented, Owned
<1>4. PairsOwned'
  BY <1>1, <1>3 DEF Owned, PairsOwned
<1> QED
  BY <1>1, <1>2, <1>4, BodyOwned

LEMMA NextOwned == ASSUME Typed, Owned, [Next]_vars, ~overlapped' PROVE Owned'
BY PresentOwned, StateOwned, RobotOwned, RemoveOwned, FilterOwned, PurgeOwned, AwakenOwned,
   RefillOwned, PromoteOwned, WorkerOwned, StutterOwned
DEF Next, Receiver, Presents

-----------------------------------------------------------------------------
(* The instances that jobs rely on.                                         *)
LEMMA MinusFacts ==
    /\ \A a, b \in Nat : Minus(a, b) \in Nat
    /\ \A a, b \in Nat : b <= a => Minus(a, b) <= a - b
<1>1. \A x \in Int : x % 65536 \in Nat
  OBVIOUS
<1>2. \A x \in Nat : x % 65536 <= x
  OBVIOUS
<1>3. \A a, b \in Nat : a - b \in Int /\ (b <= a => a - b \in Nat)
  OBVIOUS
<1> QED
  BY <1>1, <1>2, <1>3 DEF Minus, Modulus

LEMMA TimesAndRetention ==
    ASSUME TypeOK
    PROVE  Times \subseteq Nat /\ retention \in Nat /\ robotTime \in Nat /\ Period \in Nat
BY LifecycleAssumption DEF TypeOK

\* A purge empties a history only if the message is older than the retention
\* and than an instance.
LEMMA StateFails ==
    ASSUME Typed, NEW t \in Times, NEW bodies \in SUBSET Humans, StateFailure(t, bodies)
    PROVE  ~InOrder /\ \E u \in Times : u < retention
<1>0. Times \subseteq Nat /\ retention \in Nat /\ Period \in Nat
  BY TimesAndRetention DEF Typed
<1>1. PICK h \in bodies :
         LET added == hist[h] \cup (IF \A u \in hist[h] : u < t THEN {t} ELSE {})
         IN  Purge(t, added) = {} /\ (InOrder => \A u \in hist[h] : u <= t)
  BY DEF StateFailure
<1> DEFINE added == hist[h] \cup (IF \A u \in hist[h] : u < t THEN {t} ELSE {})
<1>2. hist[h] \subseteq Times /\ t \in Nat /\ InOrder \in BOOLEAN
  BY <1>0, LifecycleAssumption DEF Typed, TypeOK
<1>3. PICK top \in added : top >= t
  <2>1. CASE \A u \in hist[h] : u < t
    <3>1. t \in added /\ t >= t
      BY <1>2, <2>1
    <3> QED
      BY <3>1
  <2>2. CASE ~(\A u \in hist[h] : u < t)
    <3>1. PICK u \in hist[h] : ~(u < t)
      BY <2>2
    <3>2. u \in added
      OBVIOUS
    <3>3. u \in Nat
      BY <1>0, <1>2
    <3>4. u >= t
      BY <1>2, <3>1, <3>3
    <3> QED
      BY <3>2, <3>4
  <2> QED
    BY <2>1, <2>2
<1>4. added \subseteq Nat /\ added # {} /\ Purge(t, added) = {} /\ top \in Nat
  BY <1>0, <1>1, <1>2, <1>3
<1>5. InOrder => top = t
  <2>1. ASSUME InOrder, NEW u \in added PROVE u <= t
    <3>1. u \in hist[h] \/ u = t
      OBVIOUS
    <3> QED
      BY <1>1, <1>2, <2>1, <3>1
  <2>2. InOrder => top <= t
    BY <1>3, <2>1
  <2> QED
    BY <1>2, <1>3, <1>4, <2>2
<1> HIDE DEF added
<1>6. ToPurge(t, Min(added)) /\ top < Minus(t, retention)
  <2>1. ToPurge(t, Min(added)) /\ Recent(t, added) = {}
    BY <1>4 DEF Purge
  <2>2. ~(top >= Minus(t, retention)) /\ Minus(t, retention) \in Nat
    BY <1>0, <1>2, <1>3, <2>1, MinusFacts DEF Recent
  <2> QED
    BY <1>4, <2>1, <2>2
<1>7. t < retention
  <2>1. SUFFICES ASSUME retention <= t PROVE FALSE
    BY <1>0, <1>2
  <2>2. Minus(t, retention) <= t - retention /\ Minus(t, retention) \in Nat
    BY <1>0, <1>2, <2>1, MinusFacts
  <2> QED
    BY <1>0, <1>2, <1>3, <1>4, <1>6, <2>2
<1>8. ~InOrder
  <2>1. SUFFICES ASSUME InOrder PROVE FALSE
    BY <1>2
  <2>2. t \in added
    BY <1>3, <1>5, <2>1
  <2>3. Min(added) \in Nat /\ Min(added) <= t
    BY <1>4, <2>2, LeastOf
  <2>4. Minus(t, Min(added)) <= t - Min(added) /\ Minus(t, Min(added)) \in Nat
    BY <1>2, <2>3, MinusFacts
  <2>5. Minus(t, Min(added)) > retention + Period
    BY <1>6 DEF ToPurge
  <2> QED
    BY <1>0, <1>2, <1>7, <2>3, <2>4, <2>5
<1> QED
  BY <1>7, <1>8

\* The job has its instance, or one after it.
Instanced(j) ==
    /\ j.time <= robotTime /\ hist[j.human] # {}
    /\ j.time \in hist[j.human] \/ ("human" \in purged /\ \A u \in hist[j.human] : j.time < u)

LEMMA TimelyParts ==
    Timely <=> (everRemoved = {} => (\A j \in AllJobs : Instanced(j)) /\ SafeFailure(failure))
BY DEF Timely, Instanced

LEMMA JobsTyped == ASSUME Typed, NEW j \in AllJobs PROVE j \in Job
<1>1. /\ ToSet(waiting) \cup ToSet(sleeping) \cup ToSet(keep) \cup ToSet(move) \subseteq Job
      /\ \A w \in Workers : ToSet(cur[w]) \cup ToSet(todo[w]) \subseteq Job
  BY DEF Typed, TypeOK
<1> QED
  BY <1>1, AllJobsOf

LEMMA InitTimely == Init => Timely
<1> SUFFICES ASSUME Init PROVE Timely
  OBVIOUS
<1>1. \A x : x \notin AllJobs
  <2>1. \A w \in Workers : cur[w] = <<>> /\ todo[w] = <<>>
    BY DEF Init
  <2>2. waiting = <<>> /\ sleeping = <<>> /\ keep = <<>> /\ move = <<>>
    BY DEF Init
  <2> QED
    BY <2>1, <2>2, AllJobsOf, EmptyList
<1>2. SafeFailure(failure)
  BY DEF Init, SafeFailure
<1> QED
  BY <1>1, <1>2, TimelyParts

LEMMA FailTimely ==
    ASSUME Timely, NEW what, Fail(what), everRemoved = {} => SafeFailure(what)
    PROVE  Timely'
<1>1. /\ failure' = what
      /\ UNCHANGED <<everRemoved, hist, robotTime, purged, retention, waiting, sleeping, keep, move,
                     cur, todo, tied, factory>>
  BY DEF Fail, bodyVars, queueVars, workerVars, localVars
<1>2. AllJobs' = AllJobs /\ \A j : Instanced(j)' <=> Instanced(j)
  BY <1>1 DEF AllJobs, Instanced
<1>3. SafeFailure(what) => SafeFailure(failure)'
  BY <1>1 DEF SafeFailure, Missing, HistoryShort
<1> QED
  BY <1>1, <1>2, <1>3, TimelyParts DEF Timely, Instanced

\* A step that does not fail and leaves the instances of jobs in place.
LEMMA StaysTimely ==
    ASSUME Timely, UNCHANGED <<failure, retention, factory>>, purged \subseteq purged', tied => tied',
           everRemoved \subseteq everRemoved',
           everRemoved' = {} => \A j \in AllJobs' :
              \/ Instanced(j)'
              \/ /\ \E i \in AllJobs : i.human = j.human /\ i.time = j.time
                 /\ UNCHANGED <<robotTime, hist>>
    PROVE  Timely'
<1> SUFFICES ASSUME everRemoved' = {} PROVE (\A j \in AllJobs' : Instanced(j)') /\ SafeFailure(failure)'
  BY DEF Timely, Instanced
<1>1. (\A j \in AllJobs : Instanced(j)) /\ SafeFailure(failure)
  BY TimelyParts
<1>2. SafeFailure(failure)'
  BY <1>1 DEF SafeFailure, Missing, HistoryShort
<1>3. ASSUME NEW j \in AllJobs', NEW i \in AllJobs, i.human = j.human, i.time = j.time,
             UNCHANGED <<robotTime, hist>>
      PROVE  Instanced(j)'
  BY <1>1, <1>3 DEF Instanced
<1> QED
  BY <1>2, <1>3

\* One that leaves the bodies alone, too.
LEMMA QuietTimely ==
    ASSUME Timely, UNCHANGED <<failure, bodyVars>>,
           \A j \in AllJobs' : \E i \in AllJobs : i.human = j.human /\ i.time = j.time
    PROVE  Timely'
<1>1. UNCHANGED <<failure, retention, factory, tied, purged, everRemoved, robotTime, hist>>
  BY DEF bodyVars
<1> QED
  BY <1>1, StaysTimely

LEMMA SameJobs ==
    ASSUME UNCHANGED <<queueVars, workerVars, keep, move>>
    PROVE  AllJobs' = AllJobs
BY DEF AllJobs, queueVars, workerVars

LEMMA StateTimely ==
    ASSUME Typed, Timely, NEW t \in Times, NEW bodies \in SUBSET Humans, NEW empty \in SUBSET bodies,
           HumanState(t, bodies, empty)
    PROVE  Timely'
<1>0. Times \subseteq Nat /\ retention \in Nat
  BY TimesAndRetention DEF Typed
<1>1. CASE Fail("no human instance left") /\ StateFailure(t, bodies)
  <2>1. SafeFailure("no human instance left")
    BY <1>1, StateFails DEF SafeFailure, PurgeFailures
  <2> QED
    BY <1>1, <2>1, FailTimely
<1>2. CASE StateChange(t, bodies, empty)
  <2> DEFINE fresh == {h \in bodies : \A u \in hist[h] : u < t}
             added(h) == hist[h] \cup (IF h \in fresh THEN {t} ELSE {})
  <2>1. /\ \A h \in Humans :
              /\ hist'[h] = IF h \in bodies THEN Purge(t, added(h)) ELSE hist[h]
              /\ h \in bodies => hist'[h] # {}
              /\ hist'[h] = added(h) \/ "human" \in purged'
        /\ purged \subseteq purged'
        /\ UNCHANGED <<robotTime, everRemoved, failure, retention, factory, tied>>
        /\ UNCHANGED <<queueVars, workerVars, keep, move>>
    BY <1>2 DEF StateChange
  <2>2. AllJobs' = AllJobs
    BY <2>1, SameJobs
  <2>3. ASSUME everRemoved' = {}, NEW j \in AllJobs'
        PROVE  Instanced(j)'
    <3>1. j \in AllJobs /\ j \in Job
      BY <2>2, JobsTyped
    <3>2. j.time \in Times /\ j.time \in Nat /\ j.human \in Humans
      BY <1>0, <3>1, JobFields
    <3> DEFINE h == j.human
    <3>3. /\ j.time <= robotTime /\ hist[h] # {}
          /\ j.time \in hist[h] \/ ("human" \in purged /\ \A u \in hist[h] : j.time < u)
      BY <2>1, <2>3, <3>1, TimelyParts DEF Instanced
    <3>4. hist[h] \subseteq Nat /\ t \in Nat
      BY <1>0, <3>2 DEF Typed, TypeOK
    <3>5. j.time <= robotTime'
      BY <2>1, <3>3
    <3>6. hist'[h] # {}
      BY <2>1, <3>2, <3>3
    <3>7. \A u \in added(h) : u \in hist[h] \/ (u = t /\ \A v \in hist[h] : v < t)
      OBVIOUS
    <3>8. CASE j.time \in hist[h]
      <4>1. j.time \in added(h)
        BY <3>8
      <4>2. CASE hist'[h] = added(h)
        BY <3>5, <3>6, <4>1, <4>2 DEF Instanced
      <4>3. CASE hist'[h] # added(h)
        <5>1. "human" \in purged' /\ hist'[h] = Purge(t, added(h))
          BY <2>1, <3>2, <4>3
        <5>2. hist'[h] = Recent(t, added(h))
          BY <4>3, <5>1 DEF Purge
        <5>3. Minus(t, retention) \in Nat
          BY <1>0, <3>4, MinusFacts
        <5>4. hist'[h] = {u \in added(h) : u >= Minus(t, retention)}
          BY <5>2 DEF Recent
        <5>5. ASSUME j.time \notin hist'[h], NEW u \in hist'[h]
              PROVE  j.time < u
          <6>1. ~(j.time >= Minus(t, retention))
            BY <4>1, <5>4, <5>5
          <6>2. u >= Minus(t, retention) /\ u \in added(h)
            BY <5>4, <5>5
          <6>3. u \in Nat
            BY <3>4, <3>7, <6>2
          <6> QED
            BY <3>2, <5>3, <6>1, <6>2, <6>3
        <5> QED
          BY <3>5, <3>6, <5>1, <5>5 DEF Instanced
      <4> QED
        BY <4>2, <4>3
    <3>9. CASE "human" \in purged /\ \A u \in hist[h] : j.time < u
      <4>1. \A u \in added(h) : j.time < u
        <5>1. PICK v \in hist[h] : TRUE
          BY <3>3
        <5>2. ASSUME NEW u \in added(h) PROVE j.time < u
          <6>1. CASE u \in hist[h]
            BY <3>9, <6>1
          <6>2. CASE u = t /\ v < t
            <7>1. j.time < v /\ v \in Nat
              BY <3>4, <3>9, <5>1
            <7> QED
              BY <3>2, <3>4, <6>2, <7>1
          <6>3. u \in hist[h] \/ (u = t /\ \A i \in hist[h] : i < t)
            BY <3>7
          <6> QED
            BY <5>1, <6>1, <6>2, <6>3
        <5> QED
          BY <5>2
      <4>2. hist'[h] \subseteq added(h)
        <5>1. hist'[h] = Purge(t, added(h)) \/ hist'[h] = hist[h]
          BY <2>1, <3>2
        <5>2. Purge(t, added(h)) \subseteq added(h) /\ hist[h] \subseteq added(h)
          BY PurgeLeaves
        <5> QED
          BY <5>1, <5>2
      <4>3. "human" \in purged'
        BY <2>1, <3>9
      <4> QED
        BY <3>5, <3>6, <4>1, <4>2, <4>3 DEF Instanced
    <3> QED
      BY <3>3, <3>8, <3>9
  <2> QED
    BY <2>1, <2>3, StaysTimely
<1> QED
  BY <1>1, <1>2, HumanStateSteps DEF Typed

LEMMA RobotTimely ==
    ASSUME Typed, Timely, NEW t \in Times, RobotState(t) \/ RobotPurge(t)
    PROVE  Timely'
<1>1. CASE Fail("no mode trace left")
  <2>1. SafeFailure("no mode trace left")
    BY DEF SafeFailure, PurgeFailures
  <2> QED
    BY <1>1, <2>1, FailTimely
<1>2. CASE ~Fail("no mode trace left")
  <2>0. tied => tied'
    BY <1>2, Zenon DEF RobotState, RobotPurge
  <2>1. /\ t >= robotTime /\ robotTime' = t /\ purged \subseteq purged'
        /\ UNCHANGED <<everRemoved, failure, retention, factory, hist>>
        /\ UNCHANGED <<queueVars, workerVars, keep, move>>
    BY <1>2 DEF RobotState, RobotPurge
  <2>2. AllJobs' = AllJobs
    BY <2>1, SameJobs
  <2>3. ASSUME everRemoved' = {}, NEW j \in AllJobs'
        PROVE  Instanced(j)'
    <3>1. j \in AllJobs /\ j \in Job
      BY <2>2, JobsTyped
    <3>2. Instanced(j)
      BY <2>1, <2>3, <3>1, TimelyParts
    <3>3. j.time \in Nat /\ robotTime \in Nat /\ t \in Nat
      BY <3>1, JobFields, TimesAndRetention DEF Typed
    <3>4. j.time <= robotTime'
      BY <2>1, <3>2, <3>3 DEF Instanced
    <3> QED
      BY <2>1, <3>2, <3>4 DEF Instanced
  <2> QED
    BY <2>0, <2>1, <2>3, StaysTimely
<1> QED
  BY <1>1, <1>2

LEMMA RemoveTimely == ASSUME Typed, Timely, RemoveHumans PROVE Timely'
<1>1. /\ everRemoved' = everRemoved \cup Unresponding
      /\ UNCHANGED <<robotTime, purged, retention, factory, tied, queueVars, workerVars, keep, move,
                     failure>>
  BY DEF RemoveHumans
<1>2. AllJobs' = AllJobs
  BY <1>1, SameJobs
<1>3. ASSUME everRemoved' = {}, NEW j \in AllJobs'
      PROVE  Instanced(j)'
  <2>1. j \in AllJobs /\ j \in Job /\ everRemoved = {} /\ Unresponding = {}
    BY <1>1, <1>2, <1>3, JobsTyped
  <2>2. j.human \in Humans
    BY <2>1, JobFields
  <2>3. hist'[j.human] = hist[j.human]
    BY <2>1, <2>2, RemoveFacts DEF Typed
  <2>4. Instanced(j)
    BY <2>1, TimelyParts
  <2> QED
    BY <1>1, <2>3, <2>4 DEF Instanced
<1> QED
  BY <1>1, <1>3, StaysTimely

LEMMA PairsTimely ==
    ASSUME Timely,
           Presents \/ Filter \/ FilterEnd \/ HandlerEnd \/ UNCHANGED vars
    PROVE  Timely'
<1>1. UNCHANGED <<hist, robotTime, purged, everRemoved, retention, factory, tied, queueVars, workerVars,
                  keep, move, failure>>
  <2>1. CASE Filter
    BY <2>1 DEF Filter, KeepPair, DropPair, bodyVars
  <2> QED
    BY <2>1
    DEF Presents, PresentCheck, PresentPush, PresentInsert, FilterEnd, HandlerEnd, vars, bodyVars, localVars
<1>2. AllJobs' = AllJobs
  BY <1>1, SameJobs
<1> QED
  BY <1>1, <1>2, StaysTimely

LEMMA QueuesTimely ==
    ASSUME Typed, Timely, PurgeSleeping \/ PurgeEnd \/ Refill
    PROVE  Timely'
<1>1. UNCHANGED <<failure, bodyVars>>
  BY DEF PurgeSleeping, PurgeEnd, Refill
<1>2. \A x \in AllJobs' : x \in AllJobs
  <2>1. CASE PurgeSleeping
    <3>1. /\ sleeping \in Seq(Job) /\ keep \in Seq(Job) /\ sleeping # <<>>
          /\ sleeping' = Tail(sleeping)
          /\ keep' = keep \/ keep' = Append(keep, Head(sleeping))
          /\ UNCHANGED <<waiting, move, cur, todo>>
      BY <2>1 DEF PurgeSleeping, workerVars, Typed
    <3>2. Head(sleeping) \in Job /\ ToSet(sleeping) = ToSet(sleeping') \cup {Head(sleeping)}
      BY <3>1, TailList
    <3>3. ToSet(keep') \subseteq ToSet(keep) \cup {Head(sleeping)}
      <4>1. \A x \in Job : ToSet(Append(keep, x)) = ToSet(keep) \cup {x}
        BY <3>1, AppendList
      <4> QED
        BY <3>1, <3>2, <4>1
    <3> QED
      BY <3>1, <3>2, <3>3, AllJobsOf
  <2>2. CASE PurgeEnd
    <3>1. sleeping' = keep /\ ToSet(keep') = {} /\ UNCHANGED <<waiting, move, cur, todo>>
      BY <2>2, EmptyList DEF PurgeEnd, workerVars
    <3> QED
      BY <3>1, AllJobsOf
  <2>3. CASE Refill
    <3>1. /\ waiting \in Seq(Job) /\ move \in Seq(Job) /\ waiting' = waiting \o move
          /\ sleeping' = keep /\ ToSet(keep') = {} /\ ToSet(move') = {} /\ UNCHANGED <<cur, todo>>
      BY <2>3, EmptyList DEF Refill, workerVars, Typed
    <3>2. ToSet(waiting') = ToSet(waiting) \cup ToSet(move)
      BY <3>1, ConcatList
    <3> QED
      BY <3>1, <3>2, AllJobsOf
  <2> QED
    BY <2>1, <2>2, <2>3
<1> QED
  BY <1>1, <1>2, QuietTimely

\* None of the lookups of the instances of a job fails.
LEMMA AwakenFailsSafely ==
    ASSUME Typed, Owned, Timely, everRemoved = {}, NEW j \in ToSet(sleeping)
    PROVE  AwakenFailure(j) \in {"none", "no human instance within time", "lower timestamp not found"}
           /\ (AwakenFailure(j) # "none" => purged # {})
<1> DEFINE h == j.human
<1>1. j \in AllJobs /\ j \in Job
  BY AllJobsOf, JobsTyped
<1>2. h \in Humans /\ j.time \in Nat /\ hist[h] \subseteq Nat /\ robotTime \in Nat
  BY <1>1, JobFields, TimesAndRetention DEF Typed, TypeOK
<1>3. h \in humans
  BY <1>1, OwnersOf DEF Owned
<1>4. Instanced(j)
  BY <1>1, TimelyParts
<1>5. "human" \notin purged => HasInstancesWithin(h) /\ j.time \in hist[h]
  BY <1>4 DEF Instanced, HasInstancesWithin
<1>6. ASSUME HasInstancesWithin(h)
      PROVE  ~(j.time > LatestWithin(h))
  <2>1. /\ LatestWithin(h) \in hist[h]
        /\ \A u \in hist[h] : u <= robotTime => u <= LatestWithin(h)
    BY <1>2, <1>6, LatestFacts DEF Typed
  <2>2. LatestWithin(h) \in Nat
    BY <1>2, <2>1
  <2>3. j.time <= LatestWithin(h)
    BY <1>2, <1>4, <2>1, <2>2 DEF Instanced
  <2> QED
    BY <1>2, <2>2, <2>3
<1>7. CASE ~HasInstancesWithin(h)
  <2>1. AwakenFailure(j) = "no human instance within time"
    BY <1>3, <1>7 DEF AwakenFailure
  <2> QED
    BY <1>5, <1>7, <2>1
<1>8. CASE HasInstancesWithin(h) /\ j.time \notin hist[h]
  <2>1. AwakenFailure(j) = "lower timestamp not found"
    BY <1>3, <1>6, <1>8 DEF AwakenFailure
  <2> QED
    BY <1>5, <1>8, <2>1
<1>9. CASE HasInstancesWithin(h) /\ j.time \in hist[h]
  <2>1. AwakenFailure(j) = "none"
    BY <1>3, <1>6, <1>9 DEF AwakenFailure
  <2> QED
    BY <2>1
<1> QED
  BY <1>7, <1>8, <1>9

LEMMA LatestInstanced ==
    ASSUME Typed, NEW h \in Humans, HasInstancesWithin(h), NEW j, j.human = h,
           j.time = LatestWithin(h)
    PROVE  Instanced(j)
<1>1. LatestWithin(h) \in hist[h] /\ LatestWithin(h) <= robotTime
  BY LatestFacts DEF Typed
<1> QED
  BY <1>1 DEF Instanced

LEMMA InstancedStays ==
    ASSUME UNCHANGED bodyVars
    PROVE  \A j : Instanced(j)' <=> Instanced(j)
BY DEF bodyVars, Instanced

LEMMA AwakenTimely == ASSUME Typed, Owned, Timely, Awaken PROVE Timely'
<1> DEFINE j == Head(sleeping)
           t == LatestWithin(j.human)
<1>1. CASE AwakenFails
  <2>1. CASE \E i \in ToSet(sleeping) : AwakenFailure(i) # "none" /\ Fail(AwakenFailure(i))
    <3>1. PICK i \in ToSet(sleeping) : AwakenFailure(i) # "none" /\ Fail(AwakenFailure(i))
      BY <2>1
    <3>2. everRemoved = {} => SafeFailure(AwakenFailure(i))
      BY <3>1, AwakenFailsSafely DEF SafeFailure, PurgeFailures
    <3> QED
      BY <3>1, <3>2, FailTimely
  <2>2. CASE Missing /\ Fail("not in the robot history")
    <3>1. SafeFailure("not in the robot history")
      BY <2>2 DEF SafeFailure, PurgeFailures
    <3> QED
      BY <2>2, <3>1, FailTimely
  <2>3. CASE Fail("timestamp not in job registry")
    <3>1. SafeFailure("timestamp not in job registry")
      BY DEF SafeFailure
    <3> QED
      BY <2>3, <3>1, FailTimely
  <2> QED
    BY <1>1, <2>1, <2>2, <2>3 DEF AwakenFails
<1>2. CASE Drained(j, t)
  <2>1. UNCHANGED <<bodyVars, failure>> /\ AwakenFailure(j) = "none" /\ j \in Job
    BY <1>2 DEF Drained
  <2>2. HasInstancesWithin(j.human) /\ j.human \in Humans
    BY <2>1, JobFields DEF AwakenFailure
  <2>3. ASSUME everRemoved' = {}, NEW x \in AllJobs'
        PROVE  Instanced(x)'
    <3>1. CASE x \in AllJobs
      <4>1. Instanced(x)
        BY <2>1, <2>3, <3>1, TimelyParts DEF bodyVars
      <4> QED
        BY <2>1, <4>1, InstancedStays
    <3>2. CASE x.human = j.human /\ x.time = t
      <4>1. Instanced(x)
        BY <2>2, <3>2, LatestInstanced
      <4> QED
        BY <2>1, <4>1, InstancedStays
    <3> QED
      BY <1>2, <3>1, <3>2, DrainedJobs
  <2>4. UNCHANGED <<failure, retention, factory, tied, purged, everRemoved>>
    BY <2>1 DEF bodyVars
  <2> QED
    BY <2>3, <2>4, StaysTimely
<1> QED
  BY <1>1, <1>2, AwakenSteps

LEMMA PromoteTimely == ASSUME Typed, Owned, Timely, Promote PROVE Timely'
<1> DEFINE h == Head(left)
           t == LatestWithin(h)
<1>1. CASE PromoteFails(h, t)
  <2>1. CASE Fail("timestamp not in job registry")
    <3>1. SafeFailure("timestamp not in job registry")
      BY DEF SafeFailure
    <3> QED
      BY <2>1, <3>1, FailTimely
  <2>2. CASE left # <<>> /\ Reuse /\ ~Acceptable(h, t, <<>>) /\ Fail("job already registered")
    <3>1. PICK p \in Prefixes(<<>>) : <<h, t, p>> \in reg
      BY <2>2 DEF Acceptable
    <3>2. <<h, t, p>>[1] = h
      OBVIOUS
    <3>3. h \in Owners
      BY <3>1, <3>2 DEF Owned
    <3>4. left \in Seq(Humans) /\ left # <<>>
      BY <2>2 DEF Typed
    <3>5. h \in ToSet(left)
      BY <3>4, TailList
    <3>6. everRemoved # {}
      BY <3>3, <3>5, OwnersOf DEF Pairs
    <3> QED
      BY <2>2, <3>6, FailTimely
  <2>3. CASE left # <<>> /\ rcv = "promote" /\ h \notin humans /\ Fail("human not registered")
    <3>1. left # <<>> /\ h \notin humans
      BY <2>3, Zenon
    <3>2. left \in Seq(Humans) /\ gone = {}
      BY <2>3 DEF Typed
    <3>3. h \in ToSet(left)
      BY <3>1, <3>2, TailList
    <3>4. ToSet(left) \subseteq humans \cup gone
      BY DEF Owned
    <3> HIDE DEF h
    <3>5. h \in humans \cup gone
      BY <3>3, <3>4, Zenon
    <3> QED
      BY <3>1, <3>2, <3>5
  <2>4. CASE Missing /\ Fail("not in the robot history")
    <3>1. SafeFailure("not in the robot history")
      BY <2>4 DEF SafeFailure, PurgeFailures
    <3> QED
      BY <2>4, <3>1, FailTimely
  <2> QED
    BY <1>1, <2>1, <2>2, <2>3, <2>4 DEF PromoteFails
<1>2. CASE Examined(h, t)
  <2>1. UNCHANGED <<bodyVars, failure>> /\ h \in Humans
    BY <1>2 DEF Examined
  <2>2. ASSUME everRemoved' = {}, NEW x \in AllJobs'
        PROVE  Instanced(x)'
    <3>1. CASE x \in AllJobs
      <4>1. Instanced(x)
        BY <2>1, <2>2, <3>1, TimelyParts DEF bodyVars
      <4> QED
        BY <2>1, <4>1, InstancedStays
    <3>2. CASE x.human = h /\ x.time = t /\ HasInstancesWithin(h)
      <4>1. Instanced(x)
        BY <2>1, <3>2, LatestInstanced
      <4> QED
        BY <2>1, <4>1, InstancedStays
    <3> QED
      BY <1>2, <3>1, <3>2, ExaminedJobs
  <2>3. UNCHANGED <<failure, retention, factory, tied, purged, everRemoved>>
    BY <2>1 DEF bodyVars
  <2> QED
    BY <2>2, <2>3, StaysTimely
<1> QED
  BY <1>1, <1>2, PromoteSteps

LEMMA WorkerTimely == ASSUME Typed, Timely, NEW w \in Workers, Worker(w) PROVE Timely'
<1>1. CASE Missing /\ Fail("not in the robot history")
  <2>1. SafeFailure("not in the robot history")
    BY <1>1 DEF SafeFailure, PurgeFailures
  <2> QED
    BY <1>1, <2>1, FailTimely
<1>2. CASE Moves(w)
  <2>1. UNCHANGED <<failure, bodyVars>>
    BY <1>2, MovedOthers DEF receiverVars
  <2> QED
    BY <1>2, <2>1, MovedJobs, QuietTimely
<1> QED
  BY <1>1, <1>2, WorkerSteps

LEMMA NextTimely == ASSUME Typed, Owned, Timely, [Next]_vars PROVE Timely'
BY StateTimely, RobotTimely, RemoveTimely, PairsTimely, QueuesTimely, AwakenTimely, PromoteTimely,
   WorkerTimely
DEF Next, Receiver, Presents

-----------------------------------------------------------------------------
(* Places and the jobs that are sure to stay.                               *)
LEMMA PlacesOf ==
    /\ Places = {"waiting", "sleeping", "keep", "move"} \cup Workers
    /\ "waiting" \notin Workers /\ "sleeping" \notin Workers
    /\ "keep" \notin Workers /\ "move" \notin Workers
    /\ Queued["waiting"] = waiting /\ Queued["sleeping"] = sleeping
    /\ Queued["keep"] = keep /\ Queued["move"] = move
    /\ Queued'["waiting"] = waiting' /\ Queued'["sleeping"] = sleeping'
    /\ Queued'["keep"] = keep' /\ Queued'["move"] = move'
<1>1. DOMAIN Queued = {"waiting", "sleeping", "keep", "move"}
  BY DEF Queued
<1> QED
  BY <1>1, LifecycleAssumption DEF Places, Queued

LEMMA SureOf ==
    /\ \A x : x \in Sure <=>
          \/ x \in ToSet(waiting) \/ x \in ToSet(sleeping) \/ x \in ToSet(keep) \/ x \in ToSet(move)
          \/ \E w \in Workers : x \in SureIn(w)
    /\ \A x : x \in Sure' <=>
          \/ x \in ToSet(waiting') \/ x \in ToSet(sleeping') \/ x \in ToSet(keep') \/ x \in ToSet(move')
          \/ \E w \in Workers : x \in SureIn(w)'
<1>1. /\ Places = {"waiting", "sleeping", "keep", "move"} \cup Workers
      /\ Places' = {"waiting", "sleeping", "keep", "move"} \cup Workers
  <2>1. DOMAIN Queued = {"waiting", "sleeping", "keep", "move"}
        /\ DOMAIN Queued' = {"waiting", "sleeping", "keep", "move"}
    BY DEF Queued
  <2> QED
    BY <2>1 DEF Places
<1>2. /\ SureAt("waiting") = ToSet(waiting) /\ SureAt("sleeping") = ToSet(sleeping)
      /\ SureAt("keep") = ToSet(keep) /\ SureAt("move") = ToSet(move)
      /\ \A w \in Workers : SureAt(w) = SureIn(w)
  BY PlacesOf DEF SureAt
<1>3. /\ SureAt("waiting")' = ToSet(waiting') /\ SureAt("sleeping")' = ToSet(sleeping')
      /\ SureAt("keep")' = ToSet(keep') /\ SureAt("move")' = ToSet(move')
      /\ \A w \in Workers : SureAt(w)' = SureIn(w)'
  BY PlacesOf DEF SureAt
<1>4. \A x : x \in Sure <=> \E p \in Places : x \in SureAt(p)
  BY DEF Sure
<1>5. \A x : x \in Sure' <=> \E p \in Places' : x \in SureAt(p)'
  BY DEF Sure
<1>6. ASSUME NEW x
      PROVE  x \in Sure <=>
          \/ x \in ToSet(waiting) \/ x \in ToSet(sleeping) \/ x \in ToSet(keep) \/ x \in ToSet(move)
          \/ \E w \in Workers : x \in SureIn(w)
  BY <1>1, <1>2, <1>4
<1>7. ASSUME NEW x
      PROVE  x \in Sure' <=>
          \/ x \in ToSet(waiting') \/ x \in ToSet(sleeping') \/ x \in ToSet(keep') \/ x \in ToSet(move')
          \/ \E w \in Workers : x \in SureIn(w)'
  BY <1>1, <1>3, <1>5
<1> QED
  BY <1>6, <1>7

LEMMA SureJobs == ASSUME Typed, NEW j \in Sure PROVE j \in AllJobs /\ j \in Job
<1>1. \A w \in Workers : \A x \in SureIn(w) : x \in ToSet(cur[w]) \/ x \in ToSet(todo[w])
  BY DEF SureIn
<1>2. j \in AllJobs
  BY <1>1, SureOf, AllJobsOf
<1> QED
  BY <1>2, JobsTyped

\* A worker whose variables stay, while no next job of its is registered.
LEMMA SureInStays ==
    ASSUME NEW w \in Workers, pc'[w] = pc[w], cur'[w] = cur[w], todo'[w] = todo[w],
           UNCHANGED factory,
           \A x \in ToSet(todo[w]) : <<x.human, x.time, x.path>> \in reg'
                                        <=> <<x.human, x.time, x.path>> \in reg
    PROVE  /\ SureIn(w)' = SureIn(w)
           /\ \A x \in ToSet(todo[w]) : Droppable(w, x)' <=> Droppable(w, x)
<1>1. MyJob(w)' = MyJob(w)
  BY DEF MyJob
<1>2. \A x \in ToSet(todo[w]) : Droppable(w, x)' <=> Droppable(w, x)
  BY <1>1 DEF Droppable, HasRegistered, Reuse
<1> QED
  BY <1>2 DEF SureIn

\* One whose variables stay with the registry.
LEMMA SureInSame ==
    ASSUME NEW w \in Workers, pc'[w] = pc[w], cur'[w] = cur[w], todo'[w] = todo[w],
           UNCHANGED <<factory, reg>>
    PROVE  /\ SureIn(w)' = SureIn(w)
           /\ \A x \in ToSet(todo[w]) : Droppable(w, x)' <=> Droppable(w, x)
BY SureInStays

\* A job whose path begins with a registered one is not registered any more.
LEMMA RegisterKeepsRooted ==
    ASSUME Typed, NEW h \in Humans, NEW t \in Times, NEW paths \in SUBSET Paths,
           TryRegister(h, t, paths), NEW x \in Job, Rooted(x),
           <<x.human, x.time, x.path>> \in reg'
    PROVE  <<x.human, x.time, x.path>> \in reg
<1>1. CASE Reuse
  <2>1. reg' = reg \cup {<<h, t, p>> : p \in {q \in paths : Acceptable(h, t, q)}}
    BY <1>1, TryRegisterFacts
  <2>2. SUFFICES ASSUME NEW p \in paths, Acceptable(h, t, p),
                        <<x.human, x.time, x.path>> = <<h, t, p>>
                 PROVE  FALSE
    BY <2>1
  <2>3. x.human = h /\ x.time = t /\ x.path = p
    BY <2>2
  <2> QED
    BY <2>2, <2>3 DEF Rooted, Acceptable
<1>2. CASE ~Reuse
  BY <1>2, TryRegisterFacts
<1> QED
  BY <1>1, <1>2

\* Registering changes nothing for the workers.
LEMMA RegisterKeepsSure ==
    ASSUME Typed, AllRooted, NEW h \in Humans, NEW t \in Times, NEW paths \in SUBSET Paths,
           TryRegister(h, t, paths), UNCHANGED <<workerVars, factory>>, NEW w \in Workers
    PROVE  /\ SureIn(w)' = SureIn(w)
           /\ \A x \in ToSet(todo[w]) : Droppable(w, x)' <=> Droppable(w, x)
<1>1. reg \subseteq reg' /\ (~Reuse => reg' = {})
  BY TryRegisterFacts
<1>2. ASSUME NEW x \in ToSet(todo[w])
      PROVE  <<x.human, x.time, x.path>> \in reg' <=> <<x.human, x.time, x.path>> \in reg
  <2>1. x \in Job
    BY AllJobsOf, JobsTyped
  <2>2. Reuse => Rooted(x)
    BY DEF AllRooted
  <2> QED
    BY <1>1, <2>1, <2>2, RegisterKeepsRooted
<1> QED
  BY <1>2, SureInStays DEF workerVars

LEMMA NoneDroppable ==
    ASSUME ~Reuse
    PROVE  \A w, j : ~Droppable(w, j)
BY DEF Droppable, HasRegistered

-----------------------------------------------------------------------------
(* Every pair promoted, and every path registered, has a job that stays.     *)
LEMMA BeyondOrder ==
    ASSUME NEW i \in Job, NEW j \in Job, NEW h, NEW t \in Times, NEW q, Beyond(j, h, t, q),
           \/ Beyond(i, j.human, j.time, j.path)
           \/ i.human = j.human /\ i.time > j.time
    PROVE  Beyond(i, h, t, q)
<1>1. /\ i.time \in Nat /\ j.time \in Nat /\ t \in Nat
      /\ i.path \in Paths /\ j.path \in Paths
  BY JobFields, LifecycleAssumption
<1>2. ASSUME q \in Prefixes(j.path), j.path \in Prefixes(i.path)
      PROVE  q \in Prefixes(i.path)
  BY <1>1, <1>2, PrefixOrder
<1> QED
  BY <1>1, <1>2 DEF Beyond

LEMMA InitAlive == Init => Alive
<1> SUFFICES ASSUME Init PROVE Alive
  OBVIOUS
<1>1. Promoted = {} /\ reg = {}
  BY DEF Init, Promoted
<1> QED
  BY <1>1 DEF Alive

\* A step that registers nothing and loses no job but those of humans removed.
LEMMA StaysAlive ==
    ASSUME Alive, UNCHANGED <<factory, reg>>, Promoted' \subseteq Promoted,
           everRemoved \subseteq everRemoved', Promoted' \cap everRemoved' = {},
           \A j \in Sure : j \in Sure' \/ j.human \in everRemoved'
    PROVE  Alive'
<1>1. Reuse' <=> Reuse
  BY DEF Reuse
<1>2. Reuse => \A h \in Promoted' : \E t \in Times : <<h, t, <<>>>> \in reg'
  BY DEF Alive
<1>3. ASSUME NEW r \in reg', r[1] \notin everRemoved'
      PROVE  \E j \in Sure' : Beyond(j, r[1], r[2], r[3])
  <2>1. PICK j \in Sure : Beyond(j, r[1], r[2], r[3])
    BY <1>3 DEF Alive
  <2>2. j \in Sure'
    BY <1>3, <2>1 DEF Beyond
  <2> QED
    BY <2>1, <2>2
<1>4. ASSUME ~Reuse, NEW h \in Promoted'
      PROVE  \E j \in Sure' : j.human = h /\ IsPrimary(j.path)
  <2>1. PICK j \in Sure : j.human = h /\ IsPrimary(j.path)
    BY <1>4 DEF Alive
  <2> QED
    BY <2>1
<1> QED
  BY <1>1, <1>2, <1>3, <1>4 DEF Alive, Beyond

LEMMA PromotedNotRemoved == Promoted \cap everRemoved = {} /\ (Promoted \cap everRemoved = {})'
BY DEF Promoted

\* A step of the receiver that leaves jobs and registry alone.
LEMMA BodyAlive ==
    ASSUME Alive, Promoted' \subseteq Promoted, everRemoved \subseteq everRemoved',
           UNCHANGED <<factory, queueVars, registryVars, workerVars, keep, move>>
    PROVE  Alive'
<1>1. UNCHANGED <<factory, reg, waiting, sleeping, keep, move, pc, cur, todo>>
  BY DEF queueVars, registryVars, workerVars
<1>2. \A w \in Workers : SureIn(w)' = SureIn(w)
  BY <1>1, SureInSame
<1>3. \A j \in Sure : j \in Sure'
  BY <1>1, <1>2, SureOf
<1> QED
  BY <1>1, <1>3, StaysAlive, PromotedNotRemoved

LEMMA PromotedOf ==
    /\ \A h : h \in Promoted <=> h \in humans /\ h \notin everRemoved /\ h \notin Pairs
    /\ \A h : h \in Promoted' <=> h \in humans' /\ h \notin everRemoved' /\ h \notin Pairs'
BY DEF Promoted, Pairs

LEMMA FailAlive ==
    ASSUME Alive, NEW what, Fail(what)
    PROVE  Alive'
<1>1. UNCHANGED <<factory, humans, everRemoved, pending, left, queueVars, registryVars, workerVars,
                  keep, move>>
  BY DEF Fail, bodyVars, localVars
<1>2. Promoted' = Promoted
  BY <1>1 DEF Promoted
<1> QED
  BY <1>1, <1>2, BodyAlive

LEMMA PresentAlive == ASSUME Typed, Owned, Alive, Presents PROVE Alive'
<1>1. CASE \E h \in Humans : PresentCheck(h)
  <2>1. UNCHANGED <<factory, humans, everRemoved, pending, left, queueVars, registryVars, workerVars,
                    keep, move>>
    BY <1>1 DEF PresentCheck, localVars
  <2>2. Promoted' = Promoted
    BY <2>1 DEF Promoted
  <2> QED
    BY <2>1, <2>2, BodyAlive
<1>2. CASE PresentPush
  <2>0. pending' = IF rcv \in {"filter", "promote"} THEN pending ELSE Append(pending, bbody)
    BY <1>2 DEF PresentPush
  <2>1. /\ pending' = pending \/ pending' = Append(pending, bbody)
        /\ UNCHANGED <<humans, left, factory, everRemoved, queueVars, registryVars, workerVars, keep, move>>
    <3>1. pending' = pending \/ pending' = Append(pending, bbody)
      BY <2>0, Zenon
    <3>2. UNCHANGED <<humans, left, factory, everRemoved, queueVars, registryVars, workerVars, keep, move>>
      BY <1>2 DEF PresentPush, localVars
    <3> QED
      BY <3>1, <3>2, Zenon
  <2>2. pending \in Seq(Humans) /\ bbody \in Humans
    BY <1>2 DEF PresentPush, Typed, TypeOK
  <2>3. ToSet(pending) \subseteq ToSet(pending')
    <3>1. ToSet(pending) \subseteq ToSet(Append(pending, bbody))
      BY <2>2, AppendList
    <3> QED
      BY <2>1, <3>1, Zenon
  <2>4. \A o \in Promoted' : o \in Promoted
    BY <2>1, <2>3, PromotedOf DEF Pairs
  <2> QED
    BY <2>1, <2>4, BodyAlive
<1>3. CASE PresentInsert
  <2>1. /\ bpc = "insert" /\ humans' = humans \cup {bbody}
        /\ UNCHANGED <<pending, left, factory, everRemoved, queueVars, registryVars, workerVars, keep, move>>
    BY <1>3 DEF PresentInsert, localVars
  <2>2. bbody \in ToSet(pending)
    BY <2>1 DEF Owned, Presented
  <2>3. \A o \in Promoted' : o \in Promoted
    BY <2>1, <2>2, PromotedOf DEF Pairs
  <2> QED
    BY <2>1, <2>3, BodyAlive
<1> QED
  BY <1>1, <1>2, <1>3 DEF Presents

LEMMA StateAlive ==
    ASSUME Typed, Alive, NEW t \in Times, NEW bodies \in SUBSET Humans, NEW empty \in SUBSET bodies,
           HumanState(t, bodies, empty)
    PROVE  Alive'
<1>1. CASE Fail("no human instance left")
  BY <1>1, FailAlive
<1>2. CASE StateChange(t, bodies, empty)
  <2> DEFINE new == SetToSeq(bodies \ humans)
  <2>1. new \in Seq(Humans) /\ ToSet(new) = bodies \ humans
    BY FreshPairs
  <2> HIDE DEF new
  <2>2. /\ humans' = humans \cup bodies /\ pending' = pending \o new
        /\ left' = left /\ everRemoved' = everRemoved
        /\ UNCHANGED <<factory, queueVars, registryVars, workerVars, keep, move>>
    BY <1>2 DEF StateChange, new
  <2>3. ToSet(pending') = ToSet(pending) \cup ToSet(new)
    BY <2>1, <2>2, ConcatList DEF Typed
  <2>4. \A o \in Promoted' : o \in Promoted
    BY <2>1, <2>2, <2>3, PromotedOf DEF Pairs
  <2> QED
    BY <2>2, <2>4, BodyAlive
<1> QED
  BY <1>1, <1>2, HumanStateSteps DEF Typed

LEMMA RobotAlive ==
    ASSUME Alive, NEW t \in Times, RobotState(t) \/ RobotPurge(t)
    PROVE  Alive'
<1>1. CASE Fail("no mode trace left")
  BY <1>1, FailAlive
<1>2. CASE ~Fail("no mode trace left")
  <2>1. UNCHANGED <<factory, humans, everRemoved, pending, left, queueVars, registryVars,
                    workerVars, keep, move>>
    BY <1>2 DEF RobotState, RobotPurge
  <2>2. Promoted' = Promoted
    BY <2>1 DEF Promoted
  <2> QED
    BY <2>1, <2>2, BodyAlive
<1> QED
  BY <1>1, <1>2

LEMMA RemoveAlive == ASSUME Typed, Alive, RemoveHumans PROVE Alive'
<1>1. /\ humans' = humans \ Unresponding /\ everRemoved' = everRemoved \cup Unresponding
      /\ rcv = "remove" /\ StartFilter
      /\ UNCHANGED <<factory, queueVars, registryVars, workerVars, keep, move>>
  BY DEF RemoveHumans
<1>2. ToSet(left) = {}
  <2>1. left = <<>>
    BY <1>1 DEF Typed
  <2> QED
    BY <2>1, EmptyList
<1>3. ToSet(pending) \subseteq ToSet(pending') \cup ToSet(left')
  BY <1>1 DEF StartFilter
<1>4. \A o \in Promoted' : o \in Promoted
  BY <1>1, <1>2, <1>3, PromotedOf DEF Pairs
<1> QED
  BY <1>1, <1>4, BodyAlive

LEMMA FilterAlive == ASSUME Typed, Owned, Alive, Filter \/ FilterEnd PROVE Alive'
<1>1. CASE Filter
  <2>1. /\ left \in Seq(Humans) /\ pending \in Seq(Humans) /\ left # <<>>
        /\ left' = Tail(left)
        /\ IF Head(left) \in gone THEN pending' = pending ELSE pending' = Append(pending, Head(left))
        /\ UNCHANGED <<bodyVars, queueVars, registryVars, workerVars, keep, move>>
    BY <1>1 DEF Filter, DropPair, KeepPair, Typed
  <2>2. Head(left) \in Humans /\ ToSet(left) = ToSet(left') \cup {Head(left)}
    BY <2>1, TailList
  <2>3. ToSet(pending') = ToSet(pending) \cup (IF Head(left) \in gone THEN {} ELSE {Head(left)})
    <3>1. \A x \in Humans : ToSet(Append(pending, x)) = ToSet(pending) \cup {x}
      BY <2>1, AppendList
    <3> QED
      BY <2>1, <2>2, <3>1
  <2>4. UNCHANGED <<factory, humans, everRemoved>>
    BY <2>1 DEF bodyVars
  <2>5. \A o \in Promoted' : o \in Promoted
    BY <2>2, <2>3, <2>4, PromotedOf DEF Pairs, Owned
  <2> QED
    BY <2>1, <2>4, <2>5, BodyAlive
<1>2. CASE FilterEnd
  <2>1. UNCHANGED <<factory, humans, everRemoved, pending, left, queueVars, registryVars,
                    workerVars, keep, move>>
    BY <1>2 DEF FilterEnd, bodyVars, localVars
  <2>2. Promoted' = Promoted
    BY <2>1 DEF Promoted
  <2> QED
    BY <2>1, <2>2, BodyAlive
<1> QED
  BY <1>1, <1>2

LEMMA StutterAlive == ASSUME Alive, HandlerEnd \/ UNCHANGED vars PROVE Alive'
<1>1. UNCHANGED <<factory, humans, everRemoved, pending, left, queueVars, registryVars, workerVars,
                  keep, move>>
  BY DEF HandlerEnd, vars, bodyVars, localVars
<1>2. Promoted' = Promoted
  BY <1>1 DEF Promoted
<1> QED
  BY <1>1, <1>2, BodyAlive

LEMMA PurgeAlive == ASSUME Typed, Owned, Alive, PurgeSleeping \/ PurgeEnd PROVE Alive'
<1>1. CASE PurgeSleeping
  <2>1. /\ sleeping \in Seq(Job) /\ keep \in Seq(Job) /\ sleeping # <<>>
        /\ sleeping' = Tail(sleeping)
        /\ IF Head(sleeping).human \in gone THEN keep' = keep
                                            ELSE keep' = Append(keep, Head(sleeping))
        /\ UNCHANGED <<factory, humans, everRemoved, pending, left, waiting, move, reg, pc, cur, todo>>
    BY <1>1 DEF PurgeSleeping, bodyVars, registryVars, workerVars, Typed
  <2>2. Head(sleeping) \in Job /\ ToSet(sleeping) = ToSet(sleeping') \cup {Head(sleeping)}
    BY <2>1, TailList
  <2>3. /\ ToSet(keep) \subseteq ToSet(keep')
        /\ Head(sleeping) \in ToSet(keep') \/ Head(sleeping).human \in everRemoved
    <3>1. \A x \in Job : ToSet(Append(keep, x)) = ToSet(keep) \cup {x}
      BY <2>1, AppendList
    <3> QED
      BY <2>1, <2>2, <3>1 DEF Owned
  <2>4. \A w \in Workers : SureIn(w)' = SureIn(w)
    BY <2>1, SureInSame
  <2>5. \A j \in Sure : j \in Sure' \/ j.human \in everRemoved'
    BY <2>1, <2>2, <2>3, <2>4, SureOf
  <2>6. Promoted' = Promoted
    BY <2>1 DEF Promoted
  <2> QED
    BY <2>1, <2>5, <2>6, StaysAlive, PromotedNotRemoved
<1>2. CASE PurgeEnd
  <2>1. /\ sleeping = <<>> /\ sleeping' = keep
        /\ UNCHANGED <<factory, humans, everRemoved, pending, left, waiting, move, reg, pc, cur, todo>>
    BY <1>2 DEF PurgeEnd, bodyVars, registryVars, workerVars
  <2>2. ToSet(sleeping) = {}
    BY <2>1, EmptyList
  <2>3. \A w \in Workers : SureIn(w)' = SureIn(w)
    BY <2>1, SureInSame
  <2>4. \A j \in Sure : j \in Sure'
    BY <2>1, <2>2, <2>3, SureOf
  <2>5. Promoted' = Promoted
    BY <2>1 DEF Promoted
  <2> QED
    BY <2>1, <2>4, <2>5, StaysAlive, PromotedNotRemoved
<1> QED
  BY <1>1, <1>2

LEMMA RefillAlive == ASSUME Typed, Alive, Refill PROVE Alive'
<1>1. /\ waiting \in Seq(Job) /\ move \in Seq(Job) /\ sleeping = <<>>
      /\ waiting' = waiting \o move /\ sleeping' = keep /\ left' = pending
      /\ UNCHANGED <<factory, humans, everRemoved, reg, pc, cur, todo>>
  BY DEF Refill, bodyVars, registryVars, workerVars, Typed
<1>2. ToSet(sleeping) = {} /\ ToSet(waiting') = ToSet(waiting) \cup ToSet(move)
  BY <1>1, EmptyList, ConcatList
<1>3. \A w \in Workers : SureIn(w)' = SureIn(w)
  BY <1>1, SureInSame
<1>4. \A j \in Sure : j \in Sure'
  BY <1>1, <1>2, <1>3, SureOf
<1>5. \A o \in Promoted' : o \in Promoted
  <2>1. ToSet(left) = {}
    <3>1. left = <<>>
      BY DEF Refill, Typed
    <3> QED
      BY <3>1, EmptyList
  <2>2. ToSet(left') = ToSet(pending)
    BY <1>1
  <2> QED
    BY <1>1, <2>1, <2>2, PromotedOf DEF Pairs
<1> QED
  BY <1>1, <1>4, <1>5, StaysAlive, PromotedNotRemoved

LEMMA ExaminedAlive ==
    ASSUME Typed, Owned, Alive, AllRooted, NEW h, NEW t, Examined(h, t)
    PROVE  Alive'
<1>1. /\ UNCHANGED <<factory, humans, everRemoved, keep, move, workerVars>>
      /\ h \in Humans /\ ToSet(left) = ToSet(left') \cup {h}
  BY ExaminedLists DEF Examined, bodyVars
<1>2. CASE KeepPair(h)
  <2>1. ToSet(pending') = ToSet(pending) \cup {h} /\ UNCHANGED <<queueVars, registryVars>>
    <3>1. pending \in Seq(Humans) /\ pending' = Append(pending, h)
      BY <1>2 DEF KeepPair, Typed
    <3>2. ToSet(Append(pending, h)) = ToSet(pending) \cup {h}
      BY <1>1, <3>1, AppendList
    <3> QED
      BY <1>2, <3>1, <3>2 DEF KeepPair
  <2>2. \A o \in Promoted' : o \in Promoted
    BY <1>1, <2>1, PromotedOf DEF Pairs
  <2> QED
    BY <1>1, <2>1, <2>2, BodyAlive
<1>3. CASE ~KeepPair(h)
  <2>0. PICK e : e = <<>> /\ e \in Paths
    BY EmptyPath
  <2> DEFINE x == JobAt(h, t, e)
  <2>1. /\ x \in Job /\ x.human = h /\ x.time = t /\ x.path = e
        /\ t \in Times
        /\ pending' = pending
        /\ ToSet(waiting') \cup ToSet(sleeping') = ToSet(waiting) \cup ToSet(sleeping) \cup {x}
        /\ reg' = IF Reuse THEN reg \cup {<<h, t, e>>} ELSE reg
    BY <1>3, <2>0, ExaminedLists
  <2>2. TryRegister(h, t, {e})
    BY <1>3, <2>0 DEF Examined, PromotePair
  <2> HIDE DEF x
  <2>3. \A w \in Workers : SureIn(w)' = SureIn(w)
    <3>1. {e} \in SUBSET Paths
      BY <2>0
    <3> QED
      BY <1>1, <2>1, <2>2, <3>1, RegisterKeepsSure
  <2>4. x \in Sure' /\ \A j \in Sure : j \in Sure'
    BY <1>1, <2>1, <2>3, SureOf
  <2>5. Reuse' <=> Reuse
    BY <1>1 DEF Reuse
  <2>6. \A o \in Promoted' : o = h \/ o \in Promoted
    BY <1>1, <2>1, PromotedOf DEF Pairs
  <2>7. Reuse => \A o \in Promoted' : \E u \in Times : <<o, u, e>> \in reg'
    BY <2>0, <2>1, <2>6 DEF Alive
  <2>8. ASSUME NEW r \in reg', r[1] \notin everRemoved'
        PROVE  \E j \in Sure' : Beyond(j, r[1], r[2], r[3])
    <3>1. CASE r \in reg
      <4>1. PICK j \in Sure : Beyond(j, r[1], r[2], r[3])
        BY <1>1, <2>8, <3>1 DEF Alive
      <4> QED
        BY <2>4, <4>1
    <3>2. CASE r \notin reg
      <4>1. r = <<h, t, e>>
        BY <2>1, <2>8, <3>2
      <4>2. r[1] = h /\ r[2] = t /\ r[3] = e
        BY <4>1
      <4>3. Beyond(x, r[1], r[2], r[3])
        BY <2>0, <2>1, <4>2, PrefixOrder DEF Beyond
      <4> QED
        BY <2>4, <4>3
    <3> QED
      BY <3>1, <3>2
  <2>9. ASSUME ~Reuse, NEW o \in Promoted'
        PROVE  \E j \in Sure' : j.human = o /\ IsPrimary(j.path)
    <3>1. CASE o \in Promoted
      <4>1. PICK j \in Sure : j.human = o /\ IsPrimary(j.path)
        BY <2>9, <3>1 DEF Alive
      <4> QED
        BY <2>4, <4>1
    <3>2. CASE o = h
      <4>1. IsPrimary(x.path)
        BY <2>0, <2>1 DEF IsPrimary
      <4> QED
        BY <2>1, <2>4, <3>2, <4>1
    <3> QED
      BY <2>6, <3>1, <3>2
  <2> QED
    BY <2>0, <2>5, <2>7, <2>8, <2>9 DEF Alive, Beyond
<1> QED
  BY <1>2, <1>3

LEMMA PromoteAlive == ASSUME Typed, Owned, Alive, AllRooted, Promote PROVE Alive'
<1> DEFINE h == Head(left)
           t == LatestWithin(h)
<1>1. CASE PromoteFails(h, t)
  BY <1>1, FailAlive DEF PromoteFails
<1>2. CASE Examined(h, t)
  BY <1>2, ExaminedAlive
<1> QED
  BY <1>1, <1>2, PromoteSteps

\* A drained job that is not kept has a later job in its place, or one that a
\* registered path goes on from.
LEMMA DrainedLater ==
    ASSUME Typed, NEW j, NEW t, Drained(j, t), ~Kept(j), Reuse
    PROVE  /\ t \in Times /\ j.time < t
           /\ \/ \E x \in ToSet(keep') \cup ToSet(move') : x.human = j.human /\ x.time = t
              \/ \E p : <<j.human, t, p>> \in reg
           /\ \A r \in reg' : r \in reg \/
                 \E x \in ToSet(keep') \cup ToSet(move') :
                    r[1] = x.human /\ r[2] = x.time /\ r[3] = x.path /\ x.human = j.human /\ x.time = t
                    /\ x \in Job
<1> DEFINE h == j.human
<1>1. /\ keep \in Seq(Job) /\ move \in Seq(Job)
      /\ j \in Job /\ h \in Humans /\ j.path \in Paths /\ t \in Times /\ j.time < t
      /\ Uncomputable(j, t) \/ Completed(j, t) \/ Different(j, t)
  BY JobFields DEF Drained, Restarted, Typed
<1>2. \A p \in Paths : LET x == JobAt(h, t, p)
                       IN  x \in Job /\ x.human = h /\ x.time = t /\ x.path = p
  BY <1>1, JobFields
<1>3. \A x \in Job : ToSet(Append(keep, x)) = ToSet(keep) \cup {x}
  BY <1>1, AppendList
<1>4. CASE Uncomputable(j, t)
  <2> DEFINE x == JobAt(h, t, j.path)
  <2>1. x \in Job /\ x.human = h /\ x.time = t /\ x.path = j.path
    BY <1>1, <1>2
  <2>2. keep' = Append(keep, x) /\ TryRegister(h, t, {j.path})
    BY <1>4 DEF Uncomputable
  <2>3. x \in ToSet(keep')
    BY <1>3, <2>1, <2>2
  <2>4. \A r \in reg' : r \in reg \/ (r[1] = h /\ r[2] = t /\ r[3] = j.path)
    <3>1. {j.path} \in SUBSET Paths
      BY <1>1
    <3>2. \A r \in reg' : r \in reg \/ (r[1] = h /\ r[2] = t /\ r[3] \in {j.path})
      BY <1>1, <2>2, <3>1, TryRegisterFacts
    <3> QED
      BY <3>2
  <2> HIDE DEF x
  <2> QED
    BY <1>1, <2>1, <2>3, <2>4
<1>5. CASE Completed(j, t)
  <2>1. PICK p \in Suffixes(j.path) : keep' = Append(keep, JobAt(h, t, p))
    BY <1>5 DEF Completed
  <2>2. p \in Paths /\ reg' = reg
    BY <1>1, <1>5, PartsOfPath DEF Completed, registryVars
  <2> DEFINE x == JobAt(h, t, p)
  <2>3. x \in Job /\ x.human = h /\ x.time = t
    BY <1>2, <2>2
  <2>4. x \in ToSet(keep')
    BY <1>3, <2>1, <2>3
  <2> HIDE DEF x
  <2> QED
    BY <1>1, <2>2, <2>3, <2>4
<1>6. CASE Different(j, t)
  <2>1. PICK paths \in AwakenedPaths(j.path) :
           /\ move' = move \o JobsAt(h, t, {p \in paths : Acceptable(h, t, p)})
           /\ TryRegister(h, t, paths)
    BY <1>6 DEF Different
  <2>2. IsFiniteSet(paths) /\ paths \in SUBSET Paths /\ paths # {}
    BY <1>1, AwakenedPathsFacts
  <2> DEFINE some == {p \in paths : Acceptable(h, t, p)}
             new == JobsAt(h, t, some)
  <2>3. IsFiniteSet(some) /\ some \in SUBSET Paths
    BY <2>2, FS_Subset
  <2>4. new \in Seq(Job) /\ ToSet(new) = {JobAt(h, t, p) : p \in some}
    <3> HIDE DEF some
    <3> QED
      BY <1>1, <2>3, JobsAtFacts
  <2>5. ToSet(new) \subseteq ToSet(move')
    <3>1. move' = move \o new
      BY <2>1
    <3> HIDE DEF new
    <3> QED
      BY <1>1, <2>4, <3>1, ConcatList
  <2>6. \A p \in some : /\ JobAt(h, t, p) \in ToSet(move')
                        /\ JobAt(h, t, p) \in Job /\ JobAt(h, t, p).human = h
                        /\ JobAt(h, t, p).time = t /\ JobAt(h, t, p).path = p
    <3> HIDE DEF some, new
    <3>1. ASSUME NEW p \in some
          PROVE  /\ JobAt(h, t, p) \in ToSet(move')
                 /\ JobAt(h, t, p) \in Job /\ JobAt(h, t, p).human = h
                 /\ JobAt(h, t, p).time = t /\ JobAt(h, t, p).path = p
      <4>1. p \in Paths
        BY <2>3
      <4>2. JobAt(h, t, p) \in ToSet(new)
        BY <2>4
      <4> QED
        BY <1>2, <2>5, <4>1, <4>2
    <3> QED
      BY <3>1
  <2>7. \A r \in reg' : r \in reg \/ \E p \in some : r = <<h, t, p>>
    <3>0. TryRegister(h, t, paths)
      BY <2>1
    <3>1. reg' = reg \cup {<<h, t, p>> : p \in {q \in paths : Acceptable(h, t, q)}}
      BY <3>0 DEF TryRegister
    <3>2. reg' = reg \cup {<<h, t, p>> : p \in some}
      BY <3>1
    <3> HIDE DEF some
    <3> QED
      BY <3>2
  <2>8. \A p : <<h, t, p>>[1] = h /\ <<h, t, p>>[2] = t /\ <<h, t, p>>[3] = p
    OBVIOUS
  <2>9. (\E p \in some : TRUE) \/ \E p : <<h, t, p>> \in reg
    <3>1. PICK p \in paths : TRUE
      BY <2>2
    <3>2. CASE Acceptable(h, t, p)
      BY <3>1, <3>2
    <3>3. CASE ~Acceptable(h, t, p)
      BY <3>3 DEF Acceptable
    <3> QED
      BY <3>2, <3>3
  <2> HIDE DEF some, new
  <2>10. \A r \in reg' : r \in reg \/ \E p \in some : r[1] = h /\ r[2] = t /\ r[3] = p
    BY <2>7, <2>8
  <2>11. \A p \in some : \E x \in ToSet(keep') \cup ToSet(move') :
            x \in Job /\ x.human = h /\ x.time = t /\ x.path = p
    BY <2>6
  <2>12. \/ \E x \in ToSet(keep') \cup ToSet(move') : x.human = h /\ x.time = t
         \/ \E p : <<h, t, p>> \in reg
    BY <2>9, <2>11
  <2>13. \A r \in reg' : r \in reg \/
            \E x \in ToSet(keep') \cup ToSet(move') :
               r[1] = x.human /\ r[2] = x.time /\ r[3] = x.path /\ x.human = h /\ x.time = t
               /\ x \in Job
    <3>1. ASSUME NEW r \in reg', r \notin reg
          PROVE  \E x \in ToSet(keep') \cup ToSet(move') :
                    r[1] = x.human /\ r[2] = x.time /\ r[3] = x.path /\ x.human = h /\ x.time = t
                    /\ x \in Job
      <4>1. PICK p \in some : r[1] = h /\ r[2] = t /\ r[3] = p
        BY <2>10, <3>1
      <4> QED
        BY <2>11, <4>1
    <3> QED
      BY <3>1
  <2> QED
    BY <1>1, <2>12, <2>13
<1> QED
  BY <1>1, <1>4, <1>5, <1>6

\* The registry is changed by a drained job for its own human and time only.
LEMMA DrainedSure ==
    ASSUME Typed, AllRooted, NEW j, NEW t, Drained(j, t), NEW w \in Workers
    PROVE  /\ SureIn(w)' = SureIn(w)
           /\ \A x \in ToSet(todo[w]) : Droppable(w, x)' <=> Droppable(w, x)
<1>1. /\ UNCHANGED <<workerVars, factory>>
      /\ j \in Job /\ j.human \in Humans /\ j.path \in Paths
      /\ Kept(j) \/ (t \in Times /\
            (Uncomputable(j, t) \/ Restarted(j, t) \/ Completed(j, t) \/ Different(j, t)))
  BY JobFields DEF Drained, bodyVars
<1>2. CASE reg' = reg
  BY <1>1, <1>2, SureInSame DEF workerVars
<1>3. ASSUME t \in Times, NEW paths \in SUBSET Paths, TryRegister(j.human, t, paths)
      PROVE  /\ SureIn(w)' = SureIn(w)
             /\ \A x \in ToSet(todo[w]) : Droppable(w, x)' <=> Droppable(w, x)
  BY <1>1, <1>3, RegisterKeepsSure
<1>4. CASE Uncomputable(j, t) /\ t \in Times
  <2>1. {j.path} \in SUBSET Paths /\ TryRegister(j.human, t, {j.path})
    BY <1>1, <1>4 DEF Uncomputable
  <2> QED
    BY <1>3, <1>4, <2>1
<1>5. CASE Different(j, t) /\ t \in Times
  <2>1. PICK paths \in AwakenedPaths(j.path) : TryRegister(j.human, t, paths)
    BY <1>5 DEF Different
  <2>2. paths \in SUBSET Paths
    BY <1>1, AwakenedPathsFacts
  <2> QED
    BY <1>3, <1>5, <2>1, <2>2
<1> QED
  BY <1>1, <1>2, <1>4, <1>5 DEF Kept, Restarted, Completed, registryVars

LEMMA DrainedAlive ==
    ASSUME Typed, Alive, AllRooted, NEW j, NEW t, Drained(j, t)
    PROVE  Alive'
<1>1. /\ UNCHANGED <<factory, humans, everRemoved, pending, left, waiting>>
      /\ j \in Job /\ j.path \in Paths
  BY JobFields DEF Drained, bodyVars
<1>2. /\ keep \in Seq(Job) /\ move \in Seq(Job)
      /\ ToSet(sleeping) = ToSet(sleeping') \cup {j}
      /\ ToSet(keep) \subseteq ToSet(keep') /\ ToSet(move) \subseteq ToSet(move')
      /\ reg \subseteq reg'
  BY DrainedLists DEF Typed
<1>3. \A w \in Workers : SureIn(w)' = SureIn(w)
  BY DrainedSure
<1>4. /\ \A x \in Sure : x \in Sure' \/ x = j
      /\ \A x \in ToSet(keep') \cup ToSet(move') : x \in Sure'
  BY <1>1, <1>2, <1>3, SureOf
<1>5. Promoted' = Promoted /\ (Reuse' <=> Reuse)
  BY <1>1 DEF Promoted, Reuse
<1>6. CASE Kept(j)
  <2>1. keep' = Append(keep, j) /\ reg' = reg
    BY <1>6 DEF Kept, registryVars
  <2>2. j \in ToSet(keep')
    BY <1>1, <1>2, <2>1, AppendList
  <2>3. \A x \in Sure : x \in Sure'
    BY <1>4, <2>2
  <2> QED
    BY <1>1, <1>5, <2>1, <2>3, StaysAlive, PromotedNotRemoved
<1>7. CASE ~Kept(j) /\ Reuse
  <2>1. /\ t \in Times /\ j.time < t
        /\ \/ \E x \in ToSet(keep') \cup ToSet(move') : x.human = j.human /\ x.time = t
           \/ \E p : <<j.human, t, p>> \in reg
        /\ \A r \in reg' : r \in reg \/
              \E x \in ToSet(keep') \cup ToSet(move') :
                 r[1] = x.human /\ r[2] = x.time /\ r[3] = x.path /\ x.human = j.human /\ x.time = t
                 /\ x \in Job
    BY <1>7, DrainedLater
  <2>2. j.time \in Nat /\ t \in Nat
    BY <1>1, <2>1, JobFields, LifecycleAssumption
  <2>3. ASSUME j.human \notin everRemoved
        PROVE  \E x \in Sure' : x.human = j.human /\ x.time > j.time
    <3>1. CASE \E x \in ToSet(keep') \cup ToSet(move') : x.human = j.human /\ x.time = t
      BY <1>4, <2>1, <2>2, <3>1
    <3>2. CASE \E p : <<j.human, t, p>> \in reg
      <4>1. PICK p : <<j.human, t, p>> \in reg
        BY <3>2
      <4>2. PICK r : r = <<j.human, t, p>> /\ r \in reg /\ r[1] = j.human /\ r[2] = t /\ r[3] = p
        BY <4>1
      <4>3. PICK x \in Sure : Beyond(x, r[1], r[2], r[3])
        BY <2>3, <4>2 DEF Alive
      <4>4. x \in Job
        BY SureJobs
      <4>5. x.human = j.human /\ x.time >= t /\ x.time \in Nat
        <5>1. x.time \in Nat
          BY <4>4, JobFields, LifecycleAssumption
        <5>2. Beyond(x, j.human, t, p)
          BY <4>2, <4>3
        <5>3. x.human = j.human /\ (x.time > t \/ x.time = t)
          BY <5>2 DEF Beyond
        <5> QED
          BY <2>2, <5>1, <5>3
      <4>6. x # j /\ x.time > j.time
        BY <2>1, <2>2, <4>5
      <4> QED
        BY <1>4, <4>5, <4>6
    <3> QED
      BY <2>1, <3>1, <3>2
  <2>4. ASSUME NEW r \in reg', r[1] \notin everRemoved'
        PROVE  \E x \in Sure' : Beyond(x, r[1], r[2], r[3])
    <3>1. CASE r \in reg
      <4>1. PICK x \in Sure : Beyond(x, r[1], r[2], r[3])
        BY <1>1, <2>4, <3>1 DEF Alive
      <4>2. CASE x # j
        BY <1>4, <4>1, <4>2
      <4>3. CASE x = j
        <5>1. j.human = r[1]
          BY <4>1, <4>3 DEF Beyond
        <5>2. PICK y \in Sure' : y.human = j.human /\ y.time > j.time
          BY <1>1, <2>3, <2>4, <5>1
        <5>3. /\ y \in Job
          <6>1. Typed'
            BY DrainedTyped
          <6>2. ToSet(waiting') \cup ToSet(sleeping') \cup ToSet(keep') \cup ToSet(move') \subseteq Job
            BY <6>1 DEF Typed, TypeOK
          <6>3. \A w \in Workers : SureIn(w)' \subseteq Job
            <7>1. \A w \in Workers : \A z \in SureIn(w) : z \in Sure
              BY SureOf
            <7> QED
              BY <1>3, <7>1, SureJobs
          <6> QED
            BY <5>2, <6>2, <6>3, SureOf
        <5>4. r[2] \in Times
          BY <3>1 DEF Typed, TypeOK
        <5>5. Beyond(y, r[1], r[2], r[3])
          BY <1>1, <4>1, <4>3, <5>2, <5>3, <5>4, BeyondOrder
        <5> QED
          BY <5>2, <5>5
      <4> QED
        BY <4>2, <4>3
    <3>2. CASE r \notin reg
      <4>1. PICK x \in ToSet(keep') \cup ToSet(move') :
               r[1] = x.human /\ r[2] = x.time /\ r[3] = x.path /\ x \in Job
        BY <2>1, <2>4, <3>2
      <4>2. x.path \in Prefixes(x.path)
        BY <4>1, JobFields, PrefixOrder
      <4>3. Beyond(x, r[1], r[2], r[3])
        BY <4>1, <4>2 DEF Beyond
      <4> QED
        BY <1>4, <4>1, <4>3
    <3> QED
      BY <3>1, <3>2
  <2>5. \A h \in Promoted' : \E u \in Times : <<h, u, <<>>>> \in reg'
    BY <1>2, <1>5, <1>7 DEF Alive
  <2> QED
    BY <1>5, <1>7, <2>4, <2>5 DEF Alive, Beyond
<1>8. CASE ~Kept(j) /\ ~Reuse
  <2>1. reg' = {}
    BY <1>8, DrainedLists
  <2>2. t \in Times /\ (Uncomputable(j, t) \/ Restarted(j, t))
    BY <1>8 DEF Drained, Completed, Different
  <2>3. IsPrimary(j.path) => \E x \in ToSet(keep') \cup ToSet(move') :
                                  x.human = j.human /\ IsPrimary(x.path)
    <3>1. PICK e : e = <<>> /\ e \in Paths
      BY EmptyPath
    <3>2. \A p \in Paths : LET x == JobAt(j.human, t, p)
                           IN  x \in Job /\ x.human = j.human /\ x.path = p
      BY <1>1, <2>2, JobFields
    <3>3. CASE Uncomputable(j, t)
      <4> DEFINE x == JobAt(j.human, t, j.path)
      <4>1. keep' = Append(keep, x)
        BY <3>3 DEF Uncomputable
      <4>2. x \in Job /\ x.human = j.human /\ x.path = j.path
        BY <1>1, <3>2
      <4> HIDE DEF x
      <4>3. x \in ToSet(keep')
        BY <1>2, <4>1, <4>2, AppendList
      <4> QED
        BY <4>2, <4>3
    <3>4. CASE Restarted(j, t) /\ IsPrimary(j.path)
      <4> DEFINE x == JobAt(j.human, t, e)
      <4>1. move' = move \o <<x>>
        BY <3>1, <3>4 DEF Restarted, Restart
      <4>2. x \in Job /\ x.human = j.human /\ x.path = e
        BY <3>1, <3>2
      <4> HIDE DEF x
      <4>3. <<x>> \in Seq(Job) /\ ToSet(<<x>>) = {x}
        BY <4>2, OneList
      <4>4. x \in ToSet(move')
        <5>1. \A u \in Seq(Job) : ToSet(move \o u) = ToSet(move) \cup ToSet(u)
          BY <1>2, ConcatList
        <5> QED
          BY <4>1, <4>3, <5>1
      <4>5. IsPrimary(x.path)
        BY <3>1, <4>2 DEF IsPrimary
      <4> QED
        BY <4>2, <4>4, <4>5
    <3> QED
      BY <2>2, <3>3, <3>4
  <2>4. ASSUME NEW h \in Promoted'
        PROVE  \E x \in Sure' : x.human = h /\ IsPrimary(x.path)
    <3>1. PICK x \in Sure : x.human = h /\ IsPrimary(x.path)
      BY <1>5, <1>8, <2>4 DEF Alive
    <3> QED
      BY <1>4, <2>3, <3>1
  <2> QED
    BY <1>5, <1>8, <2>1, <2>4 DEF Alive
<1> QED
  BY <1>6, <1>7, <1>8

LEMMA AwakenAlive == ASSUME Typed, Alive, AllRooted, Awaken PROVE Alive'
<1>1. CASE AwakenFails
  BY <1>1, FailAlive DEF AwakenFails
<1>2. CASE Drained(Head(sleeping), LatestWithin(Head(sleeping).human))
  BY <1>2, DrainedAlive
<1> QED
  BY <1>1, <1>2, AwakenSteps

\* What a worker does to the jobs that are sure to stay, but for their replacement
\* by next jobs.
LEMMA MovedSure ==
    ASSUME Typed, Owned, NEW w \in Workers, Moves(w), ~Spawns(w)
    PROVE  \A x \in Sure : x \in Sure' \/ x.human \in everRemoved
<1>0. /\ todo[w] \in Seq(Job) /\ waiting \in Seq(Job) /\ sleeping \in Seq(Job)
      /\ pc[w] # "idle" => MyJob(w) \in Job /\ cur[w] = <<MyJob(w)>>
      /\ pc[w] = "idle" => cur[w] = <<>>
  BY WorkerState DEF Typed
<1>1. /\ \A v \in Workers : v # w => pc'[v] = pc[v] /\ cur'[v] = cur[v] /\ todo'[v] = todo[v]
      /\ UNCHANGED <<factory, reg, keep, move, everRemoved>>
  BY MovedOthers DEF receiverVars, bodyVars, localVars, registryVars
<1>2. \A v \in Workers : v # w => SureIn(v)' = SureIn(v)
  BY <1>1, SureInSame
<1>3. SUFFICES /\ \A x \in SureIn(w) : \/ x \in SureIn(w)' \/ x \in ToSet(waiting')
                                       \/ x \in ToSet(sleeping') \/ x.human \in everRemoved
               /\ \A x \in ToSet(waiting) : x \in ToSet(waiting') \/ x \in SureIn(w)'
               /\ \A x \in ToSet(sleeping) : x \in ToSet(sleeping')
  BY <1>1, <1>2, SureOf
<1>a. \A s \in Seq(Job) : s # <<>> => /\ Head(s) \in Job /\ Tail(s) \in Seq(Job)
                                      /\ ToSet(s) = ToSet(Tail(s)) \cup {Head(s)}
  BY TailList
<1>b. \A s \in Seq(Job), x \in Job : ToSet(Append(s, x)) = ToSet(s) \cup {x}
  BY AppendList
<1>c. \A x \in Job : ToSet(<<x>>) = {x}
  BY OneList
<1>d. ToSet(<<>>) = {}
  BY EmptyList
<1>4. CASE Takes(w)
  <2>1. /\ pc[w] = "idle" /\ waiting # <<>> /\ waiting' = Tail(waiting) /\ sleeping' = sleeping
        /\ pc'[w] = "check" /\ cur'[w] = <<Head(waiting)>>
    BY <1>4 DEF Takes, GoesOn
  <2>2. Head(waiting) \in Job /\ ToSet(waiting) = ToSet(waiting') \cup {Head(waiting)}
    BY <1>0, <1>a, <2>1
  <2>3. SureIn(w) = {} /\ SureIn(w)' = {Head(waiting)}
    BY <1>0, <1>c, <1>d, <2>1, <2>2 DEF SureIn, Spawning
  <2> QED
    BY <2>1, <2>2, <2>3
<1>5. CASE Leaves(w)
  <2>1. waiting' = waiting /\ sleeping' = sleeping
    BY <1>5 DEF Leaves, queueVars
  <2>2. CASE pc[w] \in Searching /\ MyJob(w).human \notin humans
    <3>1. ToSet(cur[w]) = {MyJob(w)} /\ pc[w] \notin Spawning
      BY <1>0, <1>c, <2>2 DEF Searching, Spawning
    <3>2. MyJob(w) \in AllJobs
      BY <3>1, AllJobsOf
    <3>3. MyJob(w).human \in everRemoved
      BY <2>2, <3>2, OwnersOf DEF Owned
    <3>4. SureIn(w) = {MyJob(w)}
      BY <3>1 DEF SureIn
    <3> QED
      BY <2>1, <3>3, <3>4
  <2>3. CASE pc[w] = "next" /\ todo[w] = <<>>
    <3>1. SureIn(w) = {}
      BY <1>d, <2>3 DEF SureIn, Spawning
    <3> QED
      BY <2>1, <3>1
  <2> QED
    BY <1>5, <2>2, <2>3 DEF Leaves
<1>6. ASSUME NEW from, NEW to, Passes(w, from, to)
      PROVE  SureIn(w)' = SureIn(w) /\ waiting' = waiting /\ sleeping' = sleeping
  <2>1. /\ pc[w] = from /\ pc'[w] = to /\ cur'[w] = cur[w] /\ from \notin Spawning /\ to \notin Spawning
        /\ waiting' = waiting /\ sleeping' = sleeping
    BY <1>6 DEF Passes, GoesOn, queueVars, Searching, Spawning
  <2> QED
    BY <2>1 DEF SureIn
<1>7. CASE Sleeps(w)
  <2>1. /\ pc[w] = "sleep" /\ waiting' = waiting /\ sleeping' = Append(sleeping, MyJob(w))
    BY <1>7 DEF Sleeps
  <2>2. SureIn(w) = {MyJob(w)}
    BY <1>0, <1>c, <2>1 DEF SureIn, Spawning
  <2>3. ToSet(sleeping') = ToSet(sleeping) \cup {MyJob(w)}
    BY <1>0, <1>b, <2>1
  <2> QED
    BY <2>1, <2>2, <2>3
<1>8. CASE Drops(w)
  <2>1. /\ pc[w] = "next" /\ pc'[w] = "next" /\ todo[w] # <<>> /\ todo'[w] = Tail(todo[w])
        /\ Droppable(w, Head(todo[w])) /\ cur'[w] = cur[w]
        /\ waiting' = waiting /\ sleeping' = sleeping
    BY <1>8 DEF Drops, GoesOn, queueVars
  <2>2. ToSet(todo[w]) = ToSet(todo'[w]) \cup {Head(todo[w])}
    BY <1>0, <1>a, <2>1
  <2>3. \A x : Droppable(w, x)' <=> Droppable(w, x)
    BY <1>1, <2>1 DEF Droppable, HasRegistered, Reuse, MyJob
  <2>4. \A x \in SureIn(w) : x \in SureIn(w)'
    BY <2>1, <2>2, <2>3 DEF SureIn, Spawning
  <2> QED
    BY <2>1, <2>4
<1>9. CASE Readies(w)
  <2>1. /\ pc[w] = "next" /\ pc'[w] = "enqueue" /\ todo'[w] = todo[w] /\ cur'[w] = cur[w]
        /\ waiting' = waiting /\ sleeping' = sleeping
    BY <1>9 DEF Readies, GoesOn, queueVars
  <2>3. \A x : Droppable(w, x)' <=> Droppable(w, x)
    BY <1>1, <2>1 DEF Droppable, HasRegistered, Reuse, MyJob
  <2>4. \A x \in SureIn(w) : x \in SureIn(w)'
    BY <2>1, <2>3 DEF SureIn, Spawning
  <2> QED
    BY <2>1, <2>4
<1>10. CASE Enqueues(w)
  <2>1. /\ pc[w] = "enqueue" /\ pc'[w] = "next" /\ todo[w] # <<>> /\ todo'[w] = Tail(todo[w])
        /\ cur'[w] = cur[w]
        /\ waiting' = Append(waiting, Head(todo[w])) /\ sleeping' = sleeping
    BY <1>10 DEF Enqueues, GoesOn
  <2>2. Head(todo[w]) \in Job /\ ToSet(todo[w]) = ToSet(todo'[w]) \cup {Head(todo[w])}
    BY <1>0, <1>a, <2>1
  <2>3. ToSet(waiting') = ToSet(waiting) \cup {Head(todo[w])}
    BY <1>0, <1>b, <2>1, <2>2
  <2>4. \A x : Droppable(w, x)' <=> Droppable(w, x)
    BY <1>1, <2>1 DEF Droppable, HasRegistered, Reuse, MyJob
  <2>5. \A x \in SureIn(w) : x \in SureIn(w)' \/ x = Head(todo[w])
    BY <2>1, <2>2, <2>4 DEF SureIn, Spawning
  <2> QED
    BY <2>1, <2>3, <2>5
<1> QED
  BY <1>4, <1>5, <1>6, <1>7, <1>8, <1>9, <1>10 DEF Moves

\* The jobs that replace the job of a worker.
LEMMA SpawnedJobs ==
    ASSUME Typed, NEW w \in Workers, Spawns(w)
    PROVE  LET m == MyJob(w)
           IN  /\ m \in Job /\ SureIn(w) = {m} /\ m \in AllJobs /\ pc[w] = "search"
               /\ UNCHANGED <<queueVars, keep, move, reg, factory, everRemoved, humans, pending, left>>
               /\ \A v \in Workers : v # w => /\ SureIn(v)' = SureIn(v)
                                              /\ pc'[v] = pc[v] /\ todo'[v] = todo[v]
                                              /\ \A x \in ToSet(todo[v]) :
                                                    Droppable(v, x)' <=> Droppable(v, x)
               /\ pc'[w] = "next" /\ cur'[w] = cur[w] /\ ToSet(cur[w]) = {m}
               /\ \E paths \in NextPaths(m.path) :
                     /\ paths # {} /\ paths \subseteq Paths /\ IsFiniteSet(paths)
                     /\ todo'[w] = JobsAt(m.human, m.time, paths)
                     /\ ToSet(todo'[w]) = {JobAt(m.human, m.time, p) : p \in paths}
               /\ \A x \in Job : x \in SureIn(w)' <=>
                     /\ x \in ToSet(todo'[w])
                     /\ ~(Reuse /\ Len(x.path) > Len(m.path) /\ <<x.human, x.time, x.path>> \in reg)
<1> DEFINE m == MyJob(w)
<1>1. pc[w] = "search" /\ m \in Job /\ cur[w] = <<m>>
  BY WorkerState DEF Spawns
<1>2. m.human \in Humans /\ m.time \in Times /\ m.path \in Paths /\ ToSet(cur[w]) = {m}
  BY <1>1, JobFields, OneList
<1>3. /\ \A v \in Workers : v # w => pc'[v] = pc[v] /\ cur'[v] = cur[v] /\ todo'[v] = todo[v]
      /\ UNCHANGED <<queueVars, keep, move, reg, factory, everRemoved, humans, pending, left>>
  <2>1. Moves(w)
    BY DEF Moves
  <2> QED
    BY <2>1, MovedOthers DEF receiverVars, bodyVars, localVars, registryVars, Spawns
<1>4. \A v \in Workers : v # w => /\ SureIn(v)' = SureIn(v)
                                  /\ \A x \in ToSet(todo[v]) : Droppable(v, x)' <=> Droppable(v, x)
  BY <1>3, SureInSame
<1>5. PICK paths \in NextPaths(m.path) :
         paths # {} /\ GoesOn(w, "next", cur[w], JobsAt(m.human, m.time, paths))
  BY DEF Spawns
<1>6. /\ pc'[w] = "next" /\ cur'[w] = cur[w] /\ todo'[w] = JobsAt(m.human, m.time, paths)
  BY <1>5 DEF GoesOn
<1>7. paths \subseteq Paths /\ IsFiniteSet(paths)
  BY <1>2, NextPathsFacts
<1>8. ToSet(todo'[w]) = {JobAt(m.human, m.time, p) : p \in paths}
  BY <1>2, <1>6, <1>7, JobsAtFacts
<1>9. SureIn(w) = {m} /\ m \in AllJobs
  BY <1>1, <1>2, AllJobsOf DEF SureIn, Spawning
<1>10. ASSUME NEW x \in Job
       PROVE  x \in SureIn(w)' <=>
                     /\ x \in ToSet(todo'[w])
                     /\ ~(Reuse /\ Len(x.path) > Len(m.path) /\ <<x.human, x.time, x.path>> \in reg)
  <2>1. MyJob(w)' = m
    BY <1>6 DEF MyJob
  <2>2. Droppable(w, x)' <=>
           Reuse /\ Len(x.path) > Len(m.path) /\ <<x.human, x.time, x.path>> \in reg
    BY <1>3, <2>1 DEF Droppable, HasRegistered, Reuse
  <2>3. x \in SureIn(w)' <=> x \in ToSet(todo'[w]) /\ ~Droppable(w, x)'
    BY <1>6 DEF SureIn, Spawning
  <2> QED
    BY <2>2, <2>3
<1> QED
  BY <1>1, <1>2, <1>3, <1>4, <1>5, <1>6, <1>7, <1>8, <1>9, <1>10

LEMMA SpawnsAlive ==
    ASSUME Typed, Alive, NEW w \in Workers, Spawns(w)
    PROVE  Alive'
<1> DEFINE m == MyJob(w)
<1>1. /\ m \in Job /\ SureIn(w) = {m} /\ m \in AllJobs
      /\ UNCHANGED <<queueVars, keep, move, reg, factory, everRemoved, humans, pending, left>>
      /\ \A v \in Workers : v # w => SureIn(v)' = SureIn(v)
      /\ \A x \in Job : x \in SureIn(w)' <=>
            /\ x \in ToSet(todo'[w])
            /\ ~(Reuse /\ Len(x.path) > Len(m.path) /\ <<x.human, x.time, x.path>> \in reg)
  BY SpawnedJobs
<1>2. PICK paths \in NextPaths(m.path) :
         /\ paths # {} /\ paths \subseteq Paths
         /\ ToSet(todo'[w]) = {JobAt(m.human, m.time, p) : p \in paths}
  BY SpawnedJobs
<1>3. m.human \in Humans /\ m.time \in Times /\ m.path \in Paths /\ m.time \in Nat
  BY <1>1, JobFields, LifecycleAssumption
<1>4. /\ \A q \in paths : /\ m.path \in Prefixes(q)
                          /\ q = m.path \/ Len(q) > Len(m.path)
      /\ IsPrimary(m.path) => \E q \in paths : IsPrimary(q)
  BY <1>2, <1>3, NextPathsFacts
<1> HIDE DEF m
<1>5. \A p \in paths : LET x == JobAt(m.human, m.time, p)
                       IN  /\ x \in Job /\ x.human = m.human /\ x.time = m.time /\ x.path = p
                           /\ x \in ToSet(todo'[w])
  BY <1>2, <1>3, JobFields
<1>6. \A x \in Sure : x \in Sure' \/ x = m
  BY <1>1, SureOf DEF queueVars
<1>7. \A x \in SureIn(w)' : x \in Sure'
  BY SureOf
<1>8. Promoted' = Promoted /\ (Reuse' <=> Reuse)
  BY <1>1 DEF Promoted, Reuse
<1>9. ASSUME Reuse, m.human \notin everRemoved
      PROVE  \E x \in Sure' : x \in Job /\ Beyond(x, m.human, m.time, m.path)
  <2>1. PICK q \in paths : TRUE
    BY <1>2
  <2> DEFINE x == JobAt(m.human, m.time, q)
  <2>2. /\ x \in Job /\ x.human = m.human /\ x.time = m.time /\ x.path = q
        /\ x \in ToSet(todo'[w])
    BY <1>5
  <2> HIDE DEF x
  <2>3. CASE ~(Len(q) > Len(m.path) /\ <<m.human, m.time, q>> \in reg)
    <3>1. x \in Sure'
      BY <1>1, <1>7, <2>2, <2>3
    <3>2. Beyond(x, m.human, m.time, m.path)
      BY <1>4, <2>2 DEF Beyond
    <3> QED
      BY <2>2, <3>1, <3>2
  <2>4. CASE Len(q) > Len(m.path) /\ <<m.human, m.time, q>> \in reg
    <3>1. PICK r : r \in reg /\ r[1] = m.human /\ r[2] = m.time /\ r[3] = q
      BY <2>4
    <3>2. PICK y \in Sure : Beyond(y, m.human, m.time, q)
      BY <1>9, <3>1 DEF Alive
    <3>3. y \in Job /\ q \in Paths
      BY <1>2, SureJobs
    <3>4. y.path \in Paths /\ y.time \in Nat
      BY <3>3, JobFields, LifecycleAssumption
    <3>5. y # m
      <4>1. SUFFICES ASSUME y = m PROVE FALSE
        OBVIOUS
      <4>2. q \in Prefixes(m.path)
        BY <1>3, <3>2, <4>1 DEF Beyond
      <4>3. Len(q) <= Len(m.path) /\ Len(q) \in Nat /\ Len(m.path) \in Nat
        BY <1>3, <3>3, <4>2, PrefixOrder, PathType
      <4> QED
        BY <2>4, <4>3
    <3>6. Beyond(y, m.human, m.time, m.path)
      <4>1. q \in Prefixes(y.path) => m.path \in Prefixes(y.path)
        BY <1>4, <3>4, PrefixOrder
      <4> QED
        BY <3>2, <4>1 DEF Beyond
    <3> QED
      BY <1>6, <3>3, <3>5, <3>6
  <2> QED
    BY <2>3, <2>4
<1>10. ASSUME NEW r \in reg', r[1] \notin everRemoved'
       PROVE  \E x \in Sure' : Beyond(x, r[1], r[2], r[3])
  <2>1. r \in reg /\ r[1] \notin everRemoved /\ Reuse
    BY <1>1, <1>10 DEF Typed
  <2>2. PICK x \in Sure : Beyond(x, r[1], r[2], r[3])
    BY <2>1 DEF Alive
  <2>3. CASE x # m
    BY <1>6, <2>2, <2>3
  <2>4. CASE x = m
    <3>1. m.human \notin everRemoved
      BY <2>1, <2>2, <2>4 DEF Beyond
    <3>2. PICK y \in Sure' : y \in Job /\ Beyond(y, m.human, m.time, m.path)
      BY <1>9, <2>1, <3>1
    <3>3. r[2] \in Times
      BY <2>1 DEF Typed, TypeOK
    <3>4. Beyond(y, r[1], r[2], r[3])
      BY <1>1, <2>2, <2>4, <3>2, <3>3, BeyondOrder
    <3> QED
      BY <3>2, <3>4
  <2> QED
    BY <2>3, <2>4
<1>11. ASSUME ~Reuse, NEW h \in Promoted'
       PROVE  \E x \in Sure' : x.human = h /\ IsPrimary(x.path)
  <2>1. PICK x \in Sure : x.human = h /\ IsPrimary(x.path)
    BY <1>8, <1>11 DEF Alive
  <2>2. CASE x # m
    BY <1>6, <2>1, <2>2
  <2>3. CASE x = m
    <3>1. PICK q \in paths : IsPrimary(q)
      BY <1>4, <2>1, <2>3
    <3> DEFINE y == JobAt(m.human, m.time, q)
    <3>2. y \in Job /\ y.human = m.human /\ y.path = q /\ y \in ToSet(todo'[w])
      BY <1>5
    <3> HIDE DEF y
    <3>3. y \in Sure'
      BY <1>1, <1>7, <1>11, <3>2
    <3> QED
      BY <2>1, <2>3, <3>1, <3>2, <3>3
  <2> QED
    BY <2>2, <2>3
<1>12. Reuse => \A h \in Promoted' : \E t \in Times : <<h, t, <<>>>> \in reg'
  BY <1>1, <1>8 DEF Alive
<1> QED
  BY <1>8, <1>10, <1>11, <1>12 DEF Alive, Beyond

LEMMA WorkerAlive ==
    ASSUME Typed, Owned, Alive, NEW w \in Workers, Worker(w)
    PROVE  Alive'
<1>1. CASE Fail("not in the robot history")
  BY <1>1, FailAlive
<1>2. CASE Spawns(w)
  BY <1>2, SpawnsAlive
<1>3. CASE Moves(w) /\ ~Spawns(w)
  <2>1. UNCHANGED <<factory, reg, everRemoved, humans, pending, left>>
    BY <1>3, MovedOthers DEF receiverVars, bodyVars, localVars, registryVars
  <2>2. Promoted' = Promoted
    BY <2>1 DEF Promoted
  <2>3. \A x \in Sure : x \in Sure' \/ x.human \in everRemoved'
    BY <1>3, <2>1, MovedSure
  <2> QED
    BY <2>1, <2>2, <2>3, StaysAlive, PromotedNotRemoved
<1> QED
  BY <1>1, <1>2, <1>3, WorkerSteps

LEMMA NextAlive == ASSUME Typed, Owned, Alive, AllRooted, [Next]_vars PROVE Alive'
BY PresentAlive, StateAlive, RobotAlive, RemoveAlive, FilterAlive, PurgeAlive, AwakenAlive,
   RefillAlive, PromoteAlive, WorkerAlive, StutterAlive
DEF Next, Receiver, Presents

-----------------------------------------------------------------------------
(* No path has two jobs that are going to be run.                           *)
LEMMA ApartSymmetric == \A x, y : Apart(x, y) <=> Apart(y, x)
BY DEF Apart

LEMMA ApartStays ==
    ASSUME reg \subseteq reg', everRemoved \subseteq everRemoved', UNCHANGED factory
    PROVE  \A x, y : Apart(x, y) => Apart(x, y)'
<1>1. \A x, y : Split(x, y) => Split(x, y)'
  BY DEF Split
<1>2. Reuse' <=> Reuse
  BY DEF Reuse
<1> QED
  BY <1>1, <1>2 DEF Apart

LEMMA CountedOf ==
    /\ Counted("waiting") = ToSet(waiting) /\ Counted("move") = ToSet(move)
    /\ Counted("sleeping") = IF Reuse THEN {} ELSE ToSet(sleeping)
    /\ Counted("keep") = IF Reuse THEN {} ELSE ToSet(keep)
    /\ \A w \in Workers : Counted(w) = SureIn(w)
    /\ Counted("waiting")' = ToSet(waiting') /\ Counted("move")' = ToSet(move')
    /\ Counted("sleeping")' = IF Reuse' THEN {} ELSE ToSet(sleeping')
    /\ Counted("keep")' = IF Reuse' THEN {} ELSE ToSet(keep')
    /\ \A w \in Workers : Counted(w)' = SureIn(w)'
<1>1. /\ SureAt("waiting") = ToSet(waiting) /\ SureAt("sleeping") = ToSet(sleeping)
      /\ SureAt("keep") = ToSet(keep) /\ SureAt("move") = ToSet(move)
      /\ \A w \in Workers : SureAt(w) = SureIn(w)
  BY PlacesOf DEF SureAt
<1>2. /\ SureAt("waiting")' = ToSet(waiting') /\ SureAt("sleeping")' = ToSet(sleeping')
      /\ SureAt("keep")' = ToSet(keep') /\ SureAt("move")' = ToSet(move')
      /\ \A w \in Workers : SureAt(w)' = SureIn(w)'
  BY PlacesOf DEF SureAt
<1>3. \A w \in Workers : w # "sleeping" /\ w # "keep"
  BY PlacesOf
<1> QED
  BY <1>1, <1>2, <1>3 DEF Counted

LEMMA CountedJobs ==
    ASSUME NEW p \in Places, NEW x \in Counted(p)
    PROVE  x \in AllJobs
<1>1. \A w \in Workers : \A y \in SureIn(w) : y \in ToSet(cur[w]) \/ y \in ToSet(todo[w])
  BY DEF SureIn
<1> QED
  BY <1>1, CountedOf, PlacesOf, AllJobsOf

\* The jobs of AllRooted.
IsBusy(x) ==
    \/ x \in ToSet(waiting) \/ x \in ToSet(move)
    \/ \E w \in Workers : x \in ToSet(cur[w]) \/ x \in ToSet(todo[w])

LEMMA BusyOf ==
    /\ AllRooted <=> (Reuse => \A x : IsBusy(x) => Rooted(x))
    /\ AllRooted' <=> (Reuse' => \A x : IsBusy(x)' => Rooted(x)')
    /\ \A x : IsBusy(x) => x \in AllJobs
<1>1. /\ AllRooted <=> (Reuse => \A x : IsBusy(x) => Rooted(x))
      /\ AllRooted' <=> (Reuse' => \A x : IsBusy(x)' => Rooted(x)')
  BY DEF AllRooted, IsBusy
<1>2. \A x : IsBusy(x) => x \in AllJobs
  BY AllJobsOf DEF IsBusy
<1> QED
  BY <1>1, <1>2

LEMMA RootedStays ==
    ASSUME reg \subseteq reg'
    PROVE  \A x : Rooted(x) => Rooted(x)'
BY DEF Rooted

\* What the places of the next state have to fulfil.
SpreadNext ==
    \A p, q \in Places : p # q => \A x \in Counted(p)', y \in Counted(q)' : Apart(x, y)

ListsNext ==
    /\ AllApart(waiting') /\ AllApart(move') /\ \A w \in Workers : AllApart(todo'[w])
    /\ ~Reuse => AllApart(sleeping') /\ AllApart(keep')

ReadyNext == \A w \in Workers : pc'[w] = "enqueue" => ~Droppable(w, Head(todo[w]))'

LEMMA SeparateStep ==
    ASSUME reg \subseteq reg', everRemoved \subseteq everRemoved', UNCHANGED factory,
           AllRooted', ReadyNext, ListsNext, SpreadNext
    PROVE  Separate'
<1>1. \A x, y : Apart(x, y) => Apart(x, y)'
  BY ApartStays
<1>2. Reuse' <=> Reuse
  BY DEF Reuse
<1>3. Places' = Places
  <2>1. DOMAIN Queued = {"waiting", "sleeping", "keep", "move"}
        /\ DOMAIN Queued' = {"waiting", "sleeping", "keep", "move"}
    BY DEF Queued
  <2> QED
    BY <2>1 DEF Places
<1>4. AllApart(waiting)' /\ AllApart(move)' /\ \A w \in Workers : AllApart(todo[w])'
  BY <1>1 DEF ListsNext, AllApart
<1>5. ~Reuse' => AllApart(sleeping)' /\ AllApart(keep)'
  BY <1>1, <1>2 DEF ListsNext, AllApart
<1>6. \A p, q \in Places' : p # q => \A x \in Counted(p)', y \in Counted(q)' : Apart(x, y)'
  BY <1>1, <1>3 DEF SpreadNext
<1> QED
  BY <1>4, <1>5, <1>6 DEF Separate, ReadyNext

\* Jobs that come to one place, and are apart from those at the others.
LEMMA SpreadTo ==
    ASSUME Separate, NEW to, NEW New,
           \A p \in Places : \A x \in Counted(p)' : x \in Counted(p) \/ (p = to /\ x \in New),
           \A x \in New, q \in Places : q # to => \A y \in Counted(q)' : Apart(x, y)
    PROVE  SpreadNext
<1> SUFFICES ASSUME NEW p \in Places, NEW q \in Places, p # q,
                    NEW x \in Counted(p)', NEW y \in Counted(q)'
             PROVE  Apart(x, y)
  BY DEF SpreadNext
<1>1. CASE x \in Counted(p) /\ y \in Counted(q)
  BY <1>1 DEF Separate
<1>2. CASE p = to /\ x \in New
  BY <1>2
<1>3. CASE q = to /\ y \in New
  BY <1>3, ApartSymmetric
<1> QED
  BY <1>1, <1>2, <1>3

LEMMA InitSeparate == Init => Separate
<1> SUFFICES ASSUME Init PROVE Separate
  OBVIOUS
<1>1. ToSet(<<>>) = {} /\ AllApart(<<>>)
  BY EmptyList
<1>2. /\ waiting = <<>> /\ sleeping = <<>> /\ keep = <<>> /\ move = <<>>
      /\ \A w \in Workers : cur[w] = <<>> /\ todo[w] = <<>> /\ pc[w] = "idle"
  BY DEF Init
<1>3. \A x : x \notin AllJobs
  BY <1>1, <1>2, AllJobsOf
<1>4. AllRooted
  BY <1>3, BusyOf
<1>5. \A p \in Places : \A x : x \notin Counted(p)
  BY <1>3, CountedJobs
<1>6. \A w \in Workers : pc[w] # "enqueue"
  BY <1>2
<1> QED
  BY <1>1, <1>2, <1>4, <1>5, <1>6 DEF Separate

\* A step of the receiver that leaves jobs and registry alone.
LEMMA BodySeparate ==
    ASSUME Separate, everRemoved \subseteq everRemoved',
           UNCHANGED <<factory, queueVars, registryVars, workerVars, keep, move>>
    PROVE  Separate'
<1>1. UNCHANGED <<factory, reg, waiting, sleeping, keep, move, pc, cur, todo>>
  BY DEF queueVars, registryVars, workerVars
<1>2. /\ \A w \in Workers : SureIn(w)' = SureIn(w)
      /\ \A w \in Workers : \A x : Droppable(w, x)' <=> Droppable(w, x)
  BY <1>1, SureInSame DEF Droppable, HasRegistered, Reuse, MyJob
<1>3. AllRooted'
  <2>1. Reuse' <=> Reuse
    BY <1>1 DEF Reuse
  <2>2. \A x : Rooted(x) => Rooted(x)'
    BY <1>1, RootedStays
  <2>3. \A x : IsBusy(x)' => IsBusy(x)
    BY <1>1 DEF IsBusy
  <2> QED
    BY <2>1, <2>2, <2>3, BusyOf DEF Separate
<1>4. ReadyNext
  <2>1. \A w \in Workers : Droppable(w, Head(todo[w]))' <=> Droppable(w, Head(todo[w]))
    BY <1>1 DEF Droppable, HasRegistered, Reuse, MyJob
  <2> QED
    BY <1>1, <2>1 DEF Separate, ReadyNext
<1>5. ListsNext
  BY <1>1 DEF Separate, ListsNext
<1>6. \A p \in Places : \A x \in Counted(p)' : x \in Counted(p)
  <2>1. Reuse' <=> Reuse
    BY <1>1 DEF Reuse
  <2> QED
    BY <1>1, <1>2, <2>1, CountedOf, PlacesOf
<1>7. SpreadNext
  BY <1>6 DEF Separate, SpreadNext
<1> QED
  BY <1>1, <1>3, <1>4, <1>5, <1>7, SeparateStep

LEMMA FailSeparate ==
    ASSUME Separate, NEW what, Fail(what)
    PROVE  Separate'
BY BodySeparate DEF Fail, bodyVars, localVars

\* The failures of the receiver that leave it idle.
HistoryFails == Fail("no human instance left") \/ Fail("no mode trace left")

LEMMA HistorySeparate == ASSUME Separate, HistoryFails PROVE Separate'
BY FailSeparate DEF HistoryFails

LEMMA StateSeparate ==
    ASSUME Typed, NEW t \in Times, NEW bodies \in SUBSET Humans, NEW empty \in SUBSET bodies,
           HumanState(t, bodies, empty)
    PROVE  \/ HistoryFails
           \/ /\ everRemoved \subseteq everRemoved'
              /\ UNCHANGED <<factory, queueVars, registryVars, workerVars, keep, move>>
<1>1. CASE Fail("no human instance left")
  BY <1>1 DEF HistoryFails
<1>2. CASE StateChange(t, bodies, empty)
  BY <1>2 DEF StateChange
<1> QED
  BY <1>1, <1>2, HumanStateSteps DEF Typed

LEMMA RobotSeparate ==
    ASSUME NEW t \in Times, RobotState(t) \/ RobotPurge(t)
    PROVE  \/ HistoryFails
           \/ /\ everRemoved \subseteq everRemoved'
              /\ UNCHANGED <<factory, queueVars, registryVars, workerVars, keep, move>>
<1>1. CASE Fail("no mode trace left")
  BY <1>1 DEF HistoryFails
<1>2. CASE ~Fail("no mode trace left")
  <2>1. /\ UNCHANGED <<factory, humans, everRemoved, pending, left, queueVars, registryVars, workerVars,
                      keep, move>>
    BY <1>2 DEF RobotState, RobotPurge
  <2> QED
    BY <2>1
<1> QED
  BY <1>1, <1>2

LEMMA ReceiverSeparate ==
    ASSUME Typed, Separate,
           \/ Presents
           \/ \E t \in Times, bodies \in SUBSET Humans :
                 \E empty \in SUBSET bodies : HumanState(t, bodies, empty)
           \/ \E t \in Times : RobotState(t) \/ RobotPurge(t)
           \/ RemoveHumans \/ Filter \/ FilterEnd \/ HandlerEnd \/ UNCHANGED vars
    PROVE  Separate'
<1>1. CASE HistoryFails
  BY <1>1, HistorySeparate
<1>2. CASE ~HistoryFails
  <2>1. /\ everRemoved \subseteq everRemoved'
        /\ UNCHANGED <<factory, queueVars, registryVars, workerVars, keep, move>>
    <3>1. CASE Presents
      BY <3>1 DEF Presents, PresentCheck, PresentPush, PresentInsert, localVars
    <3>2. CASE \E t \in Times, bodies \in SUBSET Humans :
                 \E empty \in SUBSET bodies : HumanState(t, bodies, empty)
      <4>1. PICK t \in Times, bodies \in SUBSET Humans :
               \E empty \in SUBSET bodies : HumanState(t, bodies, empty)
        BY <3>2
      <4>3. PICK empty \in SUBSET bodies : HumanState(t, bodies, empty)
        BY <4>1
      <4> QED
        BY <1>2, <4>3, StateSeparate
    <3>3. CASE \E t \in Times : RobotState(t) \/ RobotPurge(t)
      BY <1>2, <3>3, RobotSeparate
    <3>4. CASE RemoveHumans
      BY <3>4 DEF RemoveHumans
    <3>5. CASE Filter
      BY <3>5 DEF Filter, KeepPair, DropPair, bodyVars
    <3>6. CASE FilterEnd \/ HandlerEnd \/ UNCHANGED vars
      BY <3>6 DEF FilterEnd, HandlerEnd, vars, bodyVars, localVars
    <3> QED
      BY <3>1, <3>2, <3>3, <3>4, <3>5, <3>6
  <2> QED
    BY <2>1, BodySeparate
<1> QED
  BY <1>1, <1>2


-----------------------------------------------------------------------------
(* A worker keeps the jobs apart.                                           *)
LEMMA AcceptableApart ==
    ASSUME NEW x \in Job, NEW y \in Job, Reuse, Acceptable(x.human, x.time, x.path), Rooted(y)
    PROVE  Apart(x, y)
<1> SUFFICES ASSUME x.human = y.human, x.time = y.time
             PROVE  Split(x, y) /\ Split(y, x)
  BY DEF Apart
<1>1. x.path \in Paths /\ y.path \in Paths
  BY JobFields
<1>2. PICK q \in Prefixes(y.path) : <<y.human, y.time, q>> \in reg
  BY DEF Rooted
<1>3. \A p \in Prefixes(x.path) : <<y.human, y.time, p>> \notin reg
  BY DEF Acceptable
<1>4. q \in Paths /\ Len(q) \in Nat /\ Len(x.path) \in Nat
  BY <1>1, <1>2, PrefixOrder, PathType
<1>5. ASSUME x.path \in Prefixes(y.path)
      PROVE  Len(q) > Len(x.path)
  <2>1. Len(q) <= Len(x.path) => q \in Prefixes(x.path)
    BY <1>1, <1>2, <1>5, PrefixOrder
  <2> QED
    BY <1>2, <1>3, <1>4, <2>1
<1>6. y.path \notin Prefixes(x.path)
  BY <1>1, <1>2, <1>3, PrefixOrder
<1> QED
  BY <1>2, <1>5, <1>6 DEF Split

LEMMA SubstituteApart ==
    ASSUME ~Reuse, NEW j, NEW x, NEW y, x.human = j.human, IsPrimary(x.path) => IsPrimary(j.path),
           Apart(j, y)
    PROVE  Apart(x, y)
BY DEF Apart

\* A job that comes from one place to another, and is apart from what stays.
LEMMA SpreadFrom ==
    ASSUME Separate, NEW from \in Places, NEW to, from # to, NEW x \in Counted(from),
           \A p \in Places : \A z \in Counted(p)' : z \in Counted(p) \/ (p = to /\ z = x),
           \A y \in Counted(from)' : Apart(x, y)
    PROVE  SpreadNext
<1>1. ASSUME NEW q \in Places, q # to, NEW y \in Counted(q)'
      PROVE  Apart(x, y)
  <2>1. CASE q = from
    BY <1>1, <2>1
  <2>2. CASE q # from
    <3>1. y \in Counted(q)
      BY <1>1
    <3> QED
      BY <2>2, <3>1 DEF Separate
  <2> QED
    BY <2>1, <2>2
<1> DEFINE New == {x}
<1>2. /\ \A p \in Places : \A z \in Counted(p)' : z \in Counted(p) \/ (p = to /\ z \in New)
      /\ \A z \in New, q \in Places : q # to => \A y \in Counted(q)' : Apart(z, y)
  BY <1>1
<1> HIDE DEF New
<1> QED
  BY <1>2, SpreadTo

LEMMA SpreadLess ==
    ASSUME Separate, \A p \in Places : \A x \in Counted(p)' : x \in Counted(p)
    PROVE  SpreadNext
BY DEF Separate, SpreadNext

\* Only the queues and the worker that moves change.
LEMMA MovedCounted ==
    ASSUME NEW w \in Workers, Moves(w)
    PROVE  /\ (Reuse' <=> Reuse) /\ everRemoved' = everRemoved /\ reg' = reg /\ factory' = factory
           /\ Counted("keep")' = Counted("keep") /\ Counted("move")' = Counted("move")
           /\ \A v \in Workers : v # w => Counted(v)' = Counted(v)
<1>1. /\ \A v \in Workers : v # w => pc'[v] = pc[v] /\ cur'[v] = cur[v] /\ todo'[v] = todo[v]
      /\ UNCHANGED <<factory, reg, keep, move, everRemoved>>
  BY MovedOthers DEF receiverVars, bodyVars, localVars, registryVars
<1>2. \A v \in Workers : v # w => SureIn(v)' = SureIn(v)
  BY <1>1, SureInSame
<1>3. Reuse' <=> Reuse
  BY <1>1 DEF Reuse
<1> QED
  BY <1>1, <1>2, <1>3, CountedOf

LEMMA MovedSeparate ==
    ASSUME Typed, Separate, NEW w \in Workers, Moves(w),
           Reuse => \A x \in ToSet(todo'[w]) : Rooted(x),
           pc'[w] = "enqueue" => ~Droppable(w, Head(todo[w]))',
           AllApart(waiting'), AllApart(todo'[w]), ~Reuse => AllApart(sleeping'),
           SpreadNext
    PROVE  Separate'
<1>1. /\ \A v \in Workers : v # w => pc'[v] = pc[v] /\ cur'[v] = cur[v] /\ todo'[v] = todo[v]
      /\ UNCHANGED <<factory, reg, keep, move, everRemoved>>
  BY MovedOthers DEF receiverVars, bodyVars, localVars, registryVars
<1>2. AllRooted'
  <2>1. /\ ToSet(waiting') \subseteq ToSet(waiting) \cup ToSet(todo[w])
        /\ ToSet(cur'[w]) \subseteq ToSet(cur[w]) \cup ToSet(waiting)
    BY MovedLists
  <2>2. \A x : IsBusy(x)' => IsBusy(x) \/ x \in ToSet(todo'[w])
    BY <1>1, <2>1 DEF IsBusy
  <2>3. Reuse' <=> Reuse
    BY <1>1 DEF Reuse
  <2>4. \A x : Rooted(x) => Rooted(x)'
    BY <1>1, RootedStays
  <2> QED
    BY <2>2, <2>3, <2>4, BusyOf DEF Separate
<1>3. ReadyNext
  <2>1. \A v \in Workers : v # w => (Droppable(v, Head(todo[v]))' <=> Droppable(v, Head(todo[v])))
    BY <1>1 DEF Droppable, HasRegistered, Reuse, MyJob
  <2> QED
    BY <1>1, <2>1 DEF Separate, ReadyNext
<1>4. ListsNext
  BY <1>1 DEF Separate, ListsNext
<1> QED
  BY <1>1, <1>2, <1>3, <1>4, SeparateStep

LEMMA MovesSeparate ==
    ASSUME Typed, Separate, NEW w \in Workers, Moves(w), ~Spawns(w)
    PROVE  Separate'
<1>0. /\ todo[w] \in Seq(Job) /\ waiting \in Seq(Job) /\ sleeping \in Seq(Job)
      /\ pc[w] # "idle" => MyJob(w) \in Job /\ cur[w] = <<MyJob(w)>>
      /\ pc[w] = "idle" => cur[w] = <<>>
      /\ pc[w] \notin Spawning => todo[w] = <<>>
  BY WorkerState DEF Typed
<1>a. \A s \in Seq(Job) : s # <<>> =>
         /\ Head(s) \in Job /\ Tail(s) \in Seq(Job) /\ ToSet(s) = ToSet(Tail(s)) \cup {Head(s)}
         /\ AllApart(s) => /\ AllApart(Tail(s))
                           /\ \A y \in ToSet(Tail(s)) : Apart(Head(s), y) /\ Apart(y, Head(s))
  BY TailList
<1>b. \A s \in Seq(Job), x \in Job :
         /\ ToSet(Append(s, x)) = ToSet(s) \cup {x}
         /\ AllApart(s) /\ (\A y \in ToSet(s) : Apart(x, y) /\ Apart(y, x)) => AllApart(Append(s, x))
  BY AppendList
<1>c. \A x \in Job : ToSet(<<x>>) = {x}
  BY OneList
<1>d. PICK e : e = <<>> /\ ToSet(e) = {} /\ AllApart(e)
  BY EmptyList
<1>e. /\ AllApart(waiting) /\ AllApart(todo[w]) /\ (~Reuse => AllApart(sleeping))
      /\ Reuse => \A x : IsBusy(x) => Rooted(x)
      /\ \A p, q \in Places : p # q => \A x \in Counted(p), y \in Counted(q) : Apart(x, y)
      /\ pc[w] = "enqueue" => ~Droppable(w, Head(todo[w]))
  BY BusyOf DEF Separate
<1>f. /\ (Reuse' <=> Reuse) /\ reg' = reg /\ factory' = factory
      /\ Counted("keep")' = Counted("keep") /\ Counted("move")' = Counted("move")
      /\ \A v \in Workers : v # w => Counted(v)' = Counted(v)
  BY MovedCounted
<1>g. \A x \in ToSet(todo[w]) : IsBusy(x)
  BY DEF IsBusy
<1>h. /\ Places = {"waiting", "sleeping", "keep", "move"} \cup Workers
      /\ w # "waiting" /\ w # "sleeping" /\ w # "keep" /\ w # "move"
  BY PlacesOf
<1>i. /\ Counted("waiting") = ToSet(waiting) /\ Counted(w) = SureIn(w)
      /\ Counted("sleeping") = IF Reuse THEN {} ELSE ToSet(sleeping)
      /\ Counted("waiting")' = ToSet(waiting') /\ Counted(w)' = SureIn(w)'
      /\ Counted("sleeping")' = IF Reuse' THEN {} ELSE ToSet(sleeping')
  BY CountedOf
<1>4. CASE Takes(w)
  <2>1. /\ pc[w] = "idle" /\ waiting # <<>> /\ waiting' = Tail(waiting) /\ sleeping' = sleeping
        /\ pc'[w] = "check" /\ cur'[w] = <<Head(waiting)>> /\ todo'[w] = e
    BY <1>4, <1>d DEF Takes, GoesOn
  <2>2. /\ Head(waiting) \in Job /\ ToSet(waiting) = ToSet(waiting') \cup {Head(waiting)}
        /\ AllApart(waiting') /\ \A y \in ToSet(waiting') : Apart(Head(waiting), y)
    BY <1>0, <1>a, <1>e, <2>1
  <2>3. SureIn(w)' = {Head(waiting)}
    BY <1>c, <2>1, <2>2 DEF SureIn, Spawning
  <2>4. \A p \in Places : \A x \in Counted(p)' :
           x \in Counted(p) \/ (p = w /\ x = Head(waiting))
    BY <1>f, <1>h, <1>i, <2>1, <2>2, <2>3
  <2>5. SpreadNext
    BY <1>h, <1>i, <2>2, <2>4, SpreadFrom
  <2> QED
    BY <1>d, <1>e, <2>1, <2>2, <2>5, MovedSeparate
<1>5. CASE Leaves(w)
  <2>1. waiting' = waiting /\ sleeping' = sleeping /\ pc'[w] = "idle" /\ cur'[w] = e /\ todo'[w] = e
    BY <1>5, <1>d DEF Leaves, GoesOn, queueVars
  <2>2. SureIn(w)' = {}
    BY <1>d, <2>1 DEF SureIn, Spawning
  <2>3. \A p \in Places : \A x \in Counted(p)' : x \in Counted(p)
    BY <1>f, <1>h, <1>i, <2>1, <2>2
  <2>4. SpreadNext
    BY <2>3, SpreadLess
  <2> QED
    BY <1>d, <1>e, <2>1, <2>4, MovedSeparate
<1>6. ASSUME NEW from, NEW to, Passes(w, from, to)
      PROVE  Separate'
  <2>1. /\ pc[w] = from /\ pc'[w] = to /\ cur'[w] = cur[w] /\ from \notin Spawning /\ to \notin Spawning
        /\ to # "enqueue" /\ waiting' = waiting /\ sleeping' = sleeping /\ todo'[w] = e
    BY <1>6, <1>d DEF Passes, GoesOn, queueVars, Searching, Spawning
  <2>2. SureIn(w)' = SureIn(w)
    BY <2>1 DEF SureIn
  <2>3. \A p \in Places : \A x \in Counted(p)' : x \in Counted(p)
    BY <1>f, <1>h, <1>i, <2>1, <2>2
  <2>4. SpreadNext
    BY <2>3, SpreadLess
  <2> QED
    BY <1>d, <1>e, <2>1, <2>4, MovedSeparate
<1>7. CASE Sleeps(w)
  <2>1. /\ pc[w] = "sleep" /\ waiting' = waiting /\ sleeping' = Append(sleeping, MyJob(w))
        /\ pc'[w] = "idle" /\ cur'[w] = e /\ todo'[w] = e /\ MyJob(w) \in Job
    BY <1>0, <1>7, <1>d DEF Sleeps, GoesOn
  <2>2. SureIn(w) = {MyJob(w)} /\ SureIn(w)' = {}
    BY <1>0, <1>c, <1>d, <2>1 DEF SureIn, Spawning
  <2>3. ToSet(sleeping') = ToSet(sleeping) \cup {MyJob(w)}
    BY <1>0, <1>b, <2>1
  <2>4. \A p \in Places : \A x \in Counted(p)' :
           x \in Counted(p) \/ (p = "sleeping" /\ x = MyJob(w))
    BY <1>f, <1>h, <1>i, <2>1, <2>2, <2>3
  <2>a. /\ w \in Places /\ "sleeping" \in Places /\ w # "sleeping" /\ MyJob(w) \in Counted(w)
        /\ \A y \in Counted(w)' : Apart(MyJob(w), y)
    BY <1>h, <1>i, <2>2
  <2>5. SpreadNext
    BY <2>4, <2>a, SpreadFrom
  <2>6. ~Reuse => AllApart(sleeping')
    <3>1. ~Reuse => \A y \in ToSet(sleeping) : Apart(MyJob(w), y) /\ Apart(y, MyJob(w))
      <4>1. ~Reuse => \A y \in ToSet(sleeping) : y \in Counted("sleeping")
        BY <1>i
      <4> QED
        BY <1>e, <2>a, <4>1
    <3> QED
      BY <1>0, <1>b, <1>e, <2>1, <3>1
  <2> QED
    BY <1>d, <1>e, <2>1, <2>5, <2>6, MovedSeparate
<1>8. CASE Drops(w)
  <2>1. /\ pc[w] = "next" /\ pc'[w] = "next" /\ todo[w] # <<>> /\ todo'[w] = Tail(todo[w])
        /\ cur'[w] = cur[w] /\ waiting' = waiting /\ sleeping' = sleeping
    BY <1>8 DEF Drops, GoesOn, queueVars
  <2>2. ToSet(todo[w]) = ToSet(todo'[w]) \cup {Head(todo[w])} /\ AllApart(todo'[w])
    BY <1>0, <1>a, <1>e, <2>1
  <2>3. \A x : Droppable(w, x)' <=> Droppable(w, x)
    BY <1>f, <2>1 DEF Droppable, HasRegistered, Reuse, MyJob
  <2>4. \A x \in SureIn(w)' : x \in SureIn(w)
    BY <2>1, <2>2, <2>3 DEF SureIn, Spawning
  <2>5. \A p \in Places : \A x \in Counted(p)' : x \in Counted(p)
    BY <1>f, <1>h, <1>i, <2>1, <2>4
  <2>6. SpreadNext
    BY <2>5, SpreadLess
  <2>7. Reuse => \A x \in ToSet(todo'[w]) : Rooted(x)
    BY <1>e, <1>g, <2>2
  <2> QED
    BY <1>e, <2>1, <2>2, <2>6, <2>7, MovedSeparate
<1>9. CASE Readies(w)
  <2>1. /\ pc[w] = "next" /\ pc'[w] = "enqueue" /\ todo'[w] = todo[w] /\ cur'[w] = cur[w]
        /\ waiting' = waiting /\ sleeping' = sleeping /\ ~Droppable(w, Head(todo[w]))
    BY <1>9 DEF Readies, GoesOn, queueVars
  <2>2. Droppable(w, Head(todo[w]))' <=> Droppable(w, Head(todo[w]))
    BY <1>f, <2>1 DEF Droppable, HasRegistered, Reuse, MyJob
  <2>3. \A x : Droppable(w, x)' <=> Droppable(w, x)
    BY <1>f, <2>1 DEF Droppable, HasRegistered, Reuse, MyJob
  <2>4. \A x \in SureIn(w)' : x \in SureIn(w)
    BY <2>1, <2>3 DEF SureIn, Spawning
  <2>5. \A p \in Places : \A x \in Counted(p)' : x \in Counted(p)
    BY <1>f, <1>h, <1>i, <2>1, <2>4
  <2>6. SpreadNext
    BY <2>5, SpreadLess
  <2>7. Reuse => \A x \in ToSet(todo'[w]) : Rooted(x)
    BY <1>e, <1>g, <2>1
  <2> QED
    BY <1>e, <2>1, <2>2, <2>6, <2>7, MovedSeparate
<1>10. CASE Enqueues(w)
  <2>1. /\ pc[w] = "enqueue" /\ pc'[w] = "next" /\ todo[w] # <<>> /\ todo'[w] = Tail(todo[w])
        /\ cur'[w] = cur[w]
        /\ waiting' = Append(waiting, Head(todo[w])) /\ sleeping' = sleeping
    BY <1>10 DEF Enqueues, GoesOn
  <2>2. /\ Head(todo[w]) \in Job /\ ToSet(todo[w]) = ToSet(todo'[w]) \cup {Head(todo[w])}
        /\ AllApart(todo'[w]) /\ \A y \in ToSet(todo'[w]) : Apart(Head(todo[w]), y)
    BY <1>0, <1>a, <1>e, <2>1
  <2>3. ToSet(waiting') = ToSet(waiting) \cup {Head(todo[w])}
    BY <1>0, <1>b, <2>1, <2>2
  <2>4. \A x : Droppable(w, x)' <=> Droppable(w, x)
    BY <1>f, <2>1 DEF Droppable, HasRegistered, Reuse, MyJob
  <2>5. /\ \A x \in SureIn(w)' : x \in SureIn(w) /\ x \in ToSet(todo'[w])
        /\ Head(todo[w]) \in SureIn(w)
    BY <1>e, <2>1, <2>2, <2>4 DEF SureIn, Spawning
  <2>6. \A p \in Places : \A x \in Counted(p)' :
           x \in Counted(p) \/ (p = "waiting" /\ x = Head(todo[w]))
    BY <1>f, <1>h, <1>i, <2>1, <2>3, <2>5
  <2>7. \A y \in Counted(w)' : Apart(Head(todo[w]), y)
    BY <1>i, <2>2, <2>5
  <2>8. SpreadNext
    <3>1. w \in Places /\ "waiting" \in Places /\ w # "waiting" /\ Head(todo[w]) \in Counted(w)
      BY <1>h, <1>i, <2>5
    <3> QED
      BY <2>6, <2>7, <3>1, SpreadFrom
  <2>9. AllApart(waiting')
    <3>1. \A y \in ToSet(waiting) : Apart(Head(todo[w]), y) /\ Apart(y, Head(todo[w]))
      BY <1>e, <1>h, <1>i, <2>5
    <3> QED
      BY <1>0, <1>b, <1>e, <2>1, <2>2, <3>1
  <2>10. Reuse => \A x \in ToSet(todo'[w]) : Rooted(x)
    BY <1>e, <1>g, <2>2
  <2> QED
    BY <1>e, <2>1, <2>2, <2>8, <2>9, <2>10, MovedSeparate
<1> QED
  BY <1>4, <1>5, <1>6, <1>7, <1>8, <1>9, <1>10 DEF Moves

\* The next jobs that are not registered are apart from all that the job is apart from.
LEMMA NextApart ==
    ASSUME NEW m \in Job, NEW x \in Job, NEW y \in Job, NEW paths \in NextPaths(m.path),
           x.human = m.human, x.time = m.time, x.path \in paths,
           ~(Reuse /\ Len(x.path) > Len(m.path) /\ <<x.human, x.time, x.path>> \in reg),
           Apart(m, y)
    PROVE  Apart(x, y)
<1> DEFINE p == x.path
<1>1. /\ m.path \in Paths /\ p \in Paths /\ y.path \in Paths
      /\ m.path \in Prefixes(p) /\ (p = m.path \/ Len(p) > Len(m.path))
      /\ \A r \in Prefixes(p) : r = p \/ r \in Prefixes(m.path)
      /\ IsPrimary(p) => IsPrimary(m.path)
  BY JobFields, NextPathsFacts
<1>2. CASE ~Reuse
  BY <1>1, <1>2 DEF Apart
<1>3. CASE Reuse
  <2> SUFFICES ASSUME x.human = y.human, x.human \notin everRemoved, x.time = y.time
               PROVE  Split(x, y) /\ Split(y, x)
    BY <1>3 DEF Apart
  <2>1. Split(m, y) /\ Split(y, m)
    BY <1>3 DEF Apart
  <2>2. \A r \in Paths : Len(r) \in Nat
    BY PathType
  <2>3. ASSUME NEW r \in Prefixes(p), Len(r) > Len(m.path), <<y.human, y.time, r>> \in reg
        PROVE  FALSE
    <3>1. r = p \/ Len(r) <= Len(m.path)
      BY <1>1, <2>3, PrefixOrder
    <3>2. r \in Paths
      BY <1>1, <2>3, PrefixOrder
    <3>3. r = p
      BY <1>1, <2>2, <2>3, <3>1, <3>2
    <3> QED
      BY <1>3, <2>3, <3>3
  <2>4. ASSUME p \in Prefixes(y.path)
        PROVE  \E r \in Prefixes(y.path) : Len(r) > Len(p) /\ <<y.human, y.time, r>> \in reg
    <3>1. m.path \in Prefixes(y.path)
      BY <1>1, <2>4, PrefixOrder
    <3>2. PICK r \in Prefixes(y.path) : Len(r) > Len(m.path) /\ <<y.human, y.time, r>> \in reg
      BY <2>1, <3>1 DEF Split
    <3>3. Len(r) <= Len(p) => r \in Prefixes(p)
      BY <1>1, <2>4, PrefixOrder
    <3>4. r \in Paths
      BY <1>1, PrefixOrder
    <3>5. r \notin Prefixes(p)
      BY <2>3, <3>2
    <3>6. Len(r) > Len(p)
      BY <1>1, <2>2, <3>3, <3>4, <3>5
    <3> QED
      BY <3>2, <3>6
  <2>5. ASSUME y.path \in Prefixes(p)
        PROVE  \E r \in Prefixes(p) : Len(r) > Len(y.path) /\ <<x.human, x.time, r>> \in reg
    <3>1. CASE y.path \in Prefixes(m.path)
      <4>1. PICK r \in Prefixes(m.path) : Len(r) > Len(y.path) /\ <<m.human, m.time, r>> \in reg
        BY <2>1, <3>1 DEF Split
      <4>2. r \in Prefixes(p)
        BY <1>1, PrefixOrder
      <4> QED
        BY <4>1, <4>2
    <3>2. CASE y.path = p
      <4>1. m.path \in Prefixes(y.path)
        BY <1>1, <3>2
      <4>2. PICK r \in Prefixes(y.path) : Len(r) > Len(m.path) /\ <<y.human, y.time, r>> \in reg
        BY <2>1, <4>1 DEF Split
      <4> QED
        BY <2>3, <3>2, <4>2
    <3> QED
      BY <1>1, <2>5, <3>1, <3>2
  <2> QED
    BY <2>4, <2>5 DEF Split
<1> QED
  BY <1>2, <1>3

LEMMA SpawnsSeparate ==
    ASSUME Typed, Separate, NEW w \in Workers, Spawns(w)
    PROVE  Separate'
<1> DEFINE m == MyJob(w)
<1>1. /\ m \in Job /\ SureIn(w) = {m}
      /\ UNCHANGED <<queueVars, keep, move>>
      /\ pc'[w] = "next" /\ ToSet(cur[w]) = {m}
      /\ \A x \in Job : x \in SureIn(w)' <=>
            /\ x \in ToSet(todo'[w])
            /\ ~(Reuse /\ Len(x.path) > Len(m.path) /\ <<x.human, x.time, x.path>> \in reg)
  BY SpawnedJobs
<1>2. PICK paths \in NextPaths(m.path) :
         /\ paths \subseteq Paths /\ IsFiniteSet(paths)
         /\ todo'[w] = JobsAt(m.human, m.time, paths)
         /\ ToSet(todo'[w]) = {JobAt(m.human, m.time, p) : p \in paths}
  BY SpawnedJobs
<1> HIDE DEF m
<1>3. m.human \in Humans /\ m.time \in Times /\ m.path \in Paths
  BY <1>1, JobFields
<1>4. \A x \in ToSet(todo'[w]) :
         x \in Job /\ x.human = m.human /\ x.time = m.time /\ x.path \in paths
  BY <1>2, <1>3, JobFields
<1>5. Moves(w)
  BY DEF Moves
<1>6. \A x \in SureIn(w)' : x \in ToSet(todo'[w])
  BY <1>1 DEF SureIn, Spawning
<1>7. /\ \A p \in Places : p # w => Counted(p)' = Counted(p)
      /\ Counted(w) = SureIn(w) /\ Counted(w)' = SureIn(w)'
  BY <1>1, <1>5, MovedCounted, CountedOf, PlacesOf DEF queueVars
<1>8. ASSUME NEW x \in SureIn(w)', NEW q \in Places, q # w, NEW y \in Counted(q)'
      PROVE  Apart(x, y)
  <2>1. y \in Counted(q)
    BY <1>7, <1>8
  <2>2. y \in Job
    BY <2>1, CountedJobs, JobsTyped
  <2>3. Apart(m, y)
    <3>1. w \in Places /\ m \in Counted(w)
      BY <1>1, <1>7, PlacesOf
    <3> QED
      BY <1>8, <2>1, <3>1 DEF Separate
  <2>4. x \in Job /\ x.human = m.human /\ x.time = m.time /\ x.path \in paths
    BY <1>4, <1>6, <1>8
  <2>5. ~(Reuse /\ Len(x.path) > Len(m.path) /\ <<x.human, x.time, x.path>> \in reg)
    BY <1>1, <1>8, <2>4
  <2> QED
    BY <1>1, <2>2, <2>3, <2>4, <2>5, NextApart
<1>9. SpreadNext
  <2> DEFINE New == SureIn(w)'
  <2>1. \A p \in Places : \A x \in Counted(p)' : x \in Counted(p) \/ (p = w /\ x \in New)
    BY <1>7
  <2>2. \A x \in New, q \in Places : q # w => \A y \in Counted(q)' : Apart(x, y)
    BY <1>8
  <2> HIDE DEF New
  <2> QED
    BY <2>1, <2>2, SpreadTo
<1>10. AllApart(todo'[w])
  <2>1. ASSUME NEW p \in paths, NEW q \in paths, p # q
        PROVE  Apart(JobAt(m.human, m.time, p), JobAt(m.human, m.time, q))
    <3>1. /\ p \in Paths /\ q \in Paths /\ Len(p) = Len(q)
          /\ ~(IsPrimary(p) /\ IsPrimary(q))
      BY <1>2, <1>3, <2>1, NextPathsFacts
    <3>2. p \notin Prefixes(q) /\ q \notin Prefixes(p)
      BY <2>1, <3>1, PrefixOrder
    <3> QED
      BY <3>1, <3>2, JobFields DEF Apart, Split
  <2>2. AllApart(JobsAt(m.human, m.time, paths))
    BY <1>2, <1>3, <2>1, JobsAtFacts
  <2> QED
    BY <1>2, <2>2
<1>11. ASSUME Reuse, NEW x \in ToSet(todo'[w])
       PROVE  Rooted(x)
  <2>1. Rooted(m)
    <3>1. IsBusy(m)
      BY <1>1 DEF IsBusy
    <3> QED
      BY <1>11, <3>1, BusyOf DEF Separate
  <2>2. m.path \in Prefixes(x.path) /\ x.path \in Paths
    BY <1>3, <1>4, <1>11, JobFields, NextPathsFacts
  <2>3. Prefixes(m.path) \subseteq Prefixes(x.path)
    BY <2>2, PrefixOrder
  <2> QED
    BY <1>4, <1>11, <2>1, <2>3 DEF Rooted
<1>12. AllApart(waiting') /\ (~Reuse => AllApart(sleeping')) /\ pc'[w] # "enqueue"
  BY <1>1 DEF Separate, queueVars
<1> QED
  BY <1>5, <1>9, <1>10, <1>11, <1>12, MovedSeparate

LEMMA WorkerSeparate ==
    ASSUME Typed, Separate, NEW w \in Workers, Worker(w)
    PROVE  Separate'
<1>1. CASE Fail("not in the robot history")
  BY <1>1, FailSeparate
<1>2. CASE Spawns(w)
  BY <1>2, SpawnsSeparate
<1>3. CASE Moves(w) /\ ~Spawns(w)
  BY <1>3, MovesSeparate
<1> QED
  BY <1>1, <1>2, <1>3, WorkerSteps

-----------------------------------------------------------------------------
(* The receiver keeps the jobs apart.                                       *)
LEMMA QueuesSeparate ==
    ASSUME Typed, Separate, reg \subseteq reg', everRemoved \subseteq everRemoved',
           UNCHANGED <<factory, workerVars>>,
           \A w \in Workers : \A x \in ToSet(todo[w]) : Droppable(w, x)' <=> Droppable(w, x),
           Reuse => \A x : x \in ToSet(waiting') \/ x \in ToSet(move') => Rooted(x)',
           AllApart(waiting'), AllApart(move'),
           ~Reuse => AllApart(sleeping') /\ AllApart(keep'),
           SpreadNext
    PROVE  Separate'
<1>1. UNCHANGED <<factory, pc, cur, todo>> /\ (Reuse' <=> Reuse)
  BY DEF workerVars, Reuse
<1>2. AllRooted'
  <2>1. \A x : IsBusy(x)' => IsBusy(x) \/ x \in ToSet(waiting') \/ x \in ToSet(move')
    BY <1>1 DEF IsBusy
  <2>2. \A x : Rooted(x) => Rooted(x)'
    BY RootedStays
  <2> QED
    BY <1>1, <2>1, <2>2, BusyOf DEF Separate
<1>3. ReadyNext
  <2>1. ASSUME NEW w \in Workers, pc'[w] = "enqueue"
        PROVE  ~Droppable(w, Head(todo[w]))'
    <3>1. pc[w] = "enqueue" /\ todo[w] # <<>> /\ todo[w] \in Seq(Job)
      BY <1>1, <2>1, WorkerState DEF Typed
    <3>2. PICK x : x = Head(todo[w]) /\ x \in ToSet(todo[w])
      BY <3>1, TailList
    <3>3. ~Droppable(w, x)'
      BY <3>1, <3>2 DEF Separate
    <3>4. Head(todo'[w]) = x
      BY <1>1, <3>2
    <3> QED
      BY <3>3, <3>4
  <2> QED
    BY <2>1 DEF ReadyNext
<1>4. ListsNext
  BY <1>1 DEF Separate, ListsNext
<1> QED
  BY <1>1, <1>2, <1>3, <1>4, SeparateStep

\* What the worker's places are in the next state.
LEMMA QueuesCounted ==
    ASSUME UNCHANGED factory, \A w \in Workers : SureIn(w)' = SureIn(w)
    PROVE  /\ Reuse' <=> Reuse
           /\ \A w \in Workers : Counted(w)' = Counted(w)
           /\ waiting' = waiting => Counted("waiting")' = Counted("waiting")
           /\ move' = move => Counted("move")' = Counted("move")
           /\ Reuse => \A p \in {"sleeping", "keep"} : \A x : x \notin Counted(p) /\ x \notin Counted(p)'
<1>1. Reuse' <=> Reuse
  BY DEF Reuse
<1> QED
  BY <1>1, CountedOf

LEMMA DrainedSeparate ==
    ASSUME Typed, Separate, NEW j, NEW t, Drained(j, t)
    PROVE  Separate'
<1> DEFINE h == j.human
<1>1. /\ UNCHANGED <<factory, workerVars, everRemoved, waiting>>
      /\ j \in Job /\ h \in Humans /\ j.path \in Paths
      /\ sleeping # <<>> /\ j = Head(sleeping) /\ sleeping' = Tail(sleeping)
  BY JobFields DEF Drained, bodyVars
<1>2. /\ keep \in Seq(Job) /\ move \in Seq(Job) /\ sleeping \in Seq(Job)
  BY DEF Typed
<1>3. /\ ToSet(sleeping) = ToSet(sleeping') \cup {j}
      /\ AllApart(sleeping) => AllApart(sleeping') /\ \A y \in ToSet(sleeping') : Apart(j, y)
  BY <1>1, <1>2, TailList
<1>4. /\ \A w \in Workers : SureIn(w)' = SureIn(w)
      /\ \A w \in Workers : \A x \in ToSet(todo[w]) : Droppable(w, x)' <=> Droppable(w, x)
  BY DrainedSure DEF Separate
<1>5. /\ Reuse' <=> Reuse
      /\ \A w \in Workers : Counted(w)' = Counted(w)
      /\ Counted("waiting")' = Counted("waiting")
      /\ move' = move => Counted("move")' = Counted("move")
      /\ Reuse => \A p \in {"sleeping", "keep"} : \A x : x \notin Counted(p) /\ x \notin Counted(p)'
  BY <1>1, <1>4, QueuesCounted
<1>6. /\ Places = {"waiting", "sleeping", "keep", "move"} \cup Workers
  BY PlacesOf
<1>7. reg \subseteq reg'
  BY DrainedLists
<1>8. \A x : Rooted(x) => Rooted(x)'
  BY <1>7, RootedStays
<1>9. /\ AllApart(waiting) /\ AllApart(move) /\ (~Reuse => AllApart(sleeping) /\ AllApart(keep))
      /\ Reuse => \A x : IsBusy(x) => Rooted(x)
  BY BusyOf DEF Separate
<1>10. \A x : x \in ToSet(waiting) \/ x \in ToSet(move) => IsBusy(x)
  BY DEF IsBusy
<1>11. CASE Reuse /\ move' = move
  <2>1. SpreadNext
    BY <1>5, <1>6, <1>11, SpreadLess
  <2>2. \A x : x \in ToSet(waiting') \/ x \in ToSet(move') => Rooted(x)'
    BY <1>1, <1>8, <1>9, <1>10, <1>11
  <2> QED
    BY <1>1, <1>4, <1>7, <1>9, <1>11, <2>1, <2>2, QueuesSeparate
<1>12. CASE Reuse /\ Different(j, t) /\ t \in Times
  <2>1. PICK paths \in AwakenedPaths(j.path) :
           /\ move' = move \o JobsAt(h, t, {p \in paths : Acceptable(h, t, p)})
           /\ TryRegister(h, t, paths)
    BY <1>12 DEF Different
  <2>2. IsFiniteSet(paths) /\ paths \in SUBSET Paths /\ \A p, q \in paths : Len(p) = Len(q)
    BY <1>1, AwakenedPathsFacts
  <2> DEFINE some == {p \in paths : Acceptable(h, t, p)}
             new == JobsAt(h, t, some)
  <2>3. IsFiniteSet(some) /\ some \in SUBSET Paths
    BY <2>2, FS_Subset
  <2>4. \A p \in some : p \in paths /\ Acceptable(h, t, p)
    OBVIOUS
  <2>5. reg' = reg \cup {<<h, t, p>> : p \in some}
    <3>0. TryRegister(h, t, paths)
      BY <2>1
    <3>1. reg' = reg \cup {<<h, t, p>> : p \in {q \in paths : Acceptable(h, t, q)}}
      BY <1>12, <3>0 DEF TryRegister
    <3> QED
      BY <3>1
  <2>6. move' = move \o new
    BY <2>1
  <2> HIDE DEF some
  <2>7. ASSUME NEW p \in some, NEW q \in some, p # q
        PROVE  Apart(JobAt(h, t, p), JobAt(h, t, q))
    <3>1. p \in Paths /\ q \in Paths /\ Len(p) = Len(q)
      BY <2>2, <2>3, <2>4
    <3>2. p \notin Prefixes(q) /\ q \notin Prefixes(p)
      BY <2>7, <3>1, PrefixOrder
    <3> QED
      BY <1>12, <3>2, JobFields DEF Apart, Split
  <2>8. /\ new \in Seq(Job) /\ ToSet(new) = {JobAt(h, t, p) : p \in some} /\ AllApart(new)
    BY <1>1, <1>12, <2>3, <2>7, JobsAtFacts
  <2> HIDE DEF new
  <2>9. \A x \in ToSet(new) : /\ x \in Job /\ Acceptable(x.human, x.time, x.path) /\ Rooted(x)'
    <3>1. ASSUME NEW p \in some
          PROVE  LET x == JobAt(h, t, p)
                 IN  x \in Job /\ Acceptable(x.human, x.time, x.path) /\ Rooted(x)'
      <4> DEFINE x == JobAt(h, t, p)
      <4>1. p \in Paths
        BY <2>3
      <4>2. x \in Job /\ x.human = h /\ x.time = t /\ x.path = p
        BY <1>1, <1>12, <4>1, JobFields
      <4> HIDE DEF x
      <4>3. <<h, t, p>> \in reg' /\ p \in Prefixes(p)
        BY <2>5, <4>1, PrefixOrder
      <4>4. Rooted(x)'
        BY <4>2, <4>3 DEF Rooted
      <4>5. Acceptable(x.human, x.time, x.path)
        BY <2>4, <4>2
      <4> QED
        BY <4>2, <4>4, <4>5 DEF x
    <3> QED
      BY <2>8, <3>1
  <2>10. \A x \in ToSet(new) : \A y \in Job : Rooted(y) => Apart(x, y) /\ Apart(y, x)
    BY <1>12, <2>9, AcceptableApart, ApartSymmetric
  <2>11. \A y : IsBusy(y) => y \in Job
    BY BusyOf, JobsTyped
  <2>12. ToSet(move') = ToSet(move) \cup ToSet(new) /\ AllApart(move')
    <3>1. \A x \in ToSet(move), y \in ToSet(new) : Apart(x, y) /\ Apart(y, x)
      BY <1>9, <1>10, <1>12, <2>10, <2>11
    <3>2. /\ ToSet(move \o new) = ToSet(move) \cup ToSet(new)
          /\ AllApart(move \o new)
      BY <1>2, <1>9, <2>8, <3>1, ConcatList
    <3> QED
      BY <2>6, <3>2
  <2>13. SpreadNext
    <3> DEFINE New == ToSet(new)
    <3>1. \A p \in Places : \A x \in Counted(p)' : x \in Counted(p) \/ (p = "move" /\ x \in New)
      <4>1. Counted("move") = ToSet(move) /\ Counted("move")' = ToSet(move')
        BY CountedOf
      <4> QED
        BY <1>5, <1>6, <1>12, <2>12, <4>1
    <3>2. \A x \in New, q \in Places : q # "move" => \A y \in Counted(q)' : Apart(x, y)
      <4>1. ASSUME NEW q \in Places, q # "move", NEW y \in Counted(q)'
            PROVE  y \in Job /\ Rooted(y)
        <5>1. y \in Counted(q) /\ (q = "waiting" \/ q \in Workers)
          BY <1>5, <1>6, <1>12, <4>1
        <5>2. \A w \in Workers : \A z \in SureIn(w) : IsBusy(z)
          BY DEF SureIn, IsBusy
        <5>3. IsBusy(y)
          BY <1>10, <5>1, <5>2, CountedOf
        <5> QED
          BY <1>9, <1>12, <2>11, <5>3
      <4> QED
        BY <2>10, <4>1
    <3> HIDE DEF New
    <3> QED
      BY <3>1, <3>2, SpreadTo
  <2>14. \A x : x \in ToSet(waiting') \/ x \in ToSet(move') => Rooted(x)'
    BY <1>1, <1>8, <1>9, <1>10, <1>12, <2>9, <2>12
  <2> QED
    BY <1>1, <1>4, <1>7, <1>9, <1>12, <2>12, <2>13, <2>14, QueuesSeparate
\* With the discarding factory a job takes the place of the one drained, or none does.
<1>13. CASE ~Reuse
  <2>1. ASSUME NEW x \in Job, x.human = h, IsPrimary(x.path) => IsPrimary(j.path)
        PROVE  /\ \A p \in Places \ {"sleeping"} : \A y \in Counted(p) : Apart(x, y) /\ Apart(y, x)
               /\ \A y \in ToSet(sleeping') : Apart(x, y)
    <3>1. j \in Counted("sleeping")
      BY <1>3, <1>13, CountedOf
    <3>2. \A p \in Places \ {"sleeping"} : \A y \in Counted(p) : Apart(j, y)
      BY <1>6, <3>1 DEF Separate
    <3>3. \A y \in ToSet(sleeping') : Apart(j, y)
      BY <1>3, <1>9, <1>13
    <3> QED
      BY <1>13, <2>1, <3>2, <3>3, SubstituteApart, ApartSymmetric
  <2>2. /\ Counted("sleeping") = ToSet(sleeping) /\ Counted("keep") = ToSet(keep)
        /\ Counted("move") = ToSet(move)
        /\ Counted("sleeping")' = ToSet(sleeping') /\ Counted("keep")' = ToSet(keep')
        /\ Counted("move")' = ToSet(move')
    BY <1>5, <1>13, CountedOf
  <2>3. AllApart(waiting') /\ AllApart(sleeping')
    BY <1>1, <1>3, <1>9, <1>13
  <2>4. CASE keep' = keep /\ move' = move
    <3>1. \A p \in Places : \A x \in Counted(p)' : x \in Counted(p)
      BY <1>3, <1>5, <1>6, <2>2, <2>4
    <3>2. SpreadNext
      BY <3>1, SpreadLess
    <3> QED
      BY <1>1, <1>4, <1>7, <1>9, <1>13, <2>3, <2>4, <3>2, QueuesSeparate
  <2>5. ASSUME NEW x \in Job, x.human = h, IsPrimary(x.path) => IsPrimary(j.path),
               NEW to \in {"keep", "move"},
               \/ to = "keep" /\ keep' = Append(keep, x) /\ move' = move
               \/ to = "move" /\ move' = Append(move, x) /\ keep' = keep
        PROVE  Separate'
    <3>1. /\ \A p \in Places \ {"sleeping"} : \A y \in Counted(p) : Apart(x, y) /\ Apart(y, x)
          /\ \A y \in ToSet(sleeping') : Apart(x, y)
      BY <2>1, <2>5
    <3>2. /\ \A y \in ToSet(keep) : Apart(x, y) /\ Apart(y, x)
          /\ \A y \in ToSet(move) : Apart(x, y) /\ Apart(y, x)
      BY <1>6, <2>2, <3>1
    <3>3. /\ AllApart(Append(keep, x)) /\ ToSet(Append(keep, x)) = ToSet(keep) \cup {x}
          /\ AllApart(Append(move, x)) /\ ToSet(Append(move, x)) = ToSet(move) \cup {x}
      BY <1>2, <1>9, <1>13, <3>2, AppendList
    <3>4. AllApart(keep') /\ AllApart(move')
      BY <1>9, <1>13, <2>5, <3>3
    <3> DEFINE New == {x}
    <3>5. \A p \in Places : \A z \in Counted(p)' : z \in Counted(p) \/ (p = to /\ z \in New)
      <4>1. /\ \A z \in ToSet(keep') : z \in ToSet(keep) \/ (to = "keep" /\ z = x)
            /\ \A z \in ToSet(move') : z \in ToSet(move) \/ (to = "move" /\ z = x)
        BY <2>5, <3>3
      <4>2. \A z \in ToSet(sleeping') : z \in ToSet(sleeping)
        BY <1>3
      <4> QED
        BY <1>5, <1>6, <2>2, <4>1, <4>2
    <3>6. \A z \in New, q \in Places : q # to => \A y \in Counted(q)' : Apart(z, y)
      <4>1. ASSUME NEW q \in Places, q # to, NEW y \in Counted(q)'
            PROVE  Apart(x, y)
        <5>1. CASE q = "sleeping"
          BY <2>2, <3>1, <4>1, <5>1
        <5>2. CASE q # "sleeping"
          <6>1. y \in Counted(q)
            BY <3>5, <4>1
          <6> QED
            BY <3>1, <5>2, <6>1
        <5> QED
          BY <5>1, <5>2
      <4> QED
        BY <4>1
    <3> HIDE DEF New
    <3>7. SpreadNext
      BY <3>5, <3>6, SpreadTo
    <3> QED
      BY <1>1, <1>4, <1>7, <1>9, <1>13, <2>3, <3>4, <3>7, QueuesSeparate
  <2>6. CASE Kept(j)
    BY <1>1, <2>5, <2>6 DEF Kept
  <2>7. CASE Uncomputable(j, t) /\ t \in Times
    <3> DEFINE x == JobAt(h, t, j.path)
    <3>1. x \in Job /\ x.human = h /\ x.path = j.path
      BY <1>1, <2>7, JobFields
    <3>2. keep' = Append(keep, x) /\ move' = move
      BY <2>7 DEF Uncomputable
    <3> HIDE DEF x
    <3> QED
      BY <2>5, <3>1, <3>2
  <2>8. CASE Restarted(j, t) /\ t \in Times
    <3>1. PICK e : e = <<>> /\ e \in Paths
      BY EmptyPath
    <3> DEFINE x == JobAt(h, t, e)
    <3>2. x \in Job /\ x.human = h /\ x.path = e
      BY <1>1, <2>8, <3>1, JobFields
    <3>3. keep' = keep /\ move' = move \o (IF IsPrimary(j.path) THEN <<x>> ELSE <<>>)
      BY <2>8, <3>1 DEF Restarted, Restart
    <3> HIDE DEF x
    <3>4. CASE IsPrimary(j.path)
      <4>1. move \o <<x>> = Append(move, x)
        BY <1>2, <3>2, AppendIsConcat
      <4>2. move' = Append(move, x)
        BY <3>3, <3>4, <4>1
      <4> QED
        BY <2>5, <3>2, <3>3, <3>4, <4>2
    <3>5. CASE ~IsPrimary(j.path)
      <4>1. move \o <<>> = move
        BY <1>2, ConcatEmptySeq
      <4> QED
        BY <2>4, <3>3, <3>5, <4>1
    <3> QED
      BY <3>4, <3>5
  <2> QED
    BY <1>13, <2>6, <2>7, <2>8 DEF Drained, Completed, Different
<1> QED
  BY <1>11, <1>12, <1>13 DEF Drained, Kept, Uncomputable, Restarted, Completed

LEMMA AwakenSeparate == ASSUME Typed, Separate, Awaken PROVE Separate'
<1>1. CASE AwakenFails
  BY <1>1, FailSeparate DEF AwakenFails
<1>2. CASE Drained(Head(sleeping), LatestWithin(Head(sleeping).human))
  BY <1>2, DrainedSeparate
<1> QED
  BY <1>1, <1>2, AwakenSteps

LEMMA ExaminedSeparate ==
    ASSUME Typed, Owned, Separate, NEW h, NEW t, Examined(h, t)
    PROVE  Separate'
<1>1. /\ UNCHANGED <<factory, everRemoved, keep, move, workerVars>>
      /\ h \in Humans /\ h \in ToSet(left)
  BY ExaminedLists DEF Examined, bodyVars
<1>2. CASE KeepPair(h)
  BY <1>1, <1>2, BodySeparate DEF KeepPair
<1>3. CASE ~KeepPair(h)
  <2>0. PICK e : e = <<>> /\ e \in Paths
    BY EmptyPath
  <2> DEFINE x == JobAt(h, t, e)
  <2>1. /\ x \in Job /\ x.human = h /\ x.time = t /\ x.path = e
        /\ t \in Times
        /\ \/ waiting' = Append(waiting, x) /\ sleeping' = sleeping
           \/ sleeping' = Append(sleeping, x) /\ waiting' = waiting
        /\ reg \subseteq reg'
        /\ reg' = IF Reuse THEN reg \cup {<<h, t, e>>} ELSE reg
    BY <1>3, <2>0, ExaminedLists
  <2>2. TryRegister(h, t, {e})
    BY <1>3, <2>0 DEF Examined, PromotePair
  <2> HIDE DEF x
  <2>3. /\ \A w \in Workers : SureIn(w)' = SureIn(w)
        /\ \A w \in Workers : \A y \in ToSet(todo[w]) : Droppable(w, y)' <=> Droppable(w, y)
    <3>1. {e} \in SUBSET Paths
      BY <2>0
    <3> QED
      BY <1>1, <2>1, <2>2, <3>1, RegisterKeepsSure DEF Separate
  <2>4. \A y \in AllJobs : Apart(x, y) /\ Apart(y, x)
    <3>1. ASSUME NEW y \in AllJobs, y.human = h
          PROVE  h \in everRemoved
      BY <1>1, <3>1, OwnersOf DEF Owned, Pairs
    <3> QED
      BY <2>1, <3>1 DEF Apart
  <2>5. /\ waiting \in Seq(Job) /\ sleeping \in Seq(Job)
        /\ \A y \in ToSet(waiting) \cup ToSet(sleeping) : y \in AllJobs
    BY AllJobsOf DEF Typed
  <2>6. /\ ToSet(Append(waiting, x)) = ToSet(waiting) \cup {x}
        /\ ToSet(Append(sleeping, x)) = ToSet(sleeping) \cup {x}
        /\ AllApart(waiting) => AllApart(Append(waiting, x))
        /\ AllApart(sleeping) => AllApart(Append(sleeping, x))
    BY <2>1, <2>4, <2>5, AppendList
  <2>7. /\ Reuse' <=> Reuse
        /\ \A w \in Workers : Counted(w)' = Counted(w)
        /\ Counted("move")' = Counted("move")
    BY <1>1, <2>3, QueuesCounted
  <2>8. /\ Counted("waiting") = ToSet(waiting) /\ Counted("waiting")' = ToSet(waiting')
        /\ Counted("sleeping") = IF Reuse THEN {} ELSE ToSet(sleeping)
        /\ Counted("sleeping")' = IF Reuse' THEN {} ELSE ToSet(sleeping')
        /\ Counted("keep") = IF Reuse THEN {} ELSE ToSet(keep)
        /\ Counted("keep")' = IF Reuse' THEN {} ELSE ToSet(keep')
        /\ Places = {"waiting", "sleeping", "keep", "move"} \cup Workers
    BY CountedOf, PlacesOf
  <2>9. PICK to \in {"waiting", "sleeping"} :
           /\ \A y \in ToSet(waiting') : y \in ToSet(waiting) \/ (to = "waiting" /\ y = x)
           /\ \A y \in ToSet(sleeping') : y \in ToSet(sleeping) \/ (to = "sleeping" /\ y = x)
           /\ AllApart(waiting) => AllApart(waiting')
           /\ AllApart(sleeping) => AllApart(sleeping')
    BY <2>1, <2>6
  <2>10. SpreadNext
    <3> DEFINE New == {x}
    <3>1. \A p \in Places : \A y \in Counted(p)' : y \in Counted(p) \/ (p = to /\ y \in New)
      BY <1>1, <2>7, <2>8, <2>9
    <3>2. \A z \in New, q \in Places : q # to => \A y \in Counted(q)' : Apart(z, y)
      <4>1. ASSUME NEW q \in Places, q # to, NEW y \in Counted(q)'
            PROVE  Apart(x, y)
        <5>1. y \in Counted(q)
          BY <3>1, <4>1
        <5>2. y \in AllJobs
          BY <5>1, CountedJobs
        <5> QED
          BY <2>4, <5>2
      <4> QED
        BY <4>1
    <3> HIDE DEF New
    <3> QED
      BY <3>1, <3>2, SpreadTo
  <2>11. Reuse => \A y : y \in ToSet(waiting') \/ y \in ToSet(move') => Rooted(y)'
    <3>1. \A y : y \in ToSet(waiting) \/ y \in ToSet(move) => IsBusy(y)
      BY DEF IsBusy
    <3>2. Reuse => \A y : IsBusy(y) => Rooted(y)'
      BY <2>1, RootedStays, BusyOf DEF Separate
    <3>3. Reuse => Rooted(x)'
      <4>1. e \in Prefixes(e)
        BY <2>0, PrefixOrder
      <4> QED
        BY <2>1, <4>1 DEF Rooted
    <3> QED
      BY <1>1, <2>9, <3>1, <3>2, <3>3
  <2>12. AllApart(waiting') /\ AllApart(move') /\ (~Reuse => AllApart(sleeping') /\ AllApart(keep'))
    BY <1>1, <2>9 DEF Separate
  <2> QED
    BY <1>1, <2>1, <2>3, <2>10, <2>11, <2>12, QueuesSeparate
<1> QED
  BY <1>2, <1>3

LEMMA PromoteSeparate == ASSUME Typed, Owned, Separate, Promote PROVE Separate'
<1> DEFINE h == Head(left)
           t == LatestWithin(h)
<1>1. CASE PromoteFails(h, t)
  BY <1>1, FailSeparate DEF PromoteFails
<1>2. CASE Examined(h, t)
  BY <1>2, ExaminedSeparate
<1> QED
  BY <1>1, <1>2, PromoteSteps

LEMMA PurgeSeparate == ASSUME Typed, Separate, PurgeSleeping PROVE Separate'
<1>1. /\ sleeping \in Seq(Job) /\ keep \in Seq(Job) /\ sleeping # <<>>
      /\ sleeping' = Tail(sleeping)
      /\ \/ keep' = keep
         \/ keep' = Append(keep, Head(sleeping))
      /\ UNCHANGED <<factory, everRemoved, waiting, move, reg, pc, cur, todo>>
  BY DEF PurgeSleeping, bodyVars, registryVars, workerVars, Typed
<1>2. /\ Head(sleeping) \in Job /\ ToSet(sleeping) = ToSet(sleeping') \cup {Head(sleeping)}
      /\ AllApart(sleeping) => /\ AllApart(sleeping')
                               /\ \A y \in ToSet(sleeping') : Apart(Head(sleeping), y)
  BY <1>1, TailList
<1>3. /\ \A w \in Workers : SureIn(w)' = SureIn(w)
      /\ \A w \in Workers : \A x \in ToSet(todo[w]) : Droppable(w, x)' <=> Droppable(w, x)
  BY <1>1, SureInSame
<1>4. /\ Reuse' <=> Reuse
      /\ \A w \in Workers : Counted(w)' = Counted(w)
      /\ Counted("waiting")' = Counted("waiting")
      /\ Counted("move")' = Counted("move")
      /\ Reuse => \A p \in {"sleeping", "keep"} : \A x : x \notin Counted(p) /\ x \notin Counted(p)'
  BY <1>1, <1>3, QueuesCounted
<1>5. /\ Places = {"waiting", "sleeping", "keep", "move"} \cup Workers
      /\ ~Reuse => /\ Counted("sleeping") = ToSet(sleeping) /\ Counted("keep") = ToSet(keep)
                   /\ Counted("sleeping")' = ToSet(sleeping') /\ Counted("keep")' = ToSet(keep')
  BY <1>4, CountedOf, PlacesOf
<1>6. /\ AllApart(waiting') /\ AllApart(move')
      /\ ~Reuse => AllApart(sleeping) /\ AllApart(keep)
      /\ Reuse => \A x : x \in ToSet(waiting') \/ x \in ToSet(move') => Rooted(x)'
  <2>1. \A x : x \in ToSet(waiting) \/ x \in ToSet(move) => IsBusy(x)
    BY DEF IsBusy
  <2>2. Reuse => \A x : IsBusy(x) => Rooted(x)'
    BY <1>1, RootedStays, BusyOf DEF Separate
  <2> QED
    BY <1>1, <2>1, <2>2 DEF Separate
<1>7. CASE Reuse \/ keep' = keep
  <2>1. \A p \in Places : \A x \in Counted(p)' : x \in Counted(p)
    <3>1. ~Reuse => \A x \in ToSet(sleeping') : x \in ToSet(sleeping)
      BY <1>2
    <3> QED
      BY <1>4, <1>5, <1>7, <3>1
  <2>2. SpreadNext
    BY <2>1, SpreadLess
  <2> QED
    BY <1>1, <1>2, <1>3, <1>6, <1>7, <2>2, QueuesSeparate DEF workerVars
<1>8. CASE ~Reuse /\ keep' = Append(keep, Head(sleeping))
  <2> DEFINE x == Head(sleeping)
  <2>1. x \in Job /\ x \in Counted("sleeping") /\ \A y \in ToSet(sleeping') : Apart(x, y)
    BY <1>2, <1>5, <1>6, <1>8
  <2>2. keep' = Append(keep, x) /\ \A y \in ToSet(sleeping') : y \in ToSet(sleeping)
    BY <1>2, <1>8
  <2> HIDE DEF x
  <2>3. \A y \in ToSet(keep) : Apart(x, y) /\ Apart(y, x)
    <3>1. \A y \in Counted("keep") : Apart(x, y) /\ Apart(y, x)
      BY <1>5, <2>1, ApartSymmetric DEF Separate
    <3> QED
      BY <1>5, <1>8, <3>1
  <2>4. ToSet(keep') = ToSet(keep) \cup {x} /\ AllApart(keep')
    BY <1>1, <1>6, <1>8, <2>1, <2>2, <2>3, AppendList
  <2>5. \A p \in Places : \A y \in Counted(p)' : y \in Counted(p) \/ (p = "keep" /\ y = x)
    BY <1>4, <1>5, <1>8, <2>2, <2>4
  <2>6. \A y \in Counted("sleeping")' : Apart(x, y)
    BY <1>5, <1>8, <2>1
  <2>7. "sleeping" \in Places /\ "sleeping" # "keep"
    BY <1>5
  <2>8. SpreadNext
    BY <2>1, <2>5, <2>6, <2>7, SpreadFrom
  <2> QED
    BY <1>1, <1>2, <1>3, <1>6, <1>8, <2>4, <2>8, QueuesSeparate DEF workerVars
<1> QED
  BY <1>1, <1>7, <1>8

\* The jobs drained and those to move go back where they come from or wait.
LEMMA RegroupSeparate ==
    ASSUME Typed, Separate, waiting' \in {waiting, waiting \o move}, sleeping' = keep,
           keep' = <<>>, move' = <<>>,
           UNCHANGED <<factory, everRemoved, reg, pc, cur, todo>>
    PROVE  Separate'
<1>0. PICK e : e = <<>> /\ ToSet(e) = {} /\ AllApart(e)
  BY EmptyList
<1>1. keep' = e /\ move' = e
  BY <1>0
<1>2. \A w \in Workers : /\ SureIn(w)' = SureIn(w)
                         /\ \A x \in ToSet(todo[w]) : Droppable(w, x)' <=> Droppable(w, x)
  BY SureInSame
<1>3. /\ Reuse' <=> Reuse
      /\ \A w \in Workers : Counted(w)' = Counted(w)
  BY <1>2, QueuesCounted
<1>4. /\ Places = {"waiting", "sleeping", "keep", "move"} \cup Workers
      /\ \A w \in Workers : w \notin {"waiting", "sleeping", "keep", "move"}
  BY PlacesOf
<1>5. /\ waiting \in Seq(Job) /\ move \in Seq(Job)
      /\ AllApart(waiting) /\ AllApart(move) /\ (~Reuse => AllApart(keep))
      /\ Counted("waiting") = ToSet(waiting) /\ Counted("move") = ToSet(move)
  BY CountedOf DEF Typed, Separate
<1>6. \A x \in ToSet(waiting), y \in ToSet(move) : Apart(x, y) /\ Apart(y, x)
  BY <1>4, <1>5, ApartSymmetric DEF Separate
<1>7. /\ ToSet(waiting') \subseteq ToSet(waiting) \cup ToSet(move) /\ AllApart(waiting')
  <2>1. ToSet(waiting \o move) = ToSet(waiting) \cup ToSet(move) /\ AllApart(waiting \o move)
    BY <1>5, <1>6, ConcatList
  <2> QED
    BY <1>5, <2>1
<1>8. Reuse => \A x : x \in ToSet(waiting') \/ x \in ToSet(move') => Rooted(x)'
  <2>1. \A x : x \in ToSet(waiting) \/ x \in ToSet(move) => IsBusy(x)
    BY DEF IsBusy
  <2>2. Reuse => \A x : IsBusy(x) => Rooted(x)'
    BY RootedStays, BusyOf DEF Separate
  <2> QED
    BY <1>0, <1>1, <1>7, <2>1, <2>2
<1> DEFINE From(p) == IF p = "waiting" THEN {"waiting", "move"}
                      ELSE IF p = "sleeping" THEN {"keep"} ELSE {p}
<1>9. \A p \in Places : \A x \in Counted(p)' : /\ p \notin {"keep", "move"}
                                               /\ \E r \in From(p) : r \in Places /\ x \in Counted(r)
  <2>1. /\ \A x : x \notin Counted("keep")' /\ x \notin Counted("move")'
    BY <1>0, <1>1, CountedOf
  <2>2. \A x \in Counted("waiting")' : x \in Counted("waiting") \/ x \in Counted("move")
    BY <1>5, <1>7, CountedOf
  <2>3. \A x \in Counted("sleeping")' : x \in Counted("keep")
    BY <1>3, CountedOf
  <2> QED
    BY <1>3, <1>4, <2>1, <2>2, <2>3
<1>10. \A p, q \in Places \ {"keep", "move"} : p # q => From(p) \cap From(q) = {}
  BY <1>4
<1> HIDE DEF From
<1>11. SpreadNext
  <2> SUFFICES ASSUME NEW p \in Places, NEW q \in Places, p # q,
                      NEW x \in Counted(p)', NEW y \in Counted(q)'
               PROVE  Apart(x, y)
    BY DEF SpreadNext
  <2>1. PICK r \in From(p) : r \in Places /\ x \in Counted(r)
    BY <1>9
  <2>2. PICK s \in From(q) : s \in Places /\ y \in Counted(s)
    BY <1>9
  <2>3. r # s
    BY <1>9, <1>10, <2>1, <2>2
  <2> QED
    BY <2>1, <2>2, <2>3 DEF Separate
<1>12. AllApart(move') /\ (~Reuse => AllApart(sleeping') /\ AllApart(keep'))
  BY <1>0, <1>1, <1>5
<1>13. reg \subseteq reg' /\ everRemoved \subseteq everRemoved'
  OBVIOUS
<1> QED
  BY <1>2, <1>7, <1>8, <1>11, <1>12, <1>13, QueuesSeparate DEF workerVars

LEMMA RefillSeparate == ASSUME Typed, Separate, Refill \/ PurgeEnd PROVE Separate'
<1>1. CASE Refill
  BY <1>1, RegroupSeparate DEF Refill, bodyVars, registryVars, workerVars
<1>2. CASE PurgeEnd
  <2>1. move = <<>>
    BY <1>2 DEF PurgeEnd, Typed
  <2> QED
    BY <1>2, <2>1, RegroupSeparate DEF PurgeEnd, bodyVars, registryVars, workerVars
<1> QED
  BY <1>1, <1>2

LEMMA NextSeparate == ASSUME Typed, Owned, Separate, [Next]_vars PROVE Separate'
BY ReceiverSeparate, PurgeSeparate, RefillSeparate, AwakenSeparate, PromoteSeparate, WorkerSeparate
DEF Next, Receiver, Presents

-----------------------------------------------------------------------------
(* The inductive invariant and what follows from it.                        *)

LEMMA OverlapStays ==
    ASSUME Typed, overlapped, [Next]_vars
    PROVE  overlapped'
<1>1. CASE \E t \in Times, bodies \in SUBSET Humans :
              \E empty \in SUBSET bodies : HumanState(t, bodies, empty)
  <2>1. PICK t \in Times, bodies \in SUBSET Humans :
               \E empty \in SUBSET bodies : HumanState(t, bodies, empty)
    BY <1>1
  <2>2. PICK empty \in SUBSET bodies : HumanState(t, bodies, empty)
    BY <2>1
  <2>3. Fail("no human instance left") \/ StateChange(t, bodies, empty)
    BY <2>2, HumanStateSteps DEF Typed
  <2> QED
    BY <2>3 DEF Fail, StateChange, NoticeOverlap, bodyVars
<1>2. CASE \E t \in Times : RobotState(t) \/ RobotPurge(t)
  BY <1>2 DEF RobotState, RobotPurge, Fail, NoticeOverlap, bodyVars
<1>3. CASE Presents
  BY <1>3 DEF Presents, PresentCheck, PresentPush, PresentInsert
<1>4. CASE RemoveHumans \/ Filter \/ FilterEnd \/ PurgeSleeping \/ PurgeEnd \/ Refill \/ HandlerEnd
  BY <1>4 DEF RemoveHumans, Filter, FilterEnd, PurgeSleeping, PurgeEnd, Refill, HandlerEnd, bodyVars
<1>5. CASE Awaken
  BY <1>5, AwakenSteps DEF AwakenFails, Drained, Fail, bodyVars
<1>6. CASE Promote
  BY <1>6, PromoteSteps DEF PromoteFails, Examined, Fail, bodyVars
<1>7. CASE \E w \in Workers : Worker(w)
  <2>1. PICK w \in Workers : Worker(w)
    BY <1>7
  <2>2. Fail("not in the robot history") \/ Moves(w)
    BY <2>1, WorkerSteps
  <2> QED
    BY <2>2, MovedOthers DEF Fail, receiverVars, bodyVars
<1>8. CASE UNCHANGED vars
  BY <1>8 DEF vars, bodyVars
<1> QED
  BY <1>1, <1>2, <1>3, <1>4, <1>5, <1>6, <1>7, <1>8 DEF Next, Receiver, Presents

(* IInv holds in every state: as long as no presentation overlaps a state    *)
(* callback, no step of the receiver or of a worker, at any point of the     *)
(* other's, loses a job, lets two jobs claim one path, or takes a pair or a  *)
(* job from the human it belongs to.                                        *)
THEOREM Invariance == Spec => []IInv
<1>1. Init => IInv
  BY InitTyped, InitOwned, InitTimely, InitAlive, InitSeparate DEF IInv
<1>2. IInv /\ [Next]_vars => IInv'
  <2> SUFFICES ASSUME IInv, [Next]_vars PROVE IInv'
    OBVIOUS
  <2>1. Typed'
    BY NextTyped DEF IInv
  <2>2. CASE overlapped'
    BY <2>1, <2>2 DEF IInv
  <2>3. CASE ~overlapped'
    <3>1. Typed /\ Owned /\ Timely /\ Alive /\ Separate /\ AllRooted
      BY <2>3, OverlapStays DEF IInv, Separate
    <3>2. Owned'
      BY <2>3, <3>1, NextOwned
    <3>3. Timely'
      BY <3>1, NextTimely
    <3>4. Alive'
      BY <3>1, NextAlive
    <3>5. Separate'
      BY <3>1, NextSeparate
    <3> QED
      BY <2>1, <3>2, <3>3, <3>4, <3>5 DEF IInv
  <2> QED
    BY <2>2, <2>3
<1> QED
  BY <1>1, <1>2, PTL DEF Spec

(* Every variable of the receiver, of the workers and of what they share     *)
(* stays in its domain, for any bounds.                                     *)
THEOREM TypeCorrect == Spec => []TypeOK
<1>1. IInv => TypeOK
  BY DEF IInv, Typed
<1> QED
  BY <1>1, Invariance, PTL

(* Without a removal or an overlap of callbacks, an assertion of the search, *)
(* the awakening and the promotion of jobs fails only for a timestamp that   *)
(* the job registry looks up, a purge, two robot states of one time or the   *)
(* weak equivalence.                                                        *)
THEOREM SafeWithoutRemovalHolds == Spec => []SafeWithoutRemoval
<1>1. IInv => SafeWithoutRemoval
  BY DEF IInv, Timely, SafeWithoutRemoval, SafeFailure, Missing
<1> QED
  BY <1>1, Invariance, PTL

(* While no presentation overlaps a state callback, a pending pair has its   *)
(* human in the body registry whenever pairs are promoted, and no human is   *)
(* paired twice.                                                            *)
THEOREM PairsSoundHolds == Spec => []PairsSound
<1>1. IInv => PairsSound
  <2> SUFFICES ASSUME Typed, Owned PROVE PairsSound
    BY DEF IInv, PairsSound
  <2> DEFINE pairs == left \o pending
  <2>1. /\ left \in Seq(Humans) /\ pending \in Seq(Humans)
        /\ IsInjective(pending) /\ IsInjective(left) /\ ToSet(left) \cap ToSet(pending) = {}
    BY DEF Typed, Owned
  <2>2. ToSet(pairs) = ToSet(left) \cup ToSet(pending) /\ IsInjective(pairs)
    BY <2>1, ConcatList
  <2>3. rcv # "filter" => ToSet(left) \subseteq humans
    <3>1. CASE left = <<>>
      BY <3>1, EmptyList
    <3>2. CASE left # <<>>
      BY <3>2 DEF Typed, Owned
    <3> QED
      BY <3>1, <3>2
  <2>4. rcv \notin {"idle", "filter"} => ToSet(pairs) \subseteq humans
    BY <2>2, <2>3, NonePresented
  <2> QED
    BY <2>2, <2>4 DEF PairsSound, IsInjective
<1> QED
  BY <1>1, Invariance, PTL

LEMMA OccurrencesOf ==
    /\ \A place \in Places : \A i \in DOMAIN JobsIn(place) :
          /\ <<place, i>> \in Occurrences /\ <<place, i>>[1] = place
          /\ JobOf(<<place, i>>) = JobsIn(place)[i]
    /\ \A o \in Occurrences : \E place \in Places : \E i \in DOMAIN JobsIn(place) : o = <<place, i>>
<1>1. ASSUME NEW place \in Places, NEW i \in DOMAIN JobsIn(place)
      PROVE  <<place, i>> \in Occurrences
  BY DEF Occurrences
<1>2. \A place, i : <<place, i>>[1] = place /\ JobOf(<<place, i>>) = JobsIn(place)[i]
  BY DEF JobOf
<1>3. \A o \in Occurrences : \E place \in Places : \E i \in DOMAIN JobsIn(place) : o = <<place, i>>
  BY DEF Occurrences
<1> QED
  BY <1>1, <1>2, <1>3

LEMMA JobsInOf ==
    /\ JobsIn("waiting") = waiting /\ JobsIn("sleeping") = sleeping
    /\ JobsIn("keep") = keep /\ JobsIn("move") = move
    /\ \A w \in Workers : JobsIn(w) = IF pc[w] \in Spawning THEN todo[w] ELSE cur[w]
BY PlacesOf DEF JobsIn, InWorker, Spawning

\* A job that is sure to stay occurs somewhere.
LEMMA SureOccurs ==
    ASSUME NEW x \in Sure
    PROVE  \E o \in Occurrences : JobOf(o) = x
<1>1. \A w \in Workers : \A y \in SureIn(w) : y \in ToSet(JobsIn(w))
  BY JobsInOf DEF SureIn
<1>2. \E place \in Places : x \in ToSet(JobsIn(place))
  BY <1>1, SureOf, JobsInOf, PlacesOf
<1>3. PICK place \in Places : x \in ToSet(JobsIn(place))
  BY <1>2
<1>4. PICK i \in DOMAIN JobsIn(place) : x = JobsIn(place)[i]
  BY <1>3 DEF ToSet
<1> QED
  BY <1>4, OccurrencesOf

LEMMA OccurrencesApart ==
    ASSUME Typed, Separate,
           NEW o1 \in Occurrences, NEW o2 \in Occurrences, o1 # o2,
           JobOf(o1) \in Counted(o1[1]), JobOf(o2) \in Counted(o2[1])
    PROVE  Apart(JobOf(o1), JobOf(o2))
<1>a. PICK p \in Places : \E i \in DOMAIN JobsIn(p) : o1 = <<p, i>>
  BY OccurrencesOf
<1>b. PICK q \in Places : \E k \in DOMAIN JobsIn(q) : o2 = <<q, k>>
  BY OccurrencesOf
<1>1. PICK i \in DOMAIN JobsIn(p) : o1 = <<p, i>>
  BY <1>a
<1>2. PICK k \in DOMAIN JobsIn(q) : o2 = <<q, k>>
  BY <1>b
<1>3. /\ o1[1] = p /\ JobOf(o1) = JobsIn(p)[i] /\ o2[1] = q /\ JobOf(o2) = JobsIn(q)[k]
  BY <1>1, <1>2, OccurrencesOf
<1>4. CASE p # q
  BY <1>3, <1>4 DEF Separate
<1>5. CASE p = q
  <2>1. AllApart(JobsIn(p))
    <3>1. CASE p \in {"waiting", "move"}
      BY <3>1, JobsInOf DEF Separate
    <3>2. CASE p \in {"sleeping", "keep"}
      <4>1. ~Reuse
        BY <1>3, <3>2, CountedOf
      <4> QED
        BY <3>2, <4>1, JobsInOf DEF Separate
    <3>3. CASE p \in Workers /\ pc[p] \in Spawning
      BY <3>3, JobsInOf DEF Separate
    <3>4. CASE p \in Workers /\ pc[p] \notin Spawning
      <4>1. JobsIn(p) = cur[p]
        BY <3>4, JobsInOf
      <4>2. cur[p] \in {<<>>} \cup {<<j>> : j \in Job}
        BY <3>4 DEF Typed
      <4>3. \A j \in Job : AllApart(<<j>>)
        BY OneList
      <4> QED
        BY <4>1, <4>2, <4>3, EmptyList
    <3> QED
      BY <3>1, <3>2, <3>3, <3>4, PlacesOf
  <2>2. i # k
    BY <1>1, <1>2, <1>5
  <2> QED
    BY <1>3, <1>5, <2>1, <2>2 DEF AllApart
<1> QED
  BY <1>4, <1>5

(* While no presentation overlaps a state callback, a pair that has been    *)
(* promoted has a job as long as its human stays registered, whatever the   *)
(* workers and the receiver do with it in the meantime: no next job dropped,*)
(* no job discarded when awakened and no purge of the sleeping queue takes  *)
(* the last one.                                                            *)
THEOREM NeverOrphanedHolds == Spec => []NeverOrphaned
<1>1. IInv => NeverOrphaned
  <2> SUFFICES ASSUME Alive, NEW h \in Promoted
               PROVE  \E o \in Occurrences : JobOf(o).human = h
    BY DEF IInv, NeverOrphaned
  <2>1. \E x \in Sure : x.human = h
    <3>1. CASE Reuse
      <4>1. PICK e : e = <<>>
        OBVIOUS
      <4>2. PICK t \in Times : <<h, t, e>> \in reg
        BY <3>1, <4>1 DEF Alive
      <4>3. PICK r \in reg : r[1] = h
        BY <4>2
      <4>4. h \notin everRemoved
        BY PromotedNotRemoved
      <4> QED
        BY <4>3, <4>4 DEF Alive, Beyond
    <3>2. CASE ~Reuse
      BY <3>2 DEF Alive
    <3> QED
      BY <3>1, <3>2
  <2> QED
    BY <2>1, SureOccurs
<1> QED
  BY <1>1, Invariance, PTL

(* With the discarding factory, and without such an overlap, a promoted pair*)
(* has exactly one primary job: the restart of the primary job alone is     *)
(* enough, and is never done twice.                                         *)
THEOREM OnePrimaryHolds == Spec => []OnePrimary
<1>1. IInv => OnePrimary
  <2> SUFFICES ASSUME Typed, Alive, Separate, ~Reuse, NEW h \in Promoted
               PROVE  Cardinality({o \in Occurrences : JobOf(o).human = h /\ IsPrimary(JobOf(o).path)}) = 1
    BY DEF IInv, OnePrimary
  <2> DEFINE Primary == {o \in Occurrences : JobOf(o).human = h /\ IsPrimary(JobOf(o).path)}
  <2>1. PICK x \in Sure : x.human = h /\ IsPrimary(x.path)
    BY DEF Alive
  <2>2. PICK o \in Occurrences : JobOf(o) = x
    BY SureOccurs
  <2>3. \A u \in Occurrences : JobOf(u) \in Counted(u[1])
    <3>1. ASSUME NEW p \in Places, NEW i \in DOMAIN JobsIn(p)
          PROVE  JobsIn(p)[i] \in Counted(p)
      <4>1. JobsIn(p)[i] \in ToSet(JobsIn(p))
        BY DEF ToSet
      <4>2. \A w \in Workers : SureIn(w) = ToSet(JobsIn(w))
        BY NoneDroppable, JobsInOf DEF SureIn
      <4> QED
        BY <4>1, <4>2, CountedOf, JobsInOf, PlacesOf
    <3> QED
      BY <3>1, OccurrencesOf
  <2>4. \A u \in Primary : u = o
    <3>1. ASSUME NEW u \in Primary, u # o
          PROVE  FALSE
      <4>1. Apart(JobOf(u), JobOf(o))
        BY <2>2, <2>3, <3>1, OccurrencesApart
      <4>2. h \notin everRemoved
        BY PromotedNotRemoved
      <4> QED
        BY <2>1, <2>2, <3>1, <4>1, <4>2 DEF Apart
    <3> QED
      BY <3>1
  <2>5. Primary = {o}
    BY <2>1, <2>2, <2>4
  <2> HIDE DEF Primary
  <2>6. Cardinality(Primary) = 1
    BY <2>5, FS_Singleton
  <2> QED
    BY <2>6 DEF Primary
<1> QED
  BY <1>1, Invariance, PTL

(* With the reusing factory, and without such an overlap, no two jobs that  *)
(* wait or run are the same one, whenever the job registry is asked and     *)
(* whatever it has been told since.                                         *)
THEOREM RunOnceHolds == Spec => []RunOnce
<1>1. IInv => RunOnce
  <2> DEFINE busy == {"waiting", "move"} \cup {w \in Workers : pc[w] \in {"check", "search", "sleep"}}
             Busy == {o \in Occurrences : o[1] \in busy}
  <2> SUFFICES ASSUME Typed, Separate, Reuse, NEW o1 \in Busy, NEW o2 \in Busy, o1 # o2,
                      JobOf(o1) = JobOf(o2)
               PROVE  JobOf(o1).human \in everRemoved
    BY DEF IInv, RunOnce
  <2>1. \A u \in Busy : JobOf(u) \in Counted(u[1]) /\ JobOf(u) \in Job
    <3>1. ASSUME NEW p \in Places, NEW i \in DOMAIN JobsIn(p), p \in busy
          PROVE  JobsIn(p)[i] \in Counted(p)
      <4>1. JobsIn(p)[i] \in ToSet(JobsIn(p))
        BY DEF ToSet
      <4>2. \A w \in Workers : pc[w] \in {"check", "search", "sleep"} => SureIn(w) = ToSet(JobsIn(w))
        BY JobsInOf DEF SureIn, Spawning
      <4>3. CASE p \in {"waiting", "move"}
        BY <4>1, <4>3, CountedOf, JobsInOf
      <4>4. CASE p \in Workers /\ pc[p] \in {"check", "search", "sleep"}
        BY <4>1, <4>2, <4>4, CountedOf
      <4> QED
        BY <3>1, <4>3, <4>4
    <3>2. \A u \in Busy : \E p \in Places : \E i \in DOMAIN JobsIn(p) : u = <<p, i>>
      BY OccurrencesOf
    <3>3. ASSUME NEW u \in Busy
          PROVE  u[1] \in Places /\ JobOf(u) \in Counted(u[1])
      <4>0. PICK p \in Places : \E i \in DOMAIN JobsIn(p) : u = <<p, i>>
        BY <3>2
      <4>1. PICK i \in DOMAIN JobsIn(p) : u = <<p, i>>
        BY <4>0
      <4>2. u[1] = p /\ JobOf(u) = JobsIn(p)[i] /\ p \in busy
        BY <4>1, OccurrencesOf
      <4> QED
        BY <3>1, <4>2
    <3> QED
      BY <3>3, CountedJobs, JobsTyped
  <2> DEFINE x == JobOf(o1)
  <2>2. Apart(x, x) /\ x \in Job
    <3>1. Apart(JobOf(o1), JobOf(o2))
      BY <2>1, OccurrencesApart
    <3> QED
      BY <2>1, <3>1
  <2> HIDE DEF x
  <2>3. ~Split(x, x)
    <3>1. x.path \in Paths
      BY <2>2, JobFields
    <3>2. /\ x.path \in Prefixes(x.path)
          /\ \A q \in Prefixes(x.path) : Len(q) <= Len(x.path) /\ Len(q) \in Nat /\ Len(x.path) \in Nat
      BY <3>1, PrefixOrder, PathType
    <3>3. \A q \in Prefixes(x.path) : ~(Len(q) > Len(x.path))
      BY <3>2
    <3> QED
      BY <3>2, <3>3, Zenon DEF Split
  <2>4. x.human \in everRemoved
    BY <2>2, <2>3 DEF Apart
  <2> QED
    BY <2>4 DEF x
<1> QED
  BY <1>1, Invariance, PTL
=============================================================================
