---------------------------- MODULE JobRegistryProofs ---------------------------
(***************************************************************************)
(* Proofs about the job registry, for any threads, timestamps, identifiers  *)
(* and paths.                                                               *)
(*                                                                         *)
(* The invariants of the runs are not inductive by themselves: what a        *)
(* thread answers "no" for without reaching a tree is right only because    *)
(* nodes lie in trees, and trees in entries, that exist (Rooted).           *)
(***************************************************************************)
EXTENDS JobRegistry, SequenceTheorems, TLAPS

Rooted ==
    /\ \A r \in trees : r[1] \in 1..Len(entries)
    /\ \A n \in nodes : <<n[1], n[2]>> \in trees

Returned == \A t \in Threads : pc[t] = "done" <=> result[t] # "none"

IInv == TypeOK /\ EntriesIncrease /\ PointersValid /\ Rooted /\ Returned

Registered == {<<entries[n[1]], n[2], n[3]>> : n \in nodes}

-----------------------------------------------------------------------------
(* What the searches rely on: no two entries have the same timestamp.        *)
LEMMA OneEntry ==
    ASSUME IInv, NEW i \in 1..Len(entries), NEW j \in 1..Len(entries), entries[i] = entries[j]
    PROVE  i = j
<1>1. entries[i] \in Nat /\ entries[j] \in Nat /\ Len(entries) \in Nat
  <2>1. entries \in Seq(Times)
    BY DEF IInv, TypeOK
  <2>2. entries[i] \in Times /\ entries[j] \in Times
    BY <2>1, ElementOfSeq
  <2>3. Len(entries) \in Nat
    BY <2>1, LenProperties
  <2>4. entries[i] \in Nat /\ entries[j] \in Nat
    BY <2>2, TimesAssumption
  <2> QED
    BY <2>3, <2>4
<1>2. ~(i < j) /\ ~(j < i)
  BY <1>1 DEF IInv, EntriesIncrease
<1> QED
  BY <1>1, <1>2

(* A node is in an entry, and is a triple.                                  *)
LEMMA NodeShape ==
    ASSUME IInv, NEW n \in nodes
    PROVE  /\ n[1] \in 1..Len(entries) /\ n[2] \in Ids /\ n[3] \in Paths
           /\ n = <<n[1], n[2], n[3]>>
           /\ <<n[1], n[2]>> \in trees
<1>1. n \in Nat \X Ids \X Paths /\ <<n[1], n[2]>> \in trees
  BY DEF IInv, TypeOK, Rooted
<1>2. <<n[1], n[2]>>[1] \in 1..Len(entries)
  BY <1>1 DEF IInv, Rooted
<1> QED
  BY <1>1, <1>2

(* The tree a thread holds has the registrations of its timestamp and        *)
(* identifier, all of them and no other.                                    *)
LEMMA TreeIsCurrent ==
    ASSUME IInv, NEW t \in Threads, at[t] \in Holding(t), NEW p \in Paths
    PROVE  <<call[t].time, call[t].id, p>> \in Registered <=> Node(t, p) \in nodes
<1>1. at[t] \in 1..Len(entries) /\ entries[at[t]] = call[t].time
  BY DEF Holding
<1>2. ASSUME Node(t, p) \in nodes PROVE <<call[t].time, call[t].id, p>> \in Registered
  BY <1>1, <1>2 DEF Node, Registered
<1>3. ASSUME <<call[t].time, call[t].id, p>> \in Registered PROVE Node(t, p) \in nodes
  <2>1. PICK n \in nodes : <<call[t].time, call[t].id, p>> = <<entries[n[1]], n[2], n[3]>>
    BY <1>3 DEF Registered
  <2>2. n[1] = at[t]
    BY <1>1, <2>1, NodeShape, OneEntry
  <2> QED
    BY <2>1, <2>2, NodeShape DEF Node
<1> QED
  BY <1>2, <1>3

-----------------------------------------------------------------------------
LEMMA InitIInv == Init => IInv
<1> SUFFICES ASSUME Init PROVE IInv
  OBVIOUS
<1>1. entries = <<>> /\ entries \in Seq(Times) /\ Len(entries) = 0
  BY EmptySeq DEF Init
<1>2. TypeOK
  BY <1>1 DEF Init, TypeOK
<1>3. EntriesIncrease /\ PointersValid /\ Rooted /\ Returned
  BY <1>1 DEF Init, EntriesIncrease, PointersValid, Rooted, Returned
<1> QED
  BY <1>2, <1>3 DEF IInv

(* Appending an entry leaves the others, and all that points to them.        *)
LEMMA OpenStep ==
    ASSUME IInv, NEW t \in Threads, Open(t)
    PROVE  IInv' /\ Registered' = Registered
<1>1. /\ entries \in Seq(Times) /\ call[t].time \in Times /\ Len(entries) \in Nat
      /\ entries' = Append(entries, call[t].time)
  BY DEF IInv, TypeOK, Calls, Open
<1>2. /\ entries' \in Seq(Times) /\ Len(entries') = Len(entries) + 1
      /\ \A i \in 1..Len(entries) : entries'[i] = entries[i]
      /\ entries'[Len(entries) + 1] = call[t].time
  BY <1>1, AppendProperties
<1>3. TypeOK'
  BY <1>1, <1>2 DEF IInv, TypeOK, Open, Proceed
<1>4. EntriesIncrease'
  <2>1. \A i \in 1..Len(entries) : entries[i] \in Nat /\ entries[i] < call[t].time
    <3> SUFFICES ASSUME NEW i \in 1..Len(entries)
                 PROVE  entries[i] \in Nat /\ entries[i] < call[t].time
      OBVIOUS
    <3>1. entries[i] \in Nat /\ entries[Len(entries)] \in Nat /\ call[t].time \in Nat
      <4>1. Len(entries) \in 1..Len(entries)
        BY <1>1
      <4> QED
        BY <1>1, <4>1, TimesAssumption, ElementOfSeq
    <3>2. entries[Len(entries)] < call[t].time
      BY <1>1 DEF Open, IsLater
    <3>3. i = Len(entries) \/ entries[i] < entries[Len(entries)]
      BY <1>1 DEF IInv, EntriesIncrease
    <3> QED
      BY <3>1, <3>2, <3>3
  <2> QED
    BY <1>1, <1>2, <2>1 DEF IInv, EntriesIncrease
<1>5. PointersValid'
  <2> SUFFICES ASSUME NEW u \in Threads
               PROVE  /\ pc'[u] \in {"entry", "tree"} => at'[u] \in Holding(u)'
                      /\ pc'[u] = "tree" => <<at'[u], call'[u].id>> \in trees'
    BY DEF PointersValid
  <2>1. call' = call /\ trees' = trees
    BY DEF Open, Proceed
  <2>2. CASE u = t
    BY <1>1, <1>2, <2>1, <2>2 DEF IInv, TypeOK, Open, Proceed, Holding
  <2>3. CASE u # t
    <3>1. at'[u] = at[u] /\ pc'[u] = pc[u]
      BY <2>3 DEF IInv, TypeOK, Open, Proceed
    <3>2. Holding(u) \subseteq Holding(u)'
      BY <1>1, <1>2, <2>1 DEF Holding
    <3> QED
      BY <2>1, <3>1, <3>2 DEF IInv, PointersValid
  <2> QED
    BY <2>2, <2>3
<1>6. Rooted'
  BY <1>1, <1>2 DEF IInv, Rooted, Open
<1>7. Returned'
  BY DEF IInv, TypeOK, Returned, Open, Proceed, At
<1>8. Registered' = Registered
  <2>1. nodes' = nodes /\ \A n \in nodes : entries'[n[1]] = entries[n[1]]
    BY <1>2, NodeShape DEF Open
  <2> QED
    BY <2>1 DEF Registered
<1> QED
  BY <1>3, <1>4, <1>5, <1>6, <1>7, <1>8 DEF IInv

(* Moving on to an entry of the thread's timestamp.                         *)
LEMMA FindStep ==
    ASSUME IInv, NEW t \in Threads, NEW i \in Holding(t), pc[t] = "registry",
           Proceed(t, "entry", i), UNCHANGED data
    PROVE  IInv'
<1> USE DEF data, Proceed
<1>1. i \in 1..Len(entries) /\ Len(entries) \in Nat
  BY DEF Holding, IInv, TypeOK
<1>2. TypeOK'
  BY <1>1 DEF IInv, TypeOK
<1>3. EntriesIncrease' /\ Rooted' /\ Returned'
  BY DEF IInv, TypeOK, EntriesIncrease, Rooted, Returned
<1>4. PointersValid'
  BY DEF IInv, TypeOK, PointersValid, Holding
<1> QED
  BY <1>2, <1>3, <1>4 DEF IInv

(* Moving on to a tree of the entry.                                        *)
LEMMA TreeStep ==
    ASSUME IInv, NEW t \in Threads, pc[t] = "entry", Proceed(t, "tree", at[t]),
           UNCHANGED <<entries, nodes>>, trees' = trees \cup {<<at[t], call[t].id>>}
    PROVE  IInv'
<1>1. at[t] \in 1..Len(entries) /\ at[t] \in Holding(t) /\ Len(entries) \in Nat /\ call[t].id \in Ids
  <2>1. at[t] \in Holding(t)
    BY DEF IInv, PointersValid
  <2>2. call[t] \in Calls /\ entries \in Seq(Times)
    BY DEF IInv, TypeOK
  <2> QED
    BY <2>1, <2>2 DEF Holding, Calls
<1> USE DEF Proceed
<1>2. TypeOK'
  BY <1>1 DEF IInv, TypeOK
<1>3. EntriesIncrease' /\ Returned'
  BY DEF IInv, TypeOK, EntriesIncrease, Returned
<1>4. Rooted'
  BY <1>1 DEF IInv, Rooted
<1>5. PointersValid'
  BY <1>1 DEF IInv, TypeOK, PointersValid, Holding
<1> QED
  BY <1>2, <1>3, <1>4, <1>5 DEF IInv

(* Returning without a registration.                                        *)
LEMMA ReturnStep ==
    ASSUME IInv, NEW t \in Threads, NEW r \in {"yes", "no", "failed"},
           pc[t] # "done", Return(t, r), UNCHANGED data
    PROVE  IInv'
<1> USE DEF data, Return
<1>1. TypeOK'
  BY DEF IInv, TypeOK
<1>2. EntriesIncrease' /\ Rooted' /\ Returned'
  BY DEF IInv, TypeOK, EntriesIncrease, Rooted, Returned
<1>3. PointersValid'
  BY DEF IInv, TypeOK, PointersValid, Holding
<1> QED
  BY <1>1, <1>2, <1>3 DEF IInv

(* Registering a path in the tree the thread holds.                         *)
LEMMA RegisterStep ==
    ASSUME IInv, NEW t \in Threads, Register(t)
    PROVE  /\ IInv'
           /\ Registered' = Registered \cup {<<call[t].time, call[t].id, call[t].path>>}
<1> DEFINE new == Node(t, call[t].path)
<1>1. /\ at[t] \in Holding(t) /\ <<at[t], call[t].id>> \in trees
      /\ call[t].id \in Ids /\ call[t].path \in Paths /\ at[t] \in Nat
      /\ nodes' = nodes \cup {new} /\ entries' = entries /\ trees' = trees
  BY DEF IInv, TypeOK, Calls, PointersValid, Register, At
<1>2. TypeOK'
  BY <1>1 DEF IInv, TypeOK, Register, Return, Node
<1>3. EntriesIncrease' /\ Returned'
  BY <1>1 DEF IInv, TypeOK, EntriesIncrease, Returned, Register, Return, At
<1>4. Rooted'
  BY <1>1 DEF IInv, Rooted, Node
<1>5. PointersValid'
  BY <1>1 DEF IInv, TypeOK, PointersValid, Holding, Register, Return
<1>6. Registered' = Registered \cup {<<call[t].time, call[t].id, call[t].path>>}
  <2>1. entries[new[1]] = call[t].time /\ new[2] = call[t].id /\ new[3] = call[t].path
    BY <1>1 DEF Node, Holding
  <2>2. Registered' = {<<entries[n[1]], n[2], n[3]>> : n \in nodes \cup {new}}
    BY <1>1 DEF Registered
  <2> HIDE DEF new
  <2>3. Registered' = Registered \cup {<<entries[new[1]], new[2], new[3]>>}
    BY <2>2 DEF Registered
  <2> QED
    BY <2>1, <2>3
<1> QED
  BY <1>2, <1>3, <1>4, <1>5, <1>6 DEF IInv

(* A new call holds nothing.                                                *)
LEMMA CallStep ==
    ASSUME IInv, NEW t \in Threads, Call(t)
    PROVE  IInv'
<1>1. TypeOK'
  BY DEF IInv, TypeOK, Call, data
<1>2. EntriesIncrease' /\ Rooted' /\ Returned'
  BY DEF IInv, TypeOK, EntriesIncrease, Rooted, Returned, Call, data
<1>3. PointersValid'
  BY DEF IInv, TypeOK, PointersValid, Holding, Call, data
<1> QED
  BY <1>1, <1>2, <1>3 DEF IInv

LEMMA StutterStep == ASSUME IInv, UNCHANGED vars PROVE IInv'
  BY DEF IInv, vars, data, TypeOK, EntriesIncrease, PointersValid, Holding, Rooted, Returned

-----------------------------------------------------------------------------
(* Every reachable state satisfies the inductive invariant.                 *)
THEOREM Invariance == Spec => []IInv
<1>1. ASSUME IInv, [Next]_vars PROVE IInv'
  <2>1. CASE UNCHANGED vars
    BY <1>1, <2>1, StutterStep
  <2>2. CASE Next
    <3> PICK t \in Threads :
            \/ Call(t)
            \/ Open(t) \/ Find(t) \/ NotFound(t) \/ Insert(t) \/ Register(t) \/ Reject(t)
            \/ Seek(t) \/ SeekTree(t) \/ Look(t)
      BY <2>2 DEF Next
    <3>1. CASE Call(t)
      BY <1>1, <3>1, CallStep
    <3>2. CASE Open(t)
      BY <1>1, <3>2, OpenStep
    <3>3. CASE Find(t)
      BY <1>1, <3>3, FindStep DEF Find, At
    <3>4. CASE NotFound(t)
      BY <1>1, <3>4, ReturnStep DEF NotFound, At
    <3>5. CASE Insert(t)
      BY <1>1, <3>5, TreeStep DEF Insert, At
    <3>6. CASE Register(t)
      BY <1>1, <3>6, RegisterStep
    <3>7. CASE Reject(t)
      BY <1>1, <3>7, ReturnStep DEF Reject, At
    <3>8. CASE Seek(t)
      BY <1>1, <3>8, FindStep, ReturnStep DEF Seek, At
    <3>9. CASE SeekTree(t)
      <4>1. CASE <<at[t], call[t].id>> \in trees
        <5>1. trees' = trees \cup {<<at[t], call[t].id>>} /\ UNCHANGED <<entries, nodes>>
          BY <3>9, <4>1 DEF SeekTree, data
        <5> QED
          BY <1>1, <3>9, <4>1, <5>1, TreeStep DEF SeekTree, At
      <4>2. CASE <<at[t], call[t].id>> \notin trees
        BY <1>1, <3>9, <4>2, ReturnStep DEF SeekTree, At
      <4> QED
        BY <4>1, <4>2
    <3>10. CASE Look(t)
      BY <1>1, <3>10, ReturnStep DEF Look, At
    <3> QED
      BY <3>1, <3>2, <3>3, <3>4, <3>5, <3>6, <3>7, <3>8, <3>9, <3>10
  <2> QED
    BY <1>1, <2>1, <2>2
<1> QED
  BY InitIInv, <1>1, PTL DEF Spec

(* The two searches of the registry, one of which stops at the first match   *)
(* and the other does not, find the same entry.                             *)
THEOREM SearchesAgree == Spec => []EntriesIncrease
<1>1. IInv => EntriesIncrease
  BY DEF IInv
<1> QED
  BY Invariance, <1>1, PTL

(* What a thread has found under a mutex it has released is still what it   *)
(* looked for (lookahead_job_registry.cpp:113, 133).                        *)
THEOREM PointersStayValid == Spec => []PointersValid
<1>1. IInv => PointersValid
  BY DEF IInv
<1> QED
  BY Invariance, <1>1, PTL

(* The registry implements the atomic one: the step that decides the answer *)
(* of a call is the call, every other step of it is a stutter.              *)
THEOREM RegistryIsAtomic == Spec => ImplementsJobRegister
<1>1. Init => Atomic!JRInit
  BY DEF Init, Atomic!JRInit, Calls, Atomic!Calls
<1>2. ASSUME IInv, [Next]_vars PROVE [Atomic!JRNext]_(Atomic!registerVars)
  <2> USE DEF Atomic!registerVars
  <2>1. CASE UNCHANGED vars
    BY <2>1 DEF vars, data
  <2>2. CASE Next
    <3> PICK t \in Threads :
            \/ Call(t)
            \/ Open(t) \/ Find(t) \/ NotFound(t) \/ Insert(t) \/ Register(t) \/ Reject(t)
            \/ Seek(t) \/ SeekTree(t) \/ Look(t)
      BY <2>2 DEF Next
    <3>0. /\ pc[t] # "done" <=> result[t] = "none"
          /\ call[t].time \in Times /\ call[t].id \in Ids /\ call[t].path \in Paths
          /\ pc[t] \in {"entry", "tree"} => at[t] \in Holding(t)
      BY <1>2 DEF IInv, Returned, TypeOK, Calls, PointersValid
    <3>1. CASE Call(t)
      <4>1. Atomic!Ask(t)
        BY <3>0, <3>1 DEF Call, data, Atomic!Ask, Calls, Atomic!Calls
      <4> QED
        BY <4>1 DEF Atomic!JRNext
    <3>2. CASE Open(t)
      <4>1. Registered' = Registered
        BY <1>2, <3>2, OpenStep
      <4> QED
        BY <3>2, <4>1 DEF Open, Proceed, Registered
    <3>3. CASE Find(t)
      BY <3>3 DEF Find, Proceed, data
    <3>4. CASE NotFound(t)
      <4>1. \A r \in Registered : r[1] # call[t].time
        <5> SUFFICES ASSUME NEW n \in nodes PROVE entries[n[1]] # call[t].time
          BY DEF Registered
        <5> QED
          BY <1>2, <3>4, NodeShape DEF NotFound, Holding
      <4>2. Atomic!Fail(t)
        BY <3>0, <3>4, <4>1 DEF NotFound, At, Return, data, Atomic!Fail, Atomic!Answer, Registered
      <4> QED
        BY <4>2 DEF Atomic!JRNext
    <3>5. CASE Insert(t)
      BY <3>5 DEF Insert, Proceed
    <3>6. CASE Register(t)
      <4>1. Registered' = Registered \cup {<<call[t].time, call[t].id, call[t].path>>}
        BY <1>2, <3>6, RegisterStep
      <4>2. \A p \in Paths : <<call[t].time, call[t].id, p>> \in Registered <=> Node(t, p) \in nodes
        BY <1>2, <3>0, <3>6, TreeIsCurrent DEF Register, At
      <4>3. ~Atomic!Covered(call[t])
        BY <3>6, <4>2 DEF Register, Blocked, Atomic!Covered, Registered, IsPrefix, Atomic!IsPrefix
      <4>4. Atomic!Answer(t, "try", "yes")
        BY <3>0, <3>6 DEF Register, At, Return, Atomic!Answer
      <4>5. Atomic!Accept(t)
        BY <4>1, <4>3, <4>4 DEF Atomic!Accept, Registered
      <4> QED
        BY <4>5 DEF Atomic!JRNext
    <3>7. CASE Reject(t)
      <4>1. \A p \in Paths : <<call[t].time, call[t].id, p>> \in Registered <=> Node(t, p) \in nodes
        BY <1>2, <3>0, <3>7, TreeIsCurrent DEF Reject, At
      <4>2. Atomic!Covered(call[t])
        BY <3>7, <4>1 DEF Reject, Blocked, Atomic!Covered, Registered, IsPrefix, Atomic!IsPrefix
      <4>3. Atomic!Answer(t, "try", "no")
        BY <3>0, <3>7 DEF Reject, At, Return, Atomic!Answer
      <4>4. Atomic!Refuse(t)
        BY <3>7, <4>2, <4>3 DEF Reject, data, Atomic!Refuse
      <4> QED
        BY <4>4 DEF Atomic!JRNext
    <3>8. CASE Seek(t)
      <4>1. CASE Holding(t) # {}
        BY <3>8, <4>1 DEF Seek, Proceed, data
      <4>2. CASE Holding(t) = {}
        <5>1. <<call[t].time, call[t].id, call[t].path>> \notin Registered
          BY <1>2, <4>2, NodeShape DEF Holding, Registered
        <5>2. Return(t, "no") /\ UNCHANGED data /\ call[t].op = "has" /\ pc[t] = "registry"
          BY <3>8, <4>2 DEF Seek, At
        <5>3. Atomic!Has(t)
          BY <3>0, <5>1, <5>2 DEF Return, data, Atomic!Has, Atomic!Answer, Registered
        <5> QED
          BY <5>3 DEF Atomic!JRNext
      <4> QED
        BY <4>1, <4>2
    <3>9. CASE SeekTree(t)
      <4>1. CASE <<at[t], call[t].id>> \in trees
        BY <3>9, <4>1 DEF SeekTree, Proceed, data
      <4>2. CASE <<at[t], call[t].id>> \notin trees
        <5>1. Node(t, call[t].path) \notin nodes
          <6> SUFFICES ASSUME Node(t, call[t].path) \in nodes PROVE FALSE
            OBVIOUS
          <6>1. <<Node(t, call[t].path)[1], Node(t, call[t].path)[2]>> \in trees
            BY <1>2, NodeShape
          <6> QED
            BY <4>2, <6>1 DEF Node
        <5>2. <<call[t].time, call[t].id, call[t].path>> \notin Registered
          BY <1>2, <3>0, <3>9, <5>1, TreeIsCurrent DEF SeekTree, At
        <5>3. Return(t, "no") /\ UNCHANGED data /\ call[t].op = "has" /\ pc[t] = "entry"
          BY <3>9, <4>2 DEF SeekTree, At
        <5>4. Atomic!Has(t)
          BY <3>0, <5>2, <5>3 DEF Return, data, Atomic!Has, Atomic!Answer, Registered
        <5> QED
          BY <5>4 DEF Atomic!JRNext
      <4> QED
        BY <4>1, <4>2
    <3>10. CASE Look(t)
      <4>1. <<call[t].time, call[t].id, call[t].path>> \in Registered <=> Node(t, call[t].path) \in nodes
        BY <1>2, <3>0, <3>10, TreeIsCurrent DEF Look, At
      <4>2. Atomic!Has(t)
        BY <3>0, <3>10, <4>1 DEF Look, At, Return, data, Atomic!Has, Atomic!Answer, Registered
      <4> QED
        BY <4>2 DEF Atomic!JRNext
    <3> QED
      BY <3>1, <3>2, <3>3, <3>4, <3>5, <3>6, <3>7, <3>8, <3>9, <3>10
  <2> QED
    BY <1>2, <2>1, <2>2
<1> QED
  BY <1>1, <1>2, Invariance, PTL DEF Spec, ImplementsJobRegister, Atomic!JRSpec
=============================================================================
