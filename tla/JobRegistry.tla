------------------------------- MODULE JobRegistry ------------------------------
(***************************************************************************)
(* LookAheadJobRegistry: a deque of entries by timestamp, each a map from    *)
(* job identifiers to trees of paths.  A call holds one mutex after the      *)
(* other: the registry's to find the entry, the entry's to find the tree,    *)
(* the tree's to look the path up, so that calls interleave between them.    *)
(*                                                                         *)
(* A node of a tree is there when a path through it is registered, and a     *)
(* walk from the root meets the prefixes of its path: the tree is modelled   *)
(* by the set of its registered paths, of priorities only.                  *)
(***************************************************************************)
EXTENDS Naturals, Sequences, SequencesExt

CONSTANTS
    Threads,    \* the threads that call the registry
    Times,      \* timestamps
    Ids,        \* job identifiers
    Paths       \* paths, as sequences of priorities

ASSUME TimesAssumption == Times \subseteq Nat
ASSUME PathsAssumption == Paths \subseteq Seq(Nat)

VARIABLES
    entries,    \* _entries, by their timestamp
    trees,      \* _id_trees: the pairs of an entry's index and an identifier
    nodes,      \* the registered nodes: triples of index, identifier and path
    call,       \* the call of each thread
    pc,         \* the mutex it takes next: "registry", "entry", "tree"; or "done"
    at,         \* index of the entry it has found, 0 before
    result      \* what it returned, "failed" if the assertion threw

data == <<entries, trees, nodes>>
vars == <<data, call, pc, at, result>>

Calls == [op : {"try", "has"}, time : Times, id : Ids, path : Paths]

Init ==
    /\ entries = <<>> /\ trees = {} /\ nodes = {}
    /\ call \in [Threads -> Calls]
    /\ pc = [t \in Threads |-> "registry"]
    /\ at = [t \in Threads |-> 0]
    /\ result = [t \in Threads |-> "none"]

Holding(t) == {i \in 1..Len(entries) : entries[i] = call[t].time}

-----------------------------------------------------------------------------
\* A failed assertion throws out of the thread and ends the program.
Running == \A t \in Threads : result[t] # "failed"

Call(t) ==
    /\ Running
    /\ pc[t] = "done"
    /\ \E c \in Calls : call' = [call EXCEPT ![t] = c]
    /\ pc' = [pc EXCEPT ![t] = "registry"]
    /\ at' = [at EXCEPT ![t] = 0]
    /\ result' = [result EXCEPT ![t] = "none"]
    /\ UNCHANGED data

At(t, level, op) == Running /\ pc[t] = level /\ call[t].op = op

Proceed(t, level, i) ==
    /\ pc' = [pc EXCEPT ![t] = level]
    /\ at' = [at EXCEPT ![t] = i]
    /\ UNCHANGED <<call, result>>

Return(t, r) ==
    /\ pc' = [pc EXCEPT ![t] = "done"]
    /\ result' = [result EXCEPT ![t] = r]
    /\ UNCHANGED <<call, at>>

-----------------------------------------------------------------------------
(* try_register.                                                            *)

(* Later than the last entry, if there is one.                              *)
IsLater(t) == entries # <<>> => entries[Len(entries)] < call[t].time

Open(t) ==
    /\ At(t, "registry", "try") /\ IsLater(t)
    /\ entries' = Append(entries, call[t].time)
    /\ Proceed(t, "entry", Len(entries) + 1)
    /\ UNCHANGED <<trees, nodes>>

(* The search from the last entry has no break: the first one found stays.   *)
Find(t) ==
    /\ At(t, "registry", "try") /\ ~IsLater(t)
    /\ \E i \in Holding(t) : (\A j \in Holding(t) : i <= j) /\ Proceed(t, "entry", i)
    /\ UNCHANGED data

NotFound(t) ==
    /\ At(t, "registry", "try") /\ ~IsLater(t) /\ Holding(t) = {}
    /\ Return(t, "failed")
    /\ UNCHANGED data

Insert(t) ==
    /\ At(t, "entry", "try")
    /\ trees' = trees \cup {<<at[t], call[t].id>>}
    /\ Proceed(t, "tree", at[t])
    /\ UNCHANGED <<entries, nodes>>

Node(t, p) == <<at[t], call[t].id, p>>

(* The walk meets a registered node.                                        *)
Blocked(t) == \E p \in Paths : IsPrefix(p, call[t].path) /\ Node(t, p) \in nodes

\* Mutant: only the node of the path itself is looked at.
RegisterLeaf(t) ==
    /\ At(t, "tree", "try") /\ Node(t, call[t].path) \notin nodes
    /\ nodes' = nodes \cup {Node(t, call[t].path)}
    /\ Return(t, "yes")
    /\ UNCHANGED <<entries, trees>>

Register(t) ==
    /\ At(t, "tree", "try") /\ ~Blocked(t)
    /\ nodes' = nodes \cup {Node(t, call[t].path)}
    /\ Return(t, "yes")
    /\ UNCHANGED <<entries, trees>>

Reject(t) ==
    /\ At(t, "tree", "try") /\ Blocked(t)
    /\ Return(t, "no")
    /\ UNCHANGED data

-----------------------------------------------------------------------------
(* has_registered.                                                          *)

(* The search from the last entry stops at the first it meets.               *)
Seek(t) ==
    /\ At(t, "registry", "has")
    /\ \/ \E i \in Holding(t) : (\A j \in Holding(t) : j <= i) /\ Proceed(t, "entry", i)
       \/ Holding(t) = {} /\ Return(t, "no")
    /\ UNCHANGED data

SeekTree(t) ==
    /\ At(t, "entry", "has")
    /\ \/ <<at[t], call[t].id>> \in trees /\ Proceed(t, "tree", at[t])
       \/ <<at[t], call[t].id>> \notin trees /\ Return(t, "no")
    /\ UNCHANGED data

Look(t) ==
    /\ At(t, "tree", "has")
    /\ Return(t, IF Node(t, call[t].path) \in nodes THEN "yes" ELSE "no")
    /\ UNCHANGED data

-----------------------------------------------------------------------------
Next ==
    \E t \in Threads :
        \/ Call(t)
        \/ Open(t) \/ Find(t) \/ NotFound(t) \/ Insert(t) \/ Register(t) \/ Reject(t)
        \/ Seek(t) \/ SeekTree(t) \/ Look(t)

Spec == Init /\ [][Next]_vars

-----------------------------------------------------------------------------
(* Every variable stays in its domain.                                      *)
TypeOK ==
    /\ entries \in Seq(Times)
    /\ trees \subseteq Nat \X Ids
    /\ nodes \subseteq Nat \X Ids \X Paths
    /\ call \in [Threads -> Calls]
    /\ pc \in [Threads -> {"registry", "entry", "tree", "done"}]
    /\ at \in [Threads -> 0..Len(entries)]
    /\ result \in [Threads -> {"none", "yes", "no", "failed"}]

(* The timestamps of the entries increase: the two searches, of which only   *)
(* one stops at the first match, find the same entry.                       *)
EntriesIncrease == \A i, j \in 1..Len(entries) : i < j => entries[i] < entries[j]

(* A thread that released the registry's mutex holds an entry of its own     *)
(* timestamp, whatever the others have appended since (the pointer of        *)
(* lookahead_job_registry.cpp:113 stays valid), and once it has released the *)
(* entry's mutex the tree it holds is in that entry.                        *)
PointersValid ==
    \A t \in Threads :
        /\ pc[t] \in {"entry", "tree"} => at[t] \in Holding(t)
        /\ pc[t] = "tree" => <<at[t], call[t].id>> \in trees

(* The calls are atomic, although their parts interleave.                   *)
Atomic == INSTANCE JobRegister WITH
    registered <- {<<entries[n[1]], n[2], n[3]>> : n \in nodes},
    asked <- call,
    answer <- result

ImplementsJobRegister == Atomic!JRSpec
=============================================================================
